------------------------- MODULE HostAcceptsProofs -------------------------
(***************************************************************************)
(* HostAcceptsWorker: the host accepts every event an honest worker        *)
(* reports, for all policies, limits and crashes, but for a checkpoint     *)
(* after the user's cancel and the one behind an exact check that edited   *)
(* the tree of a critic run.                                               *)
(*                                                                         *)
(* The proof replays what is in the pipe. Accepts and After say what the   *)
(* host asks of an event and what it makes of it, at any snapshot; in      *)
(* Harmony, handling all events in the pipe leads the host, refusing none, *)
(* to a snapshot that Meets the worker where it is now. A step of the      *)
(* worker lengthens the replay at its end, one of the host shortens it at  *)
(* its head.                                                               *)
(***************************************************************************)
EXTENDS PatchRunsProofs

-----------------------------------------------------------------------------
(***************************************************************************)
(* What the host does to a snapshot: a row and the host's memory of it,    *)
(* wherever in the stream of the worker's events that may be.              *)
(***************************************************************************)
Verdicts == {"acceptable", "repair_required", "insufficient_context"}

CapOf(c) == IF CriticPolicy(c) THEN DraftLimit + RepairLimit + 1 ELSE StepLimit
LocalCapOf(c) == IF CriticPolicy(c) THEN DraftLimit + RepairLimit ELSE LocalLimit
SettledIn(c, h, n) == ~h.pending /\ LocalSettled(c, n)

\* Authorized, of a snapshot.
RequestOk(c, h, phase, call) ==
    /\ phase \in RequestPhases
    /\ CriticPolicy(c) => h.action = "none"
    /\ Calls(c) < CapOf(c)
    /\ CASE phase = "planner" ->
              Planned(c.policy) /\ c.phase = "cloud_planner" /\ c.used["planner"] = 0
              /\ c.cp.state = "planner"
         [] phase = "local" ->
              /\ c.phase = "local_solver" /\ c.used["local"] < LocalCapOf(c)
              /\ Reviewed(c) => Calls(c) < CapOf(c) - 1
              /\ c.cp.state = "local" /\ c.cp.reason = "local_request_started"
              /\ c.cp.calls = call /\ call = c.used["local"] + 1
              /\ c.cp.half = "repair" /\ PhaseCalls(c.cp) = 1 =>
                   /\ h.granted /\ c.verdict = "repair_required" /\ ~c.criticCurrent
                   /\ call = c.draftCalls + 1
         [] phase = "critic" ->
              /\ CriticPolicy(c) /\ c.phase = "cloud_critic" /\ c.used["critic"] = 0
              /\ h.context /\ c.cp.state = "critic" /\ c.cp.reason = "critic_request_started"
         [] phase = "cloud" ->
              /\ c.phase = "cloud_solver" /\ c.recoveries = 1 /\ c.cp.state = "cloud"
              /\ c.policy \notin {"local_only", "local_critic_repair"}
    /\ CanReserve(c, phase, call)

\* RepairGranted and PhaseAllowed.
RepairOk(c, h) ==
    /\ CriticPolicy(c) /\ c.phase = "cloud_critic" /\ c.verdict = "repair_required"
    /\ c.cp.reason = "critic_repair_required" /\ ~h.granted /\ h.action = "none"

PhaseOk(c, h, phase) ==
    /\ ~h.pending /\ ~Unresolved(c) /\ c.phase \notin {"checking", "cloud_solver"}
    /\ CASE phase = "cloud" -> CanBeginCloudRecovery(c)
         [] phase = "planner" -> Planned(c.policy) /\ c.phase = "preparing"
         [] phase = "critic" -> h.context /\ CanSetPhase(c, "cloud_critic")
         [] phase = "local" ->
              /\ CanSetPhase(c, "local_solver")
              /\ IF Planned(c.policy) THEN c.phase = "cloud_planner" /\ c.plan
                 ELSE c.phase = "preparing" \/ RepairOk(c, h)

\* CheckpointBudget and ActionOrder.
BudgetOk(c, cp) ==
    /\ ~CriticPolicy(c) => cp.calls \in 0..LocalLimit
    /\ AllowedActions(cp) =
         IF cp.state # "local" THEN {}
         ELSE Offered(Remaining(cp) + (IF cp.reason = "local_request_started" THEN 1 ELSE 0), Checked(cp))

OrderOk(c, h, cp) ==
    LET prior == c.cp
        moved == cp.src # prior.src
    IN  /\ cp.reason = "finish_required" /\ prior.seq > 0 /\ moved =>
             h.action \in {"ran", "check"} /\ prior.reason = "local_request_started"
        /\ cp.decision = "stop" => cp.state = "stopped"
        /\ prior.seq > 0 /\ c.phase = "local_solver" /\ cp.decision # "stop" =>
             IF cp.reason = "local_request_started"
             THEN /\ h.action = "none" /\ prior.state = "local" /\ prior.decision = "continue"
                  /\ prior.reason # "local_request_started" /\ cp.calls = prior.calls + 1
                  /\ ~moved /\ cp.chk = prior.chk /\ cp.fails = prior.fails
                  /\ prior.calls > 0 => SettledIn(c, h, prior.calls)
             ELSE /\ cp.calls = prior.calls /\ h.action # "command"
                  /\ prior.reason = "local_request_started" =>
                       /\ SettledIn(c, h, prior.calls)
                       /\ h.action = "none" =>
                            cp.reason \in {"explicit_help", "fresh_visible_check", "critic_required"}
                  /\ cp.reason = "command_observed" => h.action = "ran"
                  /\ cp.reason \in {"visible_check_passed", "visible_check_failed",
                                    "visible_check_tree_changed", "visible_checks_failed"} =>
                       h.action = "check"

RouteOk(c, h, cp) ==
    BudgetOk(c, cp) /\ (CriticPolicy(c) => OrderOk(c, h, cp)) /\ CanRecordCheckpoint(c, cp)

ChecksOf(x) == [status |-> IF x.passed THEN "passed" ELSE "failed", src |-> x.src, after |-> x.after]

\* What the handler of an event asks for before it does not refuse it.
Accepts(s, x) ==
    LET c == s.run
        h == s.host
        strict == CriticPolicy(c)
    IN
    CASE x.type = "prepare" -> RequestOk(c, h, x.phase, x.call)
      [] x.type \in {"finished", "unsettled"} -> h.pending
      [] x.type = "context" -> CanRecordCriticDraft(c, x.src) /\ ~h.context /\ ~h.pending
      [] x.type = "response" -> CanRecordCriticReceipt(c, x.src) /\ h.context /\ ~h.pending
      [] x.type = "phase" -> PhaseOk(c, h, x.phase)
      [] x.type = "command" ->
            /\ c.phase = "local_solver" => "run_command" \in AllowedActions(c.cp)
            /\ strict => /\ c.phase = "local_solver" /\ h.action = "none"
                         /\ c.cp.reason = "local_request_started" /\ SettledIn(c, h, c.cp.calls)
      [] x.type = "tool" -> strict => c.phase = "local_solver" /\ h.action = "command"
      [] x.type = "denied" ->
            /\ c.phase = "local_solver" /\ c.cp.state = "local"
            /\ c.cp.reason = "local_request_started" /\ c.cp.calls = x.call
            /\ x.action \notin AllowedActions(c.cp) /\ SettledIn(c, h, x.call)
      [] x.type = "checked" ->
            /\ c.phase = "local_solver" => "run_visible_checks" \in AllowedActions(c.cp)
            /\ strict => /\ h.action = "none" /\ c.cp.reason = "local_request_started"
                         /\ SettledIn(c, h, c.cp.calls) /\ x.check.src = c.cp.src
            /\ CanRecordCheckpointCheck(c, x.check)
      [] x.type = "checkpoint" -> RouteOk(c, h, x.cp)
      [] x.type = "plan" -> CanRecordPlan(c)
      [] x.type = "handoff" -> CanRecordHandoff(c, x.src, x.chk, x.patch)
      [] x.type = "patch" ->
            /\ x.kind = "submitted" =>
                 /\ strict => c.cp.decision = "submit" /\ x.src = c.cp.src
                 /\ c.phase = "local_solver" => c.cp.decision = "submit"
            /\ CanRecordPatch(c, x.kind, x.src)
      [] x.type = "verifying" ->
            /\ strict => c.phase # "checking" /\ ~h.final
            /\ Reviewed(c) => c.phase = "cloud_solver" /\ c.recoveries = 1
            /\ CanSetPhase(c, "checking")
      [] x.type = "verified" ->
            /\ strict => c.phase = "checking" /\ ~h.final
            /\ CanRecordChecks(c, ChecksOf(x))
      [] x.type \in {"ready", "terminal"} -> TRUE

\* The snapshot after the event, if the run goes on; v is the verdict the critic gives.
Acts(c, h, action) == IF CriticPolicy(c) THEN [h EXCEPT !.action = action] ELSE h
After(v, s, x) ==
    LET c == s.run
        h == s.host
        To(d, g) == [run |-> d, host |-> g]
    IN
    CASE x.type = "prepare" -> To(StartRequest(ReserveRequest(c, x.phase)), [h EXCEPT !.pending = TRUE])
      [] x.type = "finished" -> To(Settle(c, "succeeded", x.cost), [h EXCEPT !.pending = FALSE])
      [] x.type = "context" -> To(RecordCriticDraft(c, x.src), [h EXCEPT !.context = TRUE])
      [] x.type = "response" -> To(RecordCriticReceipt(c, v), h)
      [] x.type = "phase" ->
            IF x.phase = "cloud" THEN To(BeginCloudRecovery(c), h)
            ELSE To(SetPhase(c, StorePhase[x.phase]),
                    [h EXCEPT !.granted = @ \/ (x.phase = "local" /\ RepairOk(c, h))])
      [] x.type = "command" ->
            To(IF c.phase = "local_solver" \/ Reviewed(c) THEN InvalidateCheckpointCheck(c) ELSE c,
               Acts(c, h, "command"))
      [] x.type = "tool" -> To(RecordTool(c), Acts(c, h, "ran"))
      [] x.type = "checked" -> To(RecordCheckpointCheck(c, x.check), Acts(c, h, "check"))
      [] x.type = "checkpoint" -> To(RecordCheckpoint(c, x.cp), [h EXCEPT !.action = "none"])
      [] x.type = "plan" -> To([c EXCEPT !.plan = TRUE], h)
      [] x.type = "handoff" -> To([c EXCEPT !.handoff = x.src], h)
      [] x.type = "patch" -> To(RecordPatch(c, x.kind, x.src), h)
      [] x.type = "verifying" -> To(SetPhase(c, "checking"), h)
      [] x.type = "verified" -> To(RecordChecks(c, ChecksOf(x)), [h EXCEPT !.final = CriticPolicy(c)])
      [] x.type = "terminal" -> To(c, [h EXCEPT !.terminal = x.status])
      [] OTHER -> s

\* The refusal that remains: the checkpoint behind an exact check that edited a critic run's tree.
Contested(s, x) ==
    /\ x.type = "checkpoint" /\ ~RouteOk(s.run, s.host, x.cp)
    /\ CriticPolicy(s.run) /\ s.run.check.src # s.run.check.after

\* f is what the host goes through as it handles the first n events of es.
Course(v, f, es, n) == \A i \in 1..n : Accepts(f[i], es[i]) /\ f[i + 1] = After(v, f[i], es[i])

\* Handling es leads from s to t; or meets a refusal.
Replayed(v, s, es, t) == \E f : f[1] = s /\ f[Len(es) + 1] = t /\ Course(v, f, es, Len(es))
Balked(v, s, es) ==
    \E f : \E n \in 1..Len(es) : f[1] = s /\ Course(v, f, es, n - 1) /\ Contested(f[n], es[n])

\* The snapshot now: what the host has accepted and is still waiting for is done.
Seen ==
    CASE host.await = "context" ->
           [run |-> RecordCriticDraft(run, run.cp.src), host |-> [host EXCEPT !.await = "none", !.context = TRUE]]
      [] host.await = "candidate" ->
           [run |-> RecordPatch(run, "submitted", run.cp.src), host |-> [host EXCEPT !.await = "none"]]
      [] OTHER -> [run |-> run, host |-> host]

-----------------------------------------------------------------------------
(***************************************************************************)
(* Where the worker q is when the host has heard it out, at the snapshot s. *)
(***************************************************************************)
Formal(s) ==
    /\ Row(s.run) /\ DOMAIN s.run.last = {"phase", "state"} /\ DOMAIN s.host = HostFields
    /\ s.run.used \in [RequestPhases -> Nat] /\ s.run.receipts \in [RequestPhases -> Nat]

\* The counters of a router that has been initialised.
Counted(r) ==
    /\ r.calls \in Nat /\ r.start \in Nat /\ r.src \in Nat /\ r.fails \in Nat /\ r.dups \in Nat
    /\ r.start <= r.calls /\ Remaining(r) >= 0
    /\ r.half \in {"draft", "repair"} /\ r.criticUsed \in BOOLEAN
    /\ r.half = "draft" => r.start = 0
    /\ r.half = "repair" => r.policy = "local_critic_repair" /\ r.criticUsed /\ r.start <= DraftLimit
    /\ r.policy = "local_critic_repair" => ~r.handoffUsed /\ r.state \notin {"planner", "cloud"}
Steered(r, c) == DOMAIN r = RouterFields /\ r.policy = c.policy /\ r.seq \in Nat \ {0} /\ Counted(r)

Grounded(s, q) == Formal(s) /\ Running(s.run) /\ s.run.cp = q.r /\ (q.r = NoRouter \/ Steered(q.r, s.run))

\* No request is open, or the one of the phase is.
Even(s) == ~s.host.pending /\ ~Unresolved(s.run) /\ s.run.used = s.run.receipts
OpenIn(s, phase) ==
    /\ s.host.pending /\ s.run.last = [phase |-> phase, state |-> "started"]
    /\ s.run.used = [s.run.receipts EXCEPT ![phase] = @ + 1]

\* Nothing is filed, nothing was handed over.
Empty(c) == c.patch = [kind |-> "none", src |-> Base] /\ c.checks.status = "not_run"
Unmoved(c) == c.recoveries = 0 /\ c.handoff = NoSource

\* The check the router relies on is the one the row keeps.
Sound(r, c) ==
    r.chk # NoSource => r.chk = r.src /\ c.check.passed /\ c.check.src = r.src /\ c.check.after = r.src
Valid(r, c) == Sound(r, c) /\ (r.chk # NoSource => c.check.fresh)

Unjudged(c, h) == c.verdict = "none" /\ ~h.granted
Halved(r, c, h) ==
    IF r.half = "draft"
    THEN Unjudged(c, h) /\ c.draft = NoSource /\ ~r.criticUsed /\ ~h.context /\ c.used["critic"] = 0
    ELSE /\ c.verdict = "repair_required" /\ h.granted /\ ~c.criticCurrent
         /\ c.draftCalls = r.start /\ c.draft # NoSource

\* The local phase.
Solving(s, q) ==
    /\ q.phase = "local" /\ s.run.phase = "local_solver" /\ Halved(q.r, s.run, s.host)
    /\ Empty(s.run) /\ Unmoved(s.run) /\ ~s.host.final /\ ~q.r.handoffUsed
    /\ Planned(s.run.policy) => s.run.plan
Within(r) == r.fails < FailedCheckLimit /\ r.dups < DuplicateLimit
\* A request is counted, and its answer is awaited.
Waiting(r) ==
    /\ r.state = "local" /\ r.pending /\ r.reason = "local_request_started" /\ r.calls > 0
    /\ r.allowed = Offered(Remaining(r) + 1, Checked(r)) /\ Within(r)

Booting(s, q) ==
    /\ q.r = NoRouter /\ s.run = SetPhase(Start(NewRun(s.run.policy)), "preparing")
    /\ s.host = [NewHost EXCEPT !.place = "working"] /\ q.live = Base /\ q.calls = 0

Looping(s, q) ==
    /\ Solving(s, q) /\ Even(s) /\ s.run.used["local"] = q.r.calls /\ s.host.action = "none"
    /\ q.r.state = "local" /\ ~q.r.pending /\ q.r.decision = "continue"
    /\ q.r.reason # "local_request_started" /\ Within(q.r)
    /\ Valid(q.r, s.run) /\ q.live = q.r.src

Planning(s, q) ==
    /\ Planned(s.run.policy) /\ s.run.phase = "cloud_planner" /\ ~s.run.plan
    /\ q.r = [NewRouter(s.run.policy, Base) EXCEPT !.seq = q.r.seq]
    /\ s.run.used["planner"] = (IF q.at = "ask" THEN 0 ELSE 1)
    /\ s.run.used["local"] = 0 /\ s.run.used["critic"] = 0 /\ Empty(s.run) /\ Unmoved(s.run)
    /\ Unjudged(s.run, s.host) /\ s.run.draft = NoSource /\ ~s.host.context /\ ~s.host.final
    /\ q.live = Base /\ s.host.action = "none"

Consulting(s, q) ==
    /\ Solving(s, q) /\ Waiting(q.r) /\ Valid(q.r, s.run) /\ q.live = q.r.src /\ s.host.action = "none"
    /\ s.run.used["local"] = (IF q.at = "ask" THEN q.r.calls - 1 ELSE q.r.calls)

\* A critic run's draft awaits its critic: frozen, when the host has built the context from it.
Drafted(s, q) ==
    /\ CriticPolicy(s.run) /\ q.r.state = "critic" /\ ~q.r.pending /\ q.r.half = "draft"
    /\ q.r.chk # NoSource /\ Sound(q.r, s.run) /\ q.live = q.r.src /\ s.host.action = "none"
    /\ Within(q.r) /\ ~s.host.granted /\ s.run.used["local"] = q.r.calls
    /\ Empty(s.run) /\ Unmoved(s.run) /\ ~s.host.final
Frozen(s, q) ==
    s.run.draft = q.r.src /\ s.run.draftCalls = q.r.calls /\ s.host.context

Freezing(s, q) ==
    /\ Drafted(s, q) /\ Even(s) /\ s.run.phase = "local_solver" /\ s.run.verdict = "none"
    /\ ~q.r.criticUsed /\ q.r.reason = "critic_required" /\ s.run.used["critic"] = 0
    /\ IF q.at = "critic" THEN s.run.draft = NoSource /\ ~s.host.context ELSE Frozen(s, q)

Reviewing(s, q) ==
    /\ Drafted(s, q) /\ Frozen(s, q) /\ s.run.phase = "cloud_critic"
    /\ q.r.criticUsed /\ q.r.reason = "critic_request_started"
    /\ s.run.used["critic"] = (IF q.at = "ask" THEN 0 ELSE 1)

Clouding(s, q) ==
    /\ s.run.phase = "cloud_solver" /\ s.run.recoveries = 1 /\ HasHandoff(s.run)
    /\ s.run.policy \notin {"local_only", "local_critic_repair"}
    /\ Planned(s.run.policy) => s.run.plan
    /\ q.r.state = "cloud" /\ s.run.patch.kind # "submitted"

Requesting(s, q) ==
    /\ q.phase \in RequestPhases
    /\ IF q.at \in {"admission", "wire"} THEN OpenIn(s, q.phase) ELSE Even(s)
    /\ q.phase = "planner" => Planning(s, q)
    /\ q.phase = "local" => Consulting(s, q)
    /\ q.phase = "critic" => Reviewing(s, q) /\ s.run.verdict = "none"
    /\ q.phase = "cloud" => Clouding(s, q) /\ (q.at = "answer" => s.run.receipts["cloud"] >= 1)

Commanding(s, q) ==
    /\ Solving(s, q) /\ Waiting(q.r) /\ "run_command" \in q.r.allowed /\ Sound(q.r, s.run)
    /\ Even(s) /\ s.run.used["local"] = q.r.calls
    /\ CriticPolicy(s.run) => s.host.action = (IF q.at = "ran" THEN "ran" ELSE "command")
    /\ q.at = "ran" => q.live \in Nat

Leaving(s, q) == Solving(s, q) /\ Even(s) /\ q.r.state = "checkpoint"

Judging(s, v, q) ==
    /\ Reviewing(s, q) /\ Even(s) /\ s.run.verdict = v /\ s.run.criticCurrent

Finishing(s, q) ==
    /\ Even(s) /\ s.run.patch.kind # "submitted" /\ (CriticPolicy(s.run) => s.run.checks.status = "not_run" /\ ~s.host.final)
    /\ CriticPolicy(s.run) => q.live = q.r.src
    /\ \/ /\ s.run.phase = "local_solver" /\ ~Reviewed(s.run) /\ q.r.decision = "submit"
          /\ CriticPolicy(s.run) => s.run.verdict = "repair_required"
       \/ /\ s.run.phase = "cloud_critic" /\ CriticPolicy(s.run) /\ q.r.decision = "submit"
          /\ s.run.verdict = "acceptable" /\ s.run.criticCurrent /\ s.run.draft = q.r.src
       \/ Clouding(s, q) /\ s.run.receipts["cloud"] >= 1

Exporting(s, q) ==
    /\ s.run.phase = "checking" /\ s.run.patch.kind = "submitted"
    /\ CriticPolicy(s.run) =>
         /\ s.run.checks.status = "not_run" /\ ~s.host.final /\ q.live = q.r.src /\ q.r.decision = "submit"

Busy == {"loop", "ask", "admission", "wire", "answer", "command", "ran", "leave", "critic", "context", "verdict"}

Meets(s, v, q) ==
    /\ q.at # "gone" => Grounded(s, q)
    /\ q.at \in Busy => q.r # NoRouter /\ Calls(s.run) = q.calls /\ ~q.unsettled
    /\ q.at = "boot" => Booting(s, q) /\ ~q.unsettled
    /\ q.at = "loop" => Looping(s, q)
    /\ q.at \in {"ask", "admission", "wire", "answer"} => Requesting(s, q)
    /\ q.at \in {"command", "ran"} => Commanding(s, q)
    /\ q.at = "leave" => Leaving(s, q)
    /\ q.at \in {"critic", "context"} => Freezing(s, q)
    /\ q.at = "verdict" => Judging(s, v, q)
    /\ q.at = "finish" => Finishing(s, q)
    /\ q.at = "verify" => Exporting(s, q)

\* Whatever verdict may still come, the host will be where the worker is.
InStep ==
    \A v \in Verdicts : run.verdict \in {"none", v} =>
        \/ \E t : Replayed(v, Seen, pipe, t) /\ t.run.policy = run.policy /\ Meets(t, v, w)
        \/ Balked(v, Seen, pipe)

\* A run that goes on: its worker was neither stopped nor orphaned.
Going ==
    Live =>
        /\ host.up /\ Running(run) /\ host.failure = "none" /\ ~host.cancelled
        /\ ~w.orphan /\ ~w.cancelled /\ w.at # "none"
        /\ host.await = "candidate" => CriticPolicy(run) /\ CanRecordPatch(run, "submitted", run.cp.src)
        /\ InStep
Judged ==
    /\ run.verdict \in Verdicts \cup {"none"}
    /\ \A i \in DOMAIN inbox : inbox[i].type = "verdict" =>
         inbox[i].verdict \in Verdicts /\ inbox[i].verdict = run.verdict
Untouched ==
    /\ run.policy \in Policies
    /\ run.status = "created" => run = NewRun(run.policy) /\ host \in {NewHost, [NewHost EXCEPT !.up = FALSE]}
    /\ host.place = "preparing" =>
         /\ run = Start(NewRun(run.policy))
         /\ \E b \in BOOLEAN : host = [NewHost EXCEPT !.place = "preparing", !.cancelled = b]
Harmony == Going /\ Judged /\ Untouched /\ (host.stopped => host.failure # "none" \/ host.cancelled) /\ HostAcceptsWorker

\* Nothing is handled.
LEMMA NoneReplayed ==
    ASSUME NEW v, NEW s
    PROVE  Replayed(v, s, <<>>, s)
<1> DEFINE f == [i \in 1..1 |-> s]
<1>1. f[1] = s /\ Len(<<>>) = 0
  OBVIOUS
<1> HIDE DEF f
<1>2. f[Len(<<>>) + 1] = s /\ Course(v, f, <<>>, Len(<<>>))
  BY <1>1 DEF Course
<1> QED
  BY <1>1, <1>2 DEF Replayed

\* What is said first is handled first, then the rest.
LEMMA ReplayedOn ==
    ASSUME NEW v, NEW s, NEW t, NEW u, NEW es, NEW ev, IsPipe(es), IsPipe(ev),
           Replayed(v, s, es, t), Replayed(v, t, ev, u)
    PROVE  Replayed(v, s, es \o ev, u)
<1>1. PICK f : f[1] = s /\ f[Len(es) + 1] = t /\ Course(v, f, es, Len(es))
  BY DEF Replayed
<1>2. PICK g : g[1] = t /\ g[Len(ev) + 1] = u /\ Course(v, g, ev, Len(ev))
  BY DEF Replayed
<1> DEFINE n == Len(es)
           m == Len(ev)
           h == [i \in 1..(n + m + 1) |-> IF i <= n THEN f[i] ELSE g[i - n]]
           all == es \o ev
<1>3. Joins(es, ev, all)
  BY Joined
<1>4. /\ n \in Nat /\ m \in Nat /\ Len(all) = n + m
      /\ \A i \in 1..n : all[i] = es[i]
      /\ \A k \in 1..m : all[n + k] = ev[k]
  BY <1>3 DEF Joins
<1>5. /\ \A i \in 1..n : h[i] = f[i]
      /\ \A k \in 1..(m + 1) : h[n + k] = g[k]
  <2>1. ASSUME NEW i \in 1..n PROVE h[i] = f[i]
    BY <1>4, <2>1
  <2>2. ASSUME NEW k \in 1..(m + 1) PROVE h[n + k] = g[k]
    <3>1. n + k \in 1..(n + m + 1) /\ ~(n + k <= n) /\ (n + k) - n = k
      BY <1>4, <2>2
    <3> QED
      BY <3>1
  <2> QED
    BY <2>1, <2>2
<1>6. h[n + 1] = t
  <2>1. 1 \in 1..(m + 1)
    BY <1>4
  <2> QED
    BY <1>2, <1>5, <2>1
<1> HIDE DEF h, all
<1>7. h[1] = s
  <2>1. CASE n = 0
    BY <1>1, <1>6, <2>1
  <2>2. CASE n # 0
    BY <1>1, <1>4, <1>5, <2>2
  <2> QED
    BY <2>1, <2>2
<1>8. h[Len(all) + 1] = u
  <2>1. m + 1 \in 1..(m + 1) /\ Len(all) + 1 = n + (m + 1)
    BY <1>4
  <2> QED
    BY <1>2, <1>5, <2>1
<1>9. ASSUME NEW i \in 1..Len(all)
      PROVE  Accepts(h[i], all[i]) /\ h[i + 1] = After(v, h[i], all[i])
  <2>1. CASE i \in 1..n
    <3>1. h[i] = f[i] /\ all[i] = es[i]
      BY <1>4, <1>5, <2>1
    <3>2. h[i + 1] = f[i + 1]
      <4>1. CASE i = n
        BY <1>1, <1>6, <4>1
      <4>2. CASE i # n
        <5>1. i + 1 \in 1..n
          BY <1>4, <2>1, <4>2
        <5> QED
          BY <1>5, <5>1
      <4> QED
        BY <4>1, <4>2
    <3> QED
      BY <1>1, <2>1, <3>1, <3>2 DEF Course
  <2>2. CASE i \notin 1..n
    <3>1. PICK k \in 1..m : i = n + k
      <4>1. i - n \in 1..m /\ i = n + (i - n)
        BY <1>4, <2>2
      <4> QED
        BY <4>1
    <3>2. k \in 1..(m + 1) /\ k + 1 \in 1..(m + 1) /\ i + 1 = n + (k + 1)
      BY <1>4, <3>1
    <3>3. h[i] = g[k] /\ h[i + 1] = g[k + 1] /\ all[i] = ev[k]
      BY <1>4, <1>5, <3>1, <3>2
    <3> QED
      BY <1>2, <3>1, <3>3 DEF Course
  <2> QED
    BY <2>1, <2>2
<1>10. Course(v, h, all, Len(all))
  BY <1>9 DEF Course
<1>11. Replayed(v, s, all, u)
  BY <1>7, <1>8, <1>10 DEF Replayed
<1> QED
  BY <1>11 DEF all

\* A word that is accepted.
LEMMA OneReplayed ==
    ASSUME NEW v, NEW s, NEW x, Accepts(s, x)
    PROVE  Replayed(v, s, <<x>>, After(v, s, x))
<1> DEFINE f == [i \in 1..2 |-> IF i = 1 THEN s ELSE After(v, s, x)]
           one == <<x>>
<1>1. f[1] = s /\ f[2] = After(v, s, x) /\ Len(one) = 1 /\ one[1] = x
  OBVIOUS
<1> HIDE DEF f, one
<1>2. Course(v, f, one, Len(one))
  BY <1>1 DEF Course
<1>3. f[Len(one) + 1] = After(v, s, x)
  BY <1>1
<1> QED
  BY <1>1, <1>2, <1>3 DEF Replayed, one

\* The host handles the first word, and goes on from there.
LEMMA FirstReplayed ==
    ASSUME NEW v, NEW s, NEW t, NEW es, IsPipe(es), es # <<>>, Replayed(v, s, es, t)
    PROVE  Accepts(s, Head(es)) /\ Replayed(v, After(v, s, Head(es)), Tail(es), t)
<1>1. PICK f : f[1] = s /\ f[Len(es) + 1] = t /\ Course(v, f, es, Len(es))
  BY DEF Replayed
<1> DEFINE n == Len(Tail(es))
           g == [i \in 1..(n + 1) |-> f[i + 1]]
<1>2. /\ Len(es) \in Nat /\ n = Len(es) - 1 /\ n \in Nat /\ Head(es) = es[1]
      /\ \A i \in 1..n : Tail(es)[i] = es[i + 1]
  <2>1. PICK S : es \in Seq(S)
    BY DEF IsPipe
  <2> QED
    BY <2>1
<1>3. Accepts(s, Head(es)) /\ f[2] = After(v, s, Head(es))
  <2>1. 1 \in 1..Len(es)
    BY <1>2
  <2> QED
    BY <1>1, <1>2, <2>1 DEF Course
<1>4. \A i \in 1..(n + 1) : g[i] = f[i + 1]
  OBVIOUS
<1> HIDE DEF g
<1>5. g[1] = After(v, s, Head(es)) /\ g[n + 1] = t
  BY <1>1, <1>2, <1>3, <1>4
<1>6. ASSUME NEW i \in 1..n
      PROVE  Accepts(g[i], Tail(es)[i]) /\ g[i + 1] = After(v, g[i], Tail(es)[i])
  <2>1. i + 1 \in 1..Len(es) /\ i \in 1..(n + 1) /\ i + 1 \in 1..(n + 1)
    BY <1>2
  <2> QED
    BY <1>1, <1>2, <1>4, <2>1 DEF Course
<1>7. Course(v, g, Tail(es), n)
  BY <1>6 DEF Course
<1> QED
  BY <1>3, <1>5, <1>7 DEF Replayed

\* A refusal that is ahead stays ahead, whatever else is said.
LEMMA BalkedOn ==
    ASSUME NEW v, NEW s, NEW es, NEW ev, IsPipe(es), IsPipe(ev), Balked(v, s, es)
    PROVE  Balked(v, s, es \o ev)
<1>0. PICK f : \E n \in 1..Len(es) : f[1] = s /\ Course(v, f, es, n - 1) /\ Contested(f[n], es[n])
  BY DEF Balked
<1>1. PICK n \in 1..Len(es) : f[1] = s /\ Course(v, f, es, n - 1) /\ Contested(f[n], es[n])
  BY <1>0
<1> DEFINE all == es \o ev
<1>2. Joins(es, ev, all)
  BY Joined
<1>3. Len(es) \in Nat /\ Len(all) >= Len(es) /\ \A i \in 1..Len(es) : all[i] = es[i]
  BY <1>2 DEF Joins
<1> HIDE DEF all
<1>4. n \in 1..Len(all) /\ Contested(f[n], all[n])
  BY <1>1, <1>2, <1>3 DEF Joins
<1>5. Course(v, f, all, n - 1)
  <2>1. ASSUME NEW i \in 1..(n - 1) PROVE i \in 1..Len(es)
    BY <1>3, <2>1
  <2> QED
    BY <1>1, <1>3, <2>1 DEF Course
<1>6. Balked(v, s, all)
  BY <1>1, <1>4, <1>5 DEF Balked
<1> QED
  BY <1>6 DEF all

\* A refusal may be behind what is accepted.
LEMMA BalkedLater ==
    ASSUME NEW v, NEW s, NEW t, NEW es, NEW x, IsPipe(es), Replayed(v, s, es, t), Contested(t, x)
    PROVE  Balked(v, s, es \o <<x>>)
<1>1. PICK f : f[1] = s /\ f[Len(es) + 1] = t /\ Course(v, f, es, Len(es))
  BY DEF Replayed
<1> DEFINE one == <<x>>
           all == es \o one
           n == Len(es) + 1
<1>2. IsPipe(one) /\ Len(one) = 1 /\ one[1] = x
  <2>1. one \in Seq({x})
    OBVIOUS
  <2> QED
    BY <2>1 DEF IsPipe
<1>3. Joins(es, one, all)
  BY <1>2, Joined
<1> HIDE DEF one, all
<1>4. /\ Len(es) \in Nat /\ Len(all) = Len(es) + 1 /\ all[Len(es) + 1] = x
      /\ \A i \in 1..Len(es) : all[i] = es[i]
  BY <1>2, <1>3 DEF Joins
<1>5. n \in 1..Len(all) /\ Contested(f[n], all[n])
  BY <1>1, <1>4
<1>6. n - 1 = Len(es) /\ Course(v, f, all, Len(es))
  BY <1>1, <1>4 DEF Course
<1>7. Balked(v, s, all)
  BY <1>1, <1>5, <1>6 DEF Balked
<1> QED
  BY <1>7 DEF all, one

\* The first word is the refused one, or it is handled.
LEMMA FirstBalked ==
    ASSUME NEW v, NEW s, NEW es, IsPipe(es), Balked(v, s, es)
    PROVE  es # <<>> /\ \/ Contested(s, Head(es))
                        \/ Accepts(s, Head(es)) /\ Balked(v, After(v, s, Head(es)), Tail(es))
<1>0. PICK f : \E n \in 1..Len(es) : f[1] = s /\ Course(v, f, es, n - 1) /\ Contested(f[n], es[n])
  BY DEF Balked
<1>1. PICK n \in 1..Len(es) : f[1] = s /\ Course(v, f, es, n - 1) /\ Contested(f[n], es[n])
  BY <1>0
<1>2. es # <<>>
  BY <1>1
<1> DEFINE m == Len(Tail(es))
           g == [i \in 1..(m + 1) |-> f[i + 1]]
<1>3. /\ Len(es) \in Nat /\ m = Len(es) - 1 /\ m \in Nat /\ Head(es) = es[1]
      /\ \A i \in 1..m : Tail(es)[i] = es[i + 1]
  <2>1. PICK S : es \in Seq(S)
    BY DEF IsPipe
  <2> QED
    BY <1>2, <2>1
<1>4. CASE n = 1
  BY <1>1, <1>2, <1>3, <1>4
<1>5. CASE n # 1
  <2>1. 1 \in 1..(n - 1) /\ n - 1 \in 1..m /\ n - 1 \in Nat
    BY <1>3, <1>5
  <2>2. Accepts(s, Head(es)) /\ f[2] = After(v, s, Head(es))
    BY <1>1, <1>3, <2>1 DEF Course
  <2>3. \A i \in 1..(m + 1) : g[i] = f[i + 1]
    OBVIOUS
  <2> HIDE DEF g
  <2>4. g[1] = After(v, s, Head(es))
    BY <1>3, <2>2, <2>3
  <2>5. Contested(g[n - 1], Tail(es)[n - 1])
    <3>1. n - 1 \in 1..(m + 1) /\ (n - 1) + 1 = n
      BY <1>3, <2>1
    <3>2. g[n - 1] = f[n] /\ Tail(es)[n - 1] = es[n]
      BY <1>3, <2>1, <2>3, <3>1
    <3> QED
      BY <1>1, <3>2
  <2>6. ASSUME NEW i \in 1..((n - 1) - 1)
        PROVE  Accepts(g[i], Tail(es)[i]) /\ g[i + 1] = After(v, g[i], Tail(es)[i])
    <3>1. i + 1 \in 1..(n - 1) /\ i \in 1..m /\ i \in 1..(m + 1) /\ i + 1 \in 1..(m + 1)
      BY <1>3, <2>1
    <3> QED
      BY <1>1, <1>3, <2>3, <3>1 DEF Course
  <2>7. Balked(v, After(v, s, Head(es)), Tail(es))
    BY <2>1, <2>4, <2>5, <2>6 DEF Balked, Course
  <2> QED
    BY <1>2, <2>2, <2>7
<1> QED
  BY <1>4, <1>5

\* A row, and a host's memory, that differ from the one before in a few fields only.
Alters(c, d, F) == Row(d) /\ \A f \in RowFields \ F : d[f] = c[f]
Tunes(h, g, F) == DOMAIN g = HostFields /\ \A f \in HostFields \ F : g[f] = h[f]

\* A request is reserved and started.
LEMMA Prepares ==
    ASSUME NEW v, NEW s, NEW t, NEW phase, NEW call, NEW x, Formal(s),
           x = [type |-> "prepare", phase |-> phase, call |-> call], t = After(v, s, x),
           RequestOk(s.run, s.host, phase, call)
    PROVE  /\ Accepts(s, x) /\ Formal(t)
           /\ Alters(s.run, t.run, {"used", "last", "reserved"})
           /\ t.run.used = [s.run.used EXCEPT ![phase] = @ + 1]
           /\ t.run.last = [phase |-> phase, state |-> "started"]
           /\ Tunes(s.host, t.host, {"pending"}) /\ t.host.pending
<1> DEFINE c == s.run
           q == ReserveRequest(c, phase)
           d == StartRequest(q)
           g == [s.host EXCEPT !.pending = TRUE]
<1>1. Accepts(s, x)
  BY DEF Accepts
<1>2. t.run = d /\ t.host = g
  BY DEF After
<1>3. Row(c) /\ DOMAIN c.last = {"phase", "state"} /\ DOMAIN s.host = HostFields
      /\ c.used \in [RequestPhases -> Nat] /\ c.receipts \in [RequestPhases -> Nat]
  BY DEF Formal
<1>4. /\ DOMAIN q = RowFields /\ \A f \in RowFields \ {"used", "last", "reserved"} : q[f] = c[f]
      /\ q.used = [c.used EXCEPT ![phase] = @ + 1] /\ q.last = [phase |-> phase, state |-> "reserved"]
  BY <1>3 DEF ReserveRequest, Row, RowFields
<1> HIDE DEF q
<1>5. /\ DOMAIN d = RowFields /\ \A f \in RowFields \ {"last"} : d[f] = q[f]
      /\ d.last = [q.last EXCEPT !.state = "started"]
  BY <1>4 DEF StartRequest, RowFields
<1>6. [q.last EXCEPT !.state = "started"] = [phase |-> phase, state |-> "started"]
  BY <1>4
<1> HIDE DEF d
<1>7. phase \in RequestPhases
  BY DEF RequestOk
<1>8. d.used \in [RequestPhases -> Nat] /\ d.used = q.used /\ d.receipts = c.receipts /\ d.check = c.check
  BY <1>3, <1>4, <1>5, <1>7 DEF RowFields
<1>9. Alters(c, d, {"used", "last", "reserved"})
  BY <1>3, <1>4, <1>5, <1>8 DEF Alters, Row
<1>10. Tunes(s.host, g, {"pending"}) /\ g.pending
  BY <1>3 DEF Tunes, HostFields
<1>11. DOMAIN d.last = {"phase", "state"}
  BY <1>5, <1>6
<1>12. Formal(t)
  BY <1>2, <1>3, <1>8, <1>9, <1>10, <1>11 DEF Formal, Alters, Tunes
<1> HIDE DEF g
<1> QED
  BY <1>1, <1>2, <1>4, <1>5, <1>6, <1>8, <1>9, <1>10, <1>12

\* The answer settles the request that is open.
LEMMA AnswerNoted ==
    ASSUME NEW v, NEW s, NEW t, NEW cost, NEW x, NEW phase \in RequestPhases, Formal(s),
           x = [type |-> "finished", cost |-> cost], t = After(v, s, x), OpenIn(s, phase)
    PROVE  /\ Accepts(s, x) /\ Formal(t)
           /\ Alters(s.run, t.run, {"last", "reserved", "spent", "receipts"})
           /\ t.run.receipts = [s.run.receipts EXCEPT ![phase] = @ + 1] /\ t.run.last.state = "succeeded"
           /\ Tunes(s.host, t.host, {"pending"}) /\ ~t.host.pending
<1> DEFINE c == s.run
           d == Settle(c, "succeeded", cost)
           g == [s.host EXCEPT !.pending = FALSE]
<1>1. Accepts(s, x)
  BY DEF Accepts, OpenIn
<1>2. t.run = d /\ t.host = g
  BY DEF After
<1>3. Row(c) /\ DOMAIN c.last = {"phase", "state"} /\ DOMAIN s.host = HostFields
      /\ c.used \in [RequestPhases -> Nat] /\ c.receipts \in [RequestPhases -> Nat]
      /\ c.last.phase = phase
  BY DEF Formal, OpenIn
<1>4. /\ DOMAIN d = RowFields
      /\ \A f \in RowFields \ {"last", "reserved", "spent", "receipts"} : d[f] = c[f]
      /\ d.receipts = [c.receipts EXCEPT ![phase] = @ + 1] /\ d.last = [c.last EXCEPT !.state = "succeeded"]
  BY <1>3 DEF Settle, Row, RowFields
<1> HIDE DEF d
<1>5. DOMAIN d.last = {"phase", "state"} /\ d.last.state = "succeeded"
  BY <1>3, <1>4
<1>6. d.receipts \in [RequestPhases -> Nat] /\ d.used = c.used /\ d.check = c.check
  BY <1>3, <1>4 DEF RowFields
<1>7. Alters(c, d, {"last", "reserved", "spent", "receipts"})
  BY <1>3, <1>4, <1>6 DEF Alters, Row
<1>8. Tunes(s.host, g, {"pending"}) /\ ~g.pending
  BY <1>3 DEF Tunes, HostFields
<1>9. Formal(t)
  BY <1>2, <1>3, <1>5, <1>6, <1>7, <1>8 DEF Formal, Alters, Tunes
<1> HIDE DEF g
<1> QED
  BY <1>1, <1>2, <1>4, <1>5, <1>7, <1>8, <1>9

\* A snapshot keeps its form if its requests are left alone.
LEMMA FormKept ==
    ASSUME NEW s, NEW t, Formal(s), NEW F, NEW G, Alters(s.run, t.run, F), Tunes(s.host, t.host, G),
           F \cap {"used", "receipts", "last"} = {}
    PROVE  Formal(t)
<1>1. t.run.used = s.run.used /\ t.run.receipts = s.run.receipts /\ t.run.last = s.run.last
  BY DEF Alters, RowFields
<1> QED
  BY <1>1 DEF Formal, Alters, Tunes

\* Nothing changes.
LEMMA Unaltered ==
    ASSUME NEW s, Formal(s)
    PROVE  Alters(s.run, s.run, {}) /\ Tunes(s.host, s.host, {})
BY DEF Formal, Alters, Tunes

\* The critic's draft is frozen.
LEMMA Freezes ==
    ASSUME NEW v, NEW s, NEW t, NEW x, Formal(s), x.type = "context", t = After(v, s, x)
    PROVE  /\ Formal(t) /\ Alters(s.run, t.run, {"draft", "draftCalls"})
           /\ t.run.draft = x.src /\ t.run.draftCalls = s.run.cp.calls
           /\ Tunes(s.host, t.host, {"context"}) /\ t.host.context
<1> DEFINE c == s.run
           d == RecordCriticDraft(c, x.src)
           g == [s.host EXCEPT !.context = TRUE]
<1>1. t.run = d /\ t.host = g
  BY DEF After
<1>2. Row(c) /\ DOMAIN s.host = HostFields
  BY DEF Formal
<1>3. Alters(c, d, {"draft", "draftCalls"}) /\ d.draft = x.src /\ d.draftCalls = c.cp.calls
  BY <1>2 DEF RecordCriticDraft, Row, RowFields, Alters
<1>4. Tunes(s.host, g, {"context"}) /\ g.context
  BY <1>2 DEF Tunes, HostFields
<1>5. Formal(t)
  BY <1>1, <1>3, <1>4, FormKept
<1> QED
  BY <1>1, <1>3, <1>4, <1>5

\* The critic's verdict arrives.
LEMMA VerdictNoted ==
    ASSUME NEW v, NEW s, NEW t, NEW x, Formal(s), x.type = "response", t = After(v, s, x)
    PROVE  /\ Formal(t) /\ Alters(s.run, t.run, {"verdict", "criticCurrent"})
           /\ t.run.verdict = v /\ t.run.criticCurrent /\ t.host = s.host /\ Tunes(s.host, t.host, {})
<1> DEFINE c == s.run
           d == RecordCriticReceipt(c, v)
<1>1. t.run = d /\ t.host = s.host
  BY DEF After
<1>2. Row(c) /\ DOMAIN s.host = HostFields
  BY DEF Formal
<1>3. Alters(c, d, {"verdict", "criticCurrent"}) /\ d.verdict = v /\ d.criticCurrent
  BY <1>2 DEF RecordCriticReceipt, Row, RowFields, Alters
<1>4. Tunes(s.host, s.host, {})
  BY Unaltered
<1>5. Formal(t)
  BY <1>1, <1>3, <1>4, FormKept
<1> QED
  BY <1>1, <1>3, <1>4, <1>5

\* A phase starts; that of the cloud only once.
LEMMA Phases ==
    ASSUME NEW v, NEW s, NEW t, NEW x, Formal(s), x.type = "phase", t = After(v, s, x)
    PROVE  /\ Formal(t)
           /\ x.phase = "cloud" =>
                Alters(s.run, t.run, {"phase", "recoveries"}) /\ Tunes(s.host, t.host, {})
                /\ t.run.phase = "cloud_solver" /\ t.run.recoveries = 1
           /\ x.phase # "cloud" =>
                Alters(s.run, t.run, {"phase"}) /\ Tunes(s.host, t.host, {"granted"})
                /\ t.run.phase = StorePhase[x.phase]
                /\ t.host.granted = (s.host.granted \/ (x.phase = "local" /\ RepairOk(s.run, s.host)))
<1> DEFINE c == s.run
           h == s.host
<1>1. Row(c) /\ DOMAIN h = HostFields
  BY DEF Formal
<1>2. CASE x.phase = "cloud"
  <2> DEFINE d == BeginCloudRecovery(c)
  <2>1. t.run = d /\ t.host = h
    BY <1>2 DEF After
  <2>2. Alters(c, d, {"phase", "recoveries"}) /\ d.phase = "cloud_solver" /\ d.recoveries = 1
    BY <1>1 DEF BeginCloudRecovery, Row, RowFields, Alters
  <2>3. Tunes(h, h, {})
    BY Unaltered
  <2>4. Formal(t)
    BY <2>1, <2>2, <2>3, FormKept
  <2> QED
    BY <1>2, <2>1, <2>2, <2>3, <2>4
<1>3. CASE x.phase # "cloud"
  <2> DEFINE d == SetPhase(c, StorePhase[x.phase])
             b == h.granted \/ (x.phase = "local" /\ RepairOk(c, h))
             g == [h EXCEPT !.granted = b]
  <2>1. t.run = d /\ t.host = g
    BY <1>3 DEF After
  <2>2. Alters(c, d, {"phase"}) /\ d.phase = StorePhase[x.phase]
    BY <1>1 DEF SetPhase, Row, RowFields, Alters
  <2> HIDE DEF b
  <2>3. Tunes(h, g, {"granted"}) /\ g.granted = b
    BY <1>1 DEF Tunes, HostFields
  <2>4. Formal(t)
    BY <2>1, <2>2, <2>3, FormKept
  <2> QED
    BY <1>3, <2>1, <2>2, <2>3, <2>4 DEF b
<1> QED
  BY <1>2, <1>3

\* The host notes an action of a critic run, and of no other.
LEMMA Acted ==
    ASSUME NEW c, NEW h, NEW action, DOMAIN h = HostFields
    PROVE  /\ Tunes(h, Acts(c, h, action), {"action"})
           /\ Acts(c, h, action).action = IF CriticPolicy(c) THEN action ELSE h.action
BY DEF Acts, Tunes, HostFields

\* A command starts: the last check is no longer fresh.
LEMMA Commands ==
    ASSUME NEW v, NEW s, NEW t, NEW x, Formal(s), x.type = "command", t = After(v, s, x)
    PROVE  /\ Formal(t) /\ Alters(s.run, t.run, {"check", "criticCurrent"})
           /\ t.run.check.src = s.run.check.src /\ t.run.check.after = s.run.check.after
           /\ t.run.check.passed = s.run.check.passed
           /\ s.run.phase # "local_solver" /\ ~Reviewed(s.run) => t.run = s.run
           /\ t.run.criticCurrent => s.run.criticCurrent
           /\ Tunes(s.host, t.host, {"action"})
           /\ t.host.action = IF CriticPolicy(s.run) THEN "command" ELSE s.host.action
<1> DEFINE c == s.run
           d == IF c.phase = "local_solver" \/ Reviewed(c) THEN InvalidateCheckpointCheck(c) ELSE c
           g == Acts(c, s.host, "command")
<1>1. t.run = d /\ t.host = g
  BY DEF After
<1>2. Row(c) /\ DOMAIN s.host = HostFields
  BY DEF Formal
<1>3. /\ Alters(c, d, {"check", "criticCurrent"}) /\ d.check.src = c.check.src
      /\ d.check.after = c.check.after /\ d.check.passed = c.check.passed
      /\ d.criticCurrent => c.criticCurrent
  BY <1>2 DEF InvalidateCheckpointCheck, Row, RowFields, CheckFields, Alters
<1>4. Tunes(s.host, g, {"action"}) /\ g.action = IF CriticPolicy(c) THEN "command" ELSE s.host.action
  BY <1>2, Acted
<1>5. Formal(t)
  BY <1>1, <1>3, <1>4, FormKept
<1> QED
  BY <1>1, <1>3, <1>4, <1>5

\* A command ends.
LEMMA Tools ==
    ASSUME NEW v, NEW s, NEW t, NEW x, Formal(s), x.type = "tool", t = After(v, s, x)
    PROVE  /\ Formal(t) /\ Alters(s.run, t.run, {"criticCurrent"}) /\ ~t.run.criticCurrent
           /\ Tunes(s.host, t.host, {"action"})
           /\ t.host.action = IF CriticPolicy(s.run) THEN "ran" ELSE s.host.action
<1> DEFINE c == s.run
           d == RecordTool(c)
           g == Acts(c, s.host, "ran")
<1>1. t.run = d /\ t.host = g
  BY DEF After
<1>2. Row(c) /\ DOMAIN s.host = HostFields
  BY DEF Formal
<1>3. Alters(c, d, {"criticCurrent"}) /\ ~d.criticCurrent
  BY <1>2 DEF RecordTool, Row, RowFields, Alters
<1>4. Tunes(s.host, g, {"action"}) /\ g.action = IF CriticPolicy(c) THEN "ran" ELSE s.host.action
  BY <1>2, Acted
<1>5. Formal(t)
  BY <1>1, <1>3, <1>4, FormKept
<1> QED
  BY <1>1, <1>3, <1>4, <1>5

\* The receipt of a visible check.
LEMMA CheckNoted ==
    ASSUME NEW v, NEW s, NEW t, NEW x, Formal(s), x.type = "checked", DOMAIN x.check = CheckFields,
           t = After(v, s, x)
    PROVE  /\ Formal(t) /\ Alters(s.run, t.run, {"check"}) /\ t.run.check = x.check
           /\ Tunes(s.host, t.host, {"action"})
           /\ t.host.action = IF CriticPolicy(s.run) THEN "check" ELSE s.host.action
<1> DEFINE c == s.run
           d == RecordCheckpointCheck(c, x.check)
           g == Acts(c, s.host, "check")
<1>1. t.run = d /\ t.host = g
  BY DEF After
<1>2. Row(c) /\ DOMAIN s.host = HostFields
  BY DEF Formal
<1>3. Alters(c, d, {"check"}) /\ d.check = x.check
  BY <1>2 DEF RecordCheckpointCheck, Row, RowFields, Alters
<1>4. Tunes(s.host, g, {"action"}) /\ g.action = IF CriticPolicy(c) THEN "check" ELSE s.host.action
  BY <1>2, Acted
<1>5. Formal(t)
  BY <1>1, <1>3, <1>4, FormKept
<1> QED
  BY <1>1, <1>3, <1>4, <1>5

\* What a checkpoint makes of the check and of the verdict.
FreshBy(c, cp) ==
    /\ CriticPolicy(c) => cp.chk = cp.src
    /\ c.check.src = cp.src /\ c.check.after = cp.src
    /\ cp.reason # "critic_repair_required"
CurrentBy(c, cp) == c.criticCurrent /\ cp.reason # "critic_repair_required" /\ c.draft = cp.src

\* A checkpoint.
LEMMA Routed ==
    ASSUME NEW v, NEW s, NEW t, NEW x, Formal(s), x.type = "checkpoint", t = After(v, s, x)
    PROVE  /\ Formal(t) /\ Alters(s.run, t.run, {"cp", "check", "criticCurrent"}) /\ t.run.cp = x.cp
           /\ t.run.check.src = s.run.check.src /\ t.run.check.after = s.run.check.after
           /\ t.run.check.passed = s.run.check.passed
           /\ t.run.check.fresh <=> FreshBy(s.run, x.cp)
           /\ t.run.criticCurrent <=> CurrentBy(s.run, x.cp)
           /\ Tunes(s.host, t.host, {"action"}) /\ t.host.action = "none"
<1> DEFINE c == s.run
           d == RecordCheckpoint(c, x.cp)
           g == [s.host EXCEPT !.action = "none"]
<1>1. t.run = d /\ t.host = g
  BY DEF After
<1>2. Row(c) /\ DOMAIN s.host = HostFields
  BY DEF Formal
<1>3. /\ Alters(c, d, {"cp", "check", "criticCurrent"}) /\ d.cp = x.cp
      /\ d.check.src = c.check.src /\ d.check.after = c.check.after /\ d.check.passed = c.check.passed
      /\ d.check.fresh <=> FreshBy(c, x.cp)
      /\ d.criticCurrent <=> CurrentBy(c, x.cp)
  BY <1>2 DEF RecordCheckpoint, Row, RowFields, CheckFields, Alters, FreshBy, CurrentBy
<1>4. Tunes(s.host, g, {"action"}) /\ g.action = "none"
  BY <1>2 DEF Tunes, HostFields
<1> HIDE DEF d, g
<1>5. Formal(t)
  BY <1>1, <1>3, <1>4, FormKept
<1> QED
  BY <1>1, <1>3, <1>4, <1>5

\* The plan and the handoff.
LEMMA Plans ==
    ASSUME NEW v, NEW s, NEW t, NEW x, Formal(s), x.type \in {"plan", "handoff"}, t = After(v, s, x)
    PROVE  /\ Formal(t) /\ t.host = s.host /\ Tunes(s.host, t.host, {})
           /\ x.type = "plan" => Alters(s.run, t.run, {"plan"}) /\ t.run.plan
           /\ x.type = "handoff" => Alters(s.run, t.run, {"handoff"}) /\ t.run.handoff = x.src
<1> DEFINE c == s.run
<1>1. t.run = (IF x.type = "plan" THEN [c EXCEPT !.plan = TRUE] ELSE [c EXCEPT !.handoff = x.src])
      /\ t.host = s.host
  BY DEF After
<1>2. Row(c) /\ DOMAIN s.host = HostFields
  BY DEF Formal
<1>3. Tunes(s.host, s.host, {})
  BY Unaltered
<1>4. CASE x.type = "plan"
  <2>1. Alters(c, t.run, {"plan"}) /\ t.run.plan
    BY <1>1, <1>2, <1>4 DEF Row, RowFields, Alters
  <2>2. Formal(t)
    BY <1>1, <1>3, <2>1, FormKept
  <2> QED
    BY <1>1, <1>3, <1>4, <2>1, <2>2
<1>5. CASE x.type = "handoff"
  <2>1. Alters(c, t.run, {"handoff"}) /\ t.run.handoff = x.src
    BY <1>1, <1>2, <1>5 DEF Row, RowFields, Alters
  <2>2. Formal(t)
    BY <1>1, <1>3, <2>1, FormKept
  <2> QED
    BY <1>1, <1>3, <1>5, <2>1, <2>2
<1> QED
  BY <1>4, <1>5

\* A patch: the submission, or recovered work.
LEMMA Patches ==
    ASSUME NEW v, NEW s, NEW t, NEW x, Formal(s), x.type = "patch", x.kind \in {"submitted", "recovered"},
           t = After(v, s, x)
    PROVE  /\ Formal(t) /\ Alters(s.run, t.run, {"patch", "checks"})
           /\ t.host = s.host /\ Tunes(s.host, t.host, {})
           /\ x.kind = "submitted" =>
                t.run.patch = [kind |-> x.kind, src |-> x.src] /\ t.run.checks = s.run.checks
           /\ x.kind = "recovered" =>
                /\ s.run.patch.kind = "submitted" => t.run = s.run
                /\ s.run.patch.kind # "submitted" =>
                     t.run.patch = [kind |-> x.kind, src |-> x.src] /\ t.run.checks.status = "not_run"
<1> DEFINE c == s.run
           d == RecordPatch(c, x.kind, x.src)
<1>1. t.run = d /\ t.host = s.host
  BY DEF After
<1>2. Row(c) /\ DOMAIN s.host = HostFields
  BY DEF Formal
<1>3. Tunes(s.host, s.host, {})
  BY Unaltered
<1>4. NewRun(c.policy).checks.status = "not_run"
  BY DEF NewRun
<1>5. /\ Alters(c, d, {"patch", "checks"})
      /\ x.kind = "submitted" => d.patch = [kind |-> x.kind, src |-> x.src] /\ d.checks = c.checks
      /\ x.kind = "recovered" =>
           /\ c.patch.kind = "submitted" => d = c
           /\ c.patch.kind # "submitted" =>
                d.patch = [kind |-> x.kind, src |-> x.src] /\ d.checks = NewRun(c.policy).checks
  <2>1. CASE x.kind = "submitted"
    BY <1>2, <2>1 DEF RecordPatch, Row, RowFields, Alters
  <2>2. CASE x.kind = "recovered" /\ c.patch.kind = "submitted"
    BY <1>2, <2>2 DEF RecordPatch, Row, RowFields, Alters
  <2>3. CASE x.kind = "recovered" /\ c.patch.kind # "submitted"
    BY <1>2, <2>3 DEF RecordPatch, Row, RowFields, Alters
  <2> QED
    BY <2>1, <2>2, <2>3
<1> HIDE DEF d
<1>6. Formal(t)
  BY <1>1, <1>3, <1>5, FormKept
<1> QED
  BY <1>1, <1>3, <1>4, <1>5, <1>6

\* The final check starts.
LEMMA CheckingNoted ==
    ASSUME NEW v, NEW s, NEW t, NEW x, Formal(s), x.type = "verifying", t = After(v, s, x)
    PROVE  /\ Formal(t) /\ Alters(s.run, t.run, {"phase"}) /\ t.run.phase = "checking"
           /\ t.host = s.host /\ Tunes(s.host, t.host, {})
<1> DEFINE c == s.run
           d == SetPhase(c, "checking")
<1>1. t.run = d /\ t.host = s.host
  BY DEF After
<1>2. Row(c)
  BY DEF Formal
<1>3. Tunes(s.host, s.host, {})
  BY Unaltered
<1>4. Alters(c, d, {"phase"}) /\ d.phase = "checking"
  BY <1>2 DEF SetPhase, Row, RowFields, Alters
<1>5. Formal(t)
  BY <1>1, <1>3, <1>4, FormKept
<1> QED
  BY <1>1, <1>3, <1>4, <1>5

\* Its result.
LEMMA ChecksNoted ==
    ASSUME NEW v, NEW s, NEW t, NEW x, Formal(s), x.type = "verified", t = After(v, s, x)
    PROVE  /\ Formal(t) /\ Alters(s.run, t.run, {"checks", "criticCurrent"})
           /\ Tunes(s.host, t.host, {"final"})
<1> DEFINE c == s.run
           d == RecordChecks(c, ChecksOf(x))
           g == [s.host EXCEPT !.final = CriticPolicy(c)]
<1>1. t.run = d /\ t.host = g
  BY DEF After
<1>2. Row(c) /\ DOMAIN s.host = HostFields
  BY DEF Formal
<1>3. Alters(c, d, {"checks", "criticCurrent"})
  BY <1>2 DEF RecordChecks, Row, RowFields, Alters
<1>4. Tunes(s.host, g, {"final"})
  BY <1>2 DEF Tunes, HostFields
<1>5. Formal(t)
  BY <1>1, <1>3, <1>4, FormKept
<1> QED
  BY <1>1, <1>3, <1>4, <1>5

-----------------------------------------------------------------------------
(* The router's record, field by field. *)

Turns(r, q, F) == DOMAIN q = RouterFields /\ \A f \in RouterFields \ F : q[f] = r[f]
Marks == {"seq", "decision", "reason"}
Close == {"seq", "decision", "reason", "pending", "allowed", "state"}
Halt == {"seq", "decision", "reason", "pending", "allowed", "state", "chk"}

\* A decision is numbered.
LEMMA RecordTurns ==
    ASSUME NEW r, DOMAIN r = RouterFields, NEW decision, NEW reason, NEW q, q = Record(r, decision, reason)
    PROVE  Turns(r, q, Marks) /\ q.seq = r.seq + 1 /\ q.decision = decision /\ q.reason = reason
BY DEF Record, Turns, Marks, RouterFields

\* A checkpoint and a stop close the request that is pending.
LEMMA CheckpointTurns ==
    ASSUME NEW r, DOMAIN r = RouterFields, NEW reason, NEW q, q = Checkpoint(r, reason)
    PROVE  /\ Turns(r, q, Close) /\ q.seq = r.seq + 1
           /\ q.decision = "checkpoint" /\ q.reason = reason
           /\ q.state = "checkpoint" /\ ~q.pending /\ q.allowed = {}
BY DEF Checkpoint, Settled, Record, Turns, Close, RouterFields

\* A stop ends the router's decisions.
LEMMA StopTurns ==
    ASSUME NEW r, DOMAIN r = RouterFields, NEW reason, NEW q, q = Stop(r, reason)
    PROVE  /\ Turns(r, q, Halt) /\ q.seq = r.seq + 1
           /\ q.decision = "stop" /\ q.reason = reason
           /\ q.state = "stopped" /\ ~q.pending /\ q.allowed = {}
           /\ q.chk = IF r.policy = "local_critic_repair" THEN NoSource ELSE r.chk
BY DEF Stop, Settled, Record, Turns, Halt, RouterFields

\* What the router makes of an observation that is in.
LEMMA ObservationTurns ==
    ASSUME NEW r, DOMAIN r = RouterFields, NEW reason, NEW q, q = ContinueOrCheckpoint(r, reason)
    PROVE  \/ \E why \in {"visible_checks_failed", "repeated_observation", "local_call_limit",
                          "finish_reserve_exhausted"} :
                /\ q = Checkpoint(r, why)
                /\ why = "visible_checks_failed" => r.fails >= FailedCheckLimit
                /\ why = "repeated_observation" => r.dups >= DuplicateLimit
                /\ why = "local_call_limit" => Remaining(r) = 0
                /\ why = "finish_reserve_exhausted" => ReserveSpent(r)
           \/ \E why \in {"finish_required", reason} :
                /\ q = Record(r, "continue", why)
                /\ why # reason => ~Checked(r)
                /\ ~(r.fails >= FailedCheckLimit) /\ ~(r.dups >= DuplicateLimit)
BY DEF ContinueOrCheckpoint

\* What is left to a router depends on its calls and its half.
LEMMA SameLeft ==
    ASSUME NEW r, NEW q, q.policy = r.policy, q.half = r.half, q.calls = r.calls, q.start = r.start
    PROVE  Remaining(q) = Remaining(r) /\ PhaseCalls(q) = PhaseCalls(r) /\ CallLimit(q) = CallLimit(r)
           /\ CriticDraft(q) = CriticDraft(r)
BY DEF Remaining, PhaseCalls, CallLimit, CriticDraft

\* The counters of a router that counted nothing.
LEMMA SameCount ==
    ASSUME NEW r, NEW q, NEW c, NEW d, Steered(r, c), DOMAIN q = RouterFields, d.policy = c.policy,
           q.policy = r.policy, q.half = r.half, q.calls = r.calls, q.start = r.start,
           q.seq = r.seq + 1, q.src \in Nat, q.fails \in Nat, q.dups \in Nat,
           q.criticUsed \in BOOLEAN, r.criticUsed => q.criticUsed,
           q.policy = "local_critic_repair" => ~q.handoffUsed /\ q.state \notin {"planner", "cloud"}
    PROVE  Steered(q, d)
<1>1. Remaining(q) = Remaining(r)
  BY SameLeft
<1>2. /\ r.policy = c.policy /\ r.seq \in Nat \ {0}
      /\ r.calls \in Nat /\ r.start \in Nat /\ r.start <= r.calls /\ Remaining(r) >= 0
      /\ r.half \in {"draft", "repair"} /\ (r.half = "draft" => r.start = 0)
      /\ r.half = "repair" => r.policy = "local_critic_repair" /\ r.criticUsed /\ r.start <= DraftLimit
  BY DEF Steered, Counted
<1>3. q.seq \in Nat \ {0}
  BY <1>2
<1>4. Counted(q)
  BY <1>1, <1>2 DEF Counted
<1> QED
  BY <1>2, <1>3, <1>4 DEF Steered

\* A checkpoint, a stop and a plain decision leave the counters as they are.
LEMMA ClosedCount ==
    ASSUME NEW r, NEW q, NEW c, NEW d, Steered(r, c), d.policy = c.policy,
           Turns(r, q, Halt), q.seq = r.seq + 1,
           q.state \notin {"planner", "cloud"}
    PROVE  Steered(q, d)
<1>1. /\ DOMAIN q = RouterFields /\ q.policy = r.policy /\ q.half = r.half /\ q.calls = r.calls
      /\ q.start = r.start /\ q.src = r.src /\ q.fails = r.fails /\ q.dups = r.dups
      /\ q.criticUsed = r.criticUsed /\ q.handoffUsed = r.handoffUsed
  BY DEF Turns, Halt, RouterFields
<1>2. r.src \in Nat /\ r.fails \in Nat /\ r.dups \in Nat /\ r.criticUsed \in BOOLEAN
      /\ (r.policy = "local_critic_repair" => ~r.handoffUsed)
  BY DEF Steered, Counted
<1> QED
  BY <1>1, <1>2, SameCount

\* The limits of a run, by its policy and its half.
LEMMA Limits ==
    ASSUME NEW r, NEW c, Steered(r, c)
    PROVE  /\ r.calls \in Nat /\ r.start \in Nat /\ PhaseCalls(r) \in Nat /\ PhaseCalls(r) <= CallLimit(r)
           /\ CallLimit(r) \in Nat /\ CallLimit(r) <= LocalCapOf(c)
           /\ ~CriticPolicy(c) => r.start = 0 /\ CallLimit(r) = LocalLimit /\ LocalCapOf(c) = LocalLimit
           /\ CriticPolicy(c) => r.start + CallLimit(r) <= LocalCapOf(c)
<1>1. /\ r.policy = c.policy /\ r.calls \in Nat /\ r.start \in Nat /\ r.start <= r.calls /\ Remaining(r) >= 0
      /\ r.half \in {"draft", "repair"} /\ (r.half = "draft" => r.start = 0)
      /\ r.half = "repair" => r.policy = "local_critic_repair" /\ r.start <= DraftLimit
  BY DEF Steered, Counted
<1>2. CallLimit(r) \in Nat /\ Remaining(r) = CallLimit(r) - (r.calls - r.start)
  BY RouterAssumption DEF CallLimit, Remaining, PhaseCalls
<1>3. PhaseCalls(r) \in Nat /\ PhaseCalls(r) <= CallLimit(r)
  BY <1>1, <1>2 DEF PhaseCalls
<1>4. CASE ~CriticPolicy(c)
  <2>1. r.half = "draft" /\ CallLimit(r) = LocalLimit /\ LocalCapOf(c) = LocalLimit
    BY <1>1, <1>4 DEF CriticPolicy, CallLimit, LocalCapOf
  <2> QED
    BY <1>1, <1>2, <1>3, <1>4, <2>1
<1>5. CASE CriticPolicy(c)
  <2>1. LocalCapOf(c) = DraftLimit + RepairLimit
    BY <1>5 DEF LocalCapOf
  <2>2. r.half = "draft" => CallLimit(r) = DraftLimit
    BY <1>1, <1>5 DEF CriticPolicy, CallLimit
  <2>3. r.half = "repair" => CallLimit(r) = RepairLimit
    BY <1>1, <1>5 DEF CriticPolicy, CallLimit
  <2>4. r.start + CallLimit(r) <= LocalCapOf(c) /\ CallLimit(r) <= LocalCapOf(c)
    BY <1>1, <2>1, <2>2, <2>3, RouterAssumption
  <2> QED
    BY <1>1, <1>2, <1>3, <1>5, <2>4
<1> QED
  BY <1>4, <1>5

\* The limits of a critic run are those of its two halves.
LEMMA CountedBudget ==
    ASSUME NEW r, NEW c, Steered(r, c), CriticPolicy(c), r.decision # "escalate"
    PROVE  CriticBudget(r)
<1>1. /\ r.policy = "local_critic_repair" /\ (r.half = "draft" => r.start = 0)
      /\ (r.half = "repair" => r.criticUsed) /\ ~r.handoffUsed /\ r.state \notin {"planner", "cloud"}
  BY DEF Steered, Counted, CriticPolicy
<1>2. PhaseCalls(r) \in 0..CallLimit(r)
  BY Limits
<1>3. r.calls <= DraftLimit + RepairLimit
  <2>1. LocalCapOf(c) = DraftLimit + RepairLimit
    BY DEF LocalCapOf
  <2>2. r.calls - r.start <= CallLimit(r)
    BY Limits DEF PhaseCalls
  <2> QED
    BY <2>1, <2>2, Limits, RouterAssumption
<1> QED
  BY <1>1, <1>2, <1>3 DEF CriticBudget

\* And those of every other run its local calls.
LEMMA CountedCalls ==
    ASSUME NEW r, NEW c, Steered(r, c)
    PROVE  r.calls \in Nat /\ r.calls <= LocalCapOf(c) /\ (~CriticPolicy(c) => r.calls \in 0..LocalLimit)
<1>1. r.calls - r.start <= CallLimit(r) /\ r.calls \in Nat /\ r.start \in Nat
  BY Limits DEF PhaseCalls
<1>2. CASE ~CriticPolicy(c)
  <2>1. r.start = 0 /\ CallLimit(r) = LocalLimit /\ LocalCapOf(c) = LocalLimit
    BY <1>2, Limits
  <2> QED
    BY <1>1, <1>2, <2>1, RouterAssumption
<1>3. CASE CriticPolicy(c)
  <2>1. r.start + CallLimit(r) <= LocalCapOf(c) /\ CallLimit(r) \in Nat /\ LocalCapOf(c) = DraftLimit + RepairLimit
    BY <1>3, Limits DEF LocalCapOf
  <2> QED
    BY <1>1, <1>3, <2>1, RouterAssumption
<1> QED
  BY <1>2, <1>3

-----------------------------------------------------------------------------
(* What the host does with the worker's next events. *)

\* Handling ev leads the host from t to where the worker q is.
Arrives(v, t, ev, q) == \E u : Replayed(v, t, ev, u) /\ u.run.policy = t.run.policy /\ Meets(u, v, q)
Follows(v, t, ev, q) == Arrives(v, t, ev, q) \/ Balked(v, t, ev)

\* A worker that says nothing.
LEMMA NoneFollows ==
    ASSUME NEW v, NEW t, NEW q, Meets(t, v, q)
    PROVE  Arrives(v, t, <<>>, q)
BY NoneReplayed DEF Arrives

\* One event.
LEMMA OneFollows ==
    ASSUME NEW v, NEW t, NEW q, NEW x, NEW u, Accepts(t, x), u = After(v, t, x),
           u.run.policy = t.run.policy, Meets(u, v, q)
    PROVE  Arrives(v, t, <<x>>, q)
BY OneReplayed DEF Arrives

\* One event, and then others.
LEMMA ThenFollows ==
    ASSUME NEW v, NEW t, NEW q, NEW x, NEW u, NEW ev, IsPipe(ev), Accepts(t, x), u = After(v, t, x),
           u.run.policy = t.run.policy, Arrives(v, u, ev, q)
    PROVE  Arrives(v, t, <<x>> \o ev, q)
<1>1. PICK z : Replayed(v, u, ev, z) /\ z.run.policy = u.run.policy /\ Meets(z, v, q)
  BY DEF Arrives
<1>2. Replayed(v, t, <<x>>, u)
  BY OneReplayed
<1>3. IsPipe(<<x>>)
  BY Single
<1>4. Replayed(v, t, <<x>> \o ev, z)
  BY <1>1, <1>2, <1>3, ReplayedOn
<1> QED
  BY <1>1, <1>4 DEF Arrives

\* Two sequences of the same words.
LEMMA SameWords ==
    ASSUME NEW S, NEW s \in Seq(S), NEW t \in Seq(S), Len(s) = Len(t), \A i \in 1..Len(s) : s[i] = t[i]
    PROVE  s = t
OBVIOUS

\* Events one after the other.
LEMMA Pairs ==
    ASSUME NEW x, NEW y
    PROVE  IsPipe(<<x, y>>) /\ <<x>> \o <<y>> = <<x, y>>
<1>1. <<x, y>> \in Seq({x, y})
  OBVIOUS
<1>2. IsPipe(<<x, y>>)
  BY <1>1 DEF IsPipe
<1>3. <<x>> \o <<y>> = <<x, y>>
  <2> DEFINE u == <<x>> \o <<y>>
             q == <<x, y>>
  <2>1. <<x>> \in Seq({x, y}) /\ <<y>> \in Seq({x, y})
    OBVIOUS
  <2>2. Len(u) = 2 /\ u[1] = x /\ u[2] = y /\ u \in Seq({x, y})
    BY <2>1
  <2>3. Len(q) = 2 /\ q[1] = x /\ q[2] = y /\ q \in Seq({x, y})
    OBVIOUS
  <2> HIDE DEF u, q
  <2>4. \A i \in 1..Len(u) : u[i] = q[i]
    BY <2>2, <2>3
  <2>5. u = q
    BY <2>2, <2>3, <2>4, SameWords
  <2> QED
    BY <2>5 DEF u, q
<1> QED
  BY <1>2, <1>3

\* Three events as a sequence.
LEMMA Triples ==
    ASSUME NEW x, NEW y, NEW z
    PROVE  /\ IsPipe(<<x, y, z>>)
           /\ <<x>> \o <<y, z>> = <<x, y, z>> /\ <<x, y>> \o <<z>> = <<x, y, z>>
<1>1. <<x, y, z>> \in Seq({x, y, z})
  OBVIOUS
<1>2. IsPipe(<<x, y, z>>)
  BY <1>1 DEF IsPipe
<1>4. <<x>> \o <<y, z>> = <<x, y, z>>
  <2> DEFINE u == <<x>> \o <<y, z>>
             q == <<x, y, z>>
  <2>1. <<x>> \in Seq({x, y, z}) /\ <<y, z>> \in Seq({x, y, z})
    OBVIOUS
  <2>2. Len(u) = 3 /\ u[1] = x /\ u[2] = y /\ u[3] = z /\ u \in Seq({x, y, z})
    BY <2>1
  <2>3. Len(q) = 3 /\ q[1] = x /\ q[2] = y /\ q[3] = z /\ q \in Seq({x, y, z})
    OBVIOUS
  <2> HIDE DEF u, q
  <2>4. \A i \in 1..Len(u) : u[i] = q[i]
    BY <2>2, <2>3
  <2>5. u = q
    BY <2>2, <2>3, <2>4, SameWords
  <2> QED
    BY <2>5 DEF u, q
<1>5. <<x, y>> \o <<z>> = <<x, y, z>>
  <2> DEFINE u == <<x, y>> \o <<z>>
             q == <<x, y, z>>
  <2>1. <<x, y>> \in Seq({x, y, z}) /\ <<z>> \in Seq({x, y, z})
    OBVIOUS
  <2>2. Len(u) = 3 /\ u[1] = x /\ u[2] = y /\ u[3] = z /\ u \in Seq({x, y, z})
    BY <2>1
  <2>3. Len(q) = 3 /\ q[1] = x /\ q[2] = y /\ q[3] = z /\ q \in Seq({x, y, z})
    OBVIOUS
  <2> HIDE DEF u, q
  <2>4. \A i \in 1..Len(u) : u[i] = q[i]
    BY <2>2, <2>3
  <2>5. u = q
    BY <2>2, <2>3, <2>4, SameWords
  <2> QED
    BY <2>5 DEF u, q
<1> QED
  BY <1>2, <1>4, <1>5

\* Nothing said first.
LEMMA Unopened ==
    ASSUME NEW s, IsPipe(s)
    PROVE  <<>> \o s = s
<1>1. PICK S : s \in Seq(S)
  BY DEF IsPipe
<1> QED
  BY <1>1

\* Two events.
LEMMA TwoFollow ==
    ASSUME NEW v, NEW t, NEW q, NEW x, NEW y, NEW u, NEW z, Accepts(t, x), u = After(v, t, x),
           u.run.policy = t.run.policy, Accepts(u, y), z = After(v, u, y), z.run.policy = u.run.policy,
           Meets(z, v, q)
    PROVE  Arrives(v, t, <<x, y>>, q)
<1>1. Arrives(v, u, <<y>>, q)
  BY OneFollows
<1>2. Arrives(v, t, <<x>> \o <<y>>, q)
  BY <1>1, ThenFollows, Single
<1> QED
  BY <1>2, Pairs

\* Three.
LEMMA ThreeFollow ==
    ASSUME NEW v, NEW t, NEW q, NEW x, NEW y, NEW z, NEW u, Accepts(t, x), u = After(v, t, x),
           u.run.policy = t.run.policy, Arrives(v, u, <<y, z>>, q)
    PROVE  Arrives(v, t, <<x, y, z>>, q)
<1>1. Arrives(v, t, <<x>> \o <<y, z>>, q)
  BY ThenFollows, Pairs
<1> QED
  BY <1>1, Triples

\* The second of two events is refused.
LEMMA TwoBalk ==
    ASSUME NEW v, NEW t, NEW x, NEW y, NEW u, Accepts(t, x), u = After(v, t, x), Contested(u, y)
    PROVE  Balked(v, t, <<x, y>>)
<1>1. Replayed(v, t, <<x>>, u)
  BY OneReplayed
<1>2. Balked(v, t, <<x>> \o <<y>>)
  BY <1>1, BalkedLater, Single
<1> QED
  BY <1>2, Pairs

-----------------------------------------------------------------------------
(* The checkpoints the store records. *)

\* The actions on offer are those the host computes.
Allows(cp) ==
    AllowedActions(cp) =
        IF cp.state # "local" THEN {}
        ELSE Offered(Remaining(cp) + (IF cp.reason = "local_request_started" THEN 1 ELSE 0), Checked(cp))

\* A router that waits for no answer offers what its calls leave it.
LEMMA IdleAllows ==
    ASSUME NEW r, r.state # "local" \/ (~r.pending /\ r.reason # "local_request_started"), Remaining(r) \in Int
    PROVE  Allows(r)
<1>1. CASE r.state # "local"
  BY <1>1 DEF Allows, AllowedActions
<1>2. CASE r.state = "local"
  <2>1. AllowedActions(r) = Offered(Remaining(r), Checked(r))
    BY <1>2 DEF AllowedActions
  <2>2. Remaining(r) + (IF r.reason = "local_request_started" THEN 1 ELSE 0) = Remaining(r)
    BY <1>2
  <2> QED
    BY <1>2, <2>1, <2>2 DEF Allows
<1> QED
  BY <1>1, <1>2

\* The calls that remain are a number.
LEMMA RemainingInt ==
    ASSUME NEW r, NEW c, Steered(r, c)
    PROVE  Remaining(r) \in Nat
BY Limits DEF Remaining, Steered, Counted

\* The budget of a checkpoint.
LEMMA BudgetFits ==
    ASSUME NEW c, NEW cp, Steered(cp, c), Allows(cp)
    PROVE  BudgetOk(c, cp)
BY CountedCalls DEF BudgetOk, Allows

\* A checkpoint of a run without a critic.
LEMMA OtherRoutes ==
    ASSUME NEW c, NEW h, NEW cp, Running(c), ~CriticPolicy(c), Steered(cp, c), cp.seq = c.cp.seq + 1,
           cp.decision # "stop" => ~Unresolved(c), Allows(cp),
           AdmitsReview(c, cp), AdmitsSubmission(c, cp), AdmitsEscalation(c, cp)
    PROVE  RouteOk(c, h, cp)
<1>1. BudgetOk(c, cp)
  BY BudgetFits
<1>2. Ordered(c, cp)
  BY DEF Ordered, Steered
<1> QED
  BY <1>1, <1>2 DEF RouteOk, CanRecordCheckpoint, AdmitsCriticStep

\* One of a run with a critic.
LEMMA CriticRoutes ==
    ASSUME NEW c, NEW h, NEW cp, Running(c), CriticPolicy(c), Steered(cp, c), c.cp.seq # 0,
           cp.seq = c.cp.seq + 1, cp.decision # "stop" => ~Unresolved(c), Allows(cp),
           cp.decision # "escalate", cp.reason \notin {"review_required", "review_time_reserve"},
           OrderOk(c, h, cp), CriticCounters(c, cp), CriticSteps(c, cp), AdmitsSubmission(c, cp),
           cp.decision = "submit" =>
             \/ cp.reason = "critic_acceptable" /\ c.verdict = "acceptable"
             \/ cp.half = "repair" /\ c.verdict = "repair_required"
    PROVE  RouteOk(c, h, cp)
<1>1. BudgetOk(c, cp)
  BY BudgetFits
<1>2. Ordered(c, cp)
  BY DEF Ordered, Steered
<1>3. CriticBudget(cp)
  BY CountedBudget
<1>4. AdmitsCriticStep(c, cp)
  BY <1>3 DEF AdmitsCriticStep
<1>5. AdmitsReview(c, cp) /\ AdmitsEscalation(c, cp)
  BY DEF AdmitsReview, AdmitsEscalation, CriticPolicy, Reviewed
<1> QED
  BY <1>1, <1>2, <1>4, <1>5 DEF RouteOk, CanRecordCheckpoint

\* The critic's own steps.
CriticReasons ==
    {"critic_required", "critic_request_started", "critic_acceptable", "critic_repair_required",
     "critic_insufficient_context"}
Moves == {"command_observed", "finish_required", "visible_check_tree_changed", "visible_checks_failed",
          "execution_failure", "cancelled"}

\* The critic's rules for a step that is neither one of its own nor a request.
LEMMA PlainCritic ==
    ASSUME NEW c, NEW cp, NEW r, r = c.cp, cp.reason \notin CriticReasons \cup {"local_request_started"},
           cp.state # "critic", r.state \in {"critic", "submitted", "stopped"} => cp.decision = "stop",
           cp.calls = r.calls, r.calls \in Nat, cp.half = r.half, cp.start = r.start,
           cp.criticUsed = r.criticUsed, r.criticUsed \in BOOLEAN,
           \/ cp.chk \in {NoSource, r.chk}
           \/ /\ cp.reason = "visible_check_passed" /\ c.check.passed /\ c.check.fresh
              /\ c.check.src = cp.src /\ c.check.after = cp.src,
           cp.src = r.src \/ cp.reason \in Moves
    PROVE  CriticCounters(c, cp) /\ CriticSteps(c, cp)
<1>1. CriticCounters(c, cp)
  BY DEF CriticCounters, CriticReasons, Moves
<1>2. CriticSteps(c, cp)
  BY DEF CriticSteps, CriticReasons
<1> QED
  BY <1>1, <1>2

\* A stop of the router is in order whatever came before it.
LEMMA StopRoutes ==
    ASSUME NEW s, NEW r, NEW cp, NEW reason, Formal(s), Running(s.run), s.run.cp = r, Steered(r, s.run),
           cp = Stop(r, reason),
           reason \notin CriticReasons
             \cup {"local_request_started", "finish_required", "review_required", "review_time_reserve"}
    PROVE  RouteOk(s.run, s.host, cp) /\ Steered(cp, s.run)
<1> DEFINE c == s.run
           h == s.host
<1>1. DOMAIN r = RouterFields /\ r.seq \in Nat \ {0} /\ r.calls \in Nat /\ r.criticUsed \in BOOLEAN
      /\ (CriticPolicy(c) => r.policy = "local_critic_repair")
  BY DEF Steered, Counted, CriticPolicy
<1>2. /\ Turns(r, cp, Halt) /\ cp.seq = r.seq + 1
      /\ cp.decision = "stop" /\ cp.reason = reason
      /\ cp.state = "stopped" /\ ~cp.pending /\ cp.allowed = {}
      /\ cp.chk = IF r.policy = "local_critic_repair" THEN NoSource ELSE r.chk
  <2>1. DOMAIN r = RouterFields /\ cp = Stop(r, reason)
    BY <1>1
  <2> QED
    BY ONLY <2>1, StopTurns
<1> HIDE DEF c, h
<1>3. Steered(cp, c)
  BY <1>2, ClosedCount DEF c
<1>4. Allows(cp)
  BY <1>2, <1>3, IdleAllows, RemainingInt
<1>5. cp.calls = r.calls /\ cp.half = r.half /\ cp.start = r.start /\ cp.criticUsed = r.criticUsed /\ cp.src = r.src
  BY <1>2 DEF Turns, Halt, RouterFields
<1>6. CASE ~CriticPolicy(c)
  <2>1. AdmitsReview(c, cp) /\ AdmitsSubmission(c, cp) /\ AdmitsEscalation(c, cp)
    BY <1>2 DEF AdmitsReview, AdmitsSubmission, AdmitsEscalation
  <2> QED
    BY <1>2, <1>3, <1>4, <1>6, <2>1, OtherRoutes DEF c, h
<1>7. CASE CriticPolicy(c)
  <2>1. CriticCounters(c, cp) /\ CriticSteps(c, cp)
    BY <1>1, <1>2, <1>5, <1>7, PlainCritic DEF c
  <2>2. OrderOk(c, h, cp)
    BY <1>2 DEF OrderOk
  <2>3. AdmitsSubmission(c, cp)
    BY <1>2 DEF AdmitsSubmission
  <2> QED
    BY <1>1, <1>2, <1>3, <1>4, <1>7, <2>1, <2>2, <2>3, CriticRoutes DEF c, h
<1> QED
  BY <1>3, <1>6, <1>7 DEF c, h

-----------------------------------------------------------------------------
(* What the worker says, the host can follow: one lemma for every action. *)

\* The snapshot t is where the host will have heard the worker out.
Heeds(v, t) ==
    /\ Shaped /\ run.policy \in Policies /\ t.run.policy = run.policy /\ Meets(t, v, w)
    /\ ~w.cancelled /\ ~w.orphan
\* What the worker adds leads the host to where the worker goes.
Goes(v, t) == \E ev : IsPipe(ev) /\ pipe' = pipe \o ev /\ Follows(v, t, ev, w')

\* A step without a word.
LEMMA SilentGoes ==
    ASSUME NEW v, NEW t, Shaped, pipe' = pipe, Meets(t, v, w')
    PROVE  Goes(v, t)
BY Unsaid, NoneFollows DEF Adds, Goes, Follows

\* The words of a step.
LEMMA WordGoes ==
    ASSUME NEW v, NEW t, NEW x, pipe' = pipe \o <<x>>, Arrives(v, t, <<x>>, w')
    PROVE  Goes(v, t)
BY Single DEF Goes, Follows

\* Two events said in a row.
LEMMA PairGoes ==
    ASSUME NEW v, NEW t, NEW x, NEW y, pipe' = pipe \o <<x, y>>, Arrives(v, t, <<x, y>>, w')
    PROVE  Goes(v, t)
BY Pairs DEF Goes, Follows

\* A worker that gives up is where the host is, whatever it was about to do.
LEMMA MeetsFailing ==
    ASSUME NEW s, NEW v, NEW q, q.at \in {"failing", "salvage", "ending"}, Grounded(s, q)
    PROVE  Meets(s, v, q)
BY DEF Meets, Busy

\* Nothing holds of a worker that is gone.
LEMMA MeetsGone ==
    ASSUME NEW s, NEW v, NEW q, q.at = "gone"
    PROVE  Meets(s, v, q)
BY DEF Meets, Busy

\* The host's view of a worker rests on its router alone.
LEMMA BaseKept ==
    ASSUME NEW s, NEW q, NEW p, Grounded(s, q), p.r = q.r
    PROVE  Grounded(s, p)
BY DEF Grounded

\* The work raises.
LEMMA RaiseGoes ==
    ASSUME NEW v, NEW t, Heeds(v, t), WorkerRaises
    PROVE  Goes(v, t)
<1>1. w.at # "gone" /\ w'.at = "failing" /\ w'.r = w.r /\ pipe' = pipe
  BY DEF WorkerRaises, WorkerAlive, Heeds, Shaped, WorkerFields
<1>2. Grounded(t, w')
  BY <1>1, BaseKept DEF Heeds, Meets
<1>3. Meets(t, v, w')
  BY <1>1, <1>2, MeetsFailing
<1> QED
  BY <1>1, <1>3, SilentGoes DEF Heeds

\* What is known of a worker that waits for an answer.
LEMMA Awaited ==
    ASSUME NEW s, NEW v, NEW q, Meets(s, v, q), q.at \in {"ask", "admission", "wire", "answer"}
    PROVE  /\ Grounded(s, q) /\ q.r # NoRouter /\ Steered(q.r, s.run) /\ Calls(s.run) = q.calls /\ ~q.unsettled
           /\ Requesting(s, q)
BY DEF Meets, Busy, Grounded

\* The request goes on the wire.
LEMMA SendGoes ==
    ASSUME NEW v, NEW t, Heeds(v, t), Send
    PROVE  Goes(v, t)
<1>1. /\ w.at = "admission" /\ w'.at = "wire" /\ pipe' = pipe /\ w'.r = w.r /\ w'.live = w.live
      /\ w'.phase = w.phase /\ w'.calls = w.calls /\ w'.unsettled = w.unsettled
  BY DEF Send, Working, Heeds, Shaped, WorkerFields
<1>2. /\ Grounded(t, w) /\ w.r # NoRouter /\ Calls(t.run) = w.calls /\ ~w.unsettled /\ Requesting(t, w)
  BY <1>1, Awaited DEF Heeds
<1>3. Requesting(t, w')
  BY <1>1, <1>2 DEF Requesting, Planning, Consulting, Reviewing, Clouding, Solving, Waiting, Drafted, Frozen
<1>4. Meets(t, v, w')
  BY <1>1, <1>2, <1>3, BaseKept DEF Meets, Busy
<1> QED
  BY <1>1, <1>4, SilentGoes DEF Heeds

\* The cloud submits.
LEMMA CloudSubmitGoes ==
    ASSUME NEW v, NEW t, Heeds(v, t), CloudSubmit
    PROVE  Goes(v, t)
<1>1. /\ w.at = "answer" /\ w.phase = "cloud" /\ w'.at = "finish" /\ pipe' = pipe /\ w'.r = w.r /\ w'.live = w.live
  BY DEF CloudSubmit, Working, Heeds, Shaped, WorkerFields
<1>2. Grounded(t, w) /\ Requesting(t, w)
  BY <1>1, Awaited DEF Heeds
<1>3. Clouding(t, w) /\ t.run.receipts["cloud"] >= 1 /\ Even(t)
  BY <1>1, <1>2 DEF Requesting
<1>4. Clouding(t, w') /\ ~CriticPolicy(t.run) /\ t.run.patch.kind # "submitted"
  BY <1>1, <1>3 DEF Clouding, CriticPolicy
<1>5. Finishing(t, w')
  BY <1>3, <1>4 DEF Finishing
<1>6. Meets(t, v, w')
  BY <1>1, <1>2, <1>5, BaseKept DEF Meets, Busy
<1> QED
  BY <1>1, <1>6, SilentGoes DEF Heeds

\* A request whose answer is not known.
LEMMA UnsettledGoes ==
    ASSUME NEW v, NEW t, Heeds(v, t), AdmittedTooLate \/ Unanswered
    PROVE  Goes(v, t)
<1> DEFINE x == [type |-> "unsettled"]
<1>1. w.at \in {"admission", "wire"} /\ w'.at = "failing" /\ w'.r = w.r /\ pipe' = pipe \o <<x>>
  BY DEF AdmittedTooLate, Unanswered, Unsettle, Emit, Working, Heeds, Shaped, WorkerFields
<1>2. Grounded(t, w) /\ Requesting(t, w)
  BY <1>1, Awaited DEF Heeds
<1>3. t.host.pending
  BY <1>1, <1>2 DEF Requesting, OpenIn
<1>4. Accepts(t, x) /\ After(v, t, x) = t
  BY <1>3 DEF Accepts, After
<1> HIDE DEF x
<1>5. Meets(t, v, w')
  BY <1>1, <1>2, BaseKept, MeetsFailing
<1>6. Arrives(v, t, <<x>>, w')
  BY <1>4, <1>5, OneFollows
<1> QED
  BY <1>1, <1>6, WordGoes

\* One more request of a phase.
LEMMA CallsMore ==
    ASSUME NEW c, NEW d, NEW phase \in RequestPhases, c.used \in [RequestPhases -> Nat],
           d.used = [c.used EXCEPT ![phase] = @ + 1]
    PROVE  /\ Calls(c) \in Nat /\ Calls(d) = Calls(c) + 1
           /\ \A p \in RequestPhases : d.used[p] = IF p = phase THEN c.used[p] + 1 ELSE c.used[p]
BY DEF Calls, RequestPhases

\* The caps of a snapshot are those of the run.
LEMMA SameCaps ==
    ASSUME NEW t, t.run.policy = run.policy
    PROVE  /\ CallCap = CapOf(t.run) /\ LocalCap = LocalCapOf(t.run)
           /\ (CriticPolicy(run) <=> CriticPolicy(t.run)) /\ (Reviewed(run) <=> Reviewed(t.run))
BY DEF CallCap, CapOf, LocalCap, LocalCapOf, CriticPolicy, Reviewed

\* A request the worker prepares is one the host admits.
LEMMA AskAccepted ==
    ASSUME NEW v, NEW t, Heeds(v, t), Ask
    PROVE  RequestOk(t.run, t.host, w.phase, w.r.calls)
<1> DEFINE c == t.run
           h == t.host
           phase == w.phase
           call == w.r.calls
<1>1. w.at = "ask"
  BY DEF Ask, Working
<1>2. Grounded(t, w) /\ Steered(w.r, c) /\ Calls(c) = w.calls /\ Requesting(t, w)
  BY <1>1, Awaited DEF Heeds
<1>3. Even(t) /\ phase \in RequestPhases
  BY <1>1, <1>2 DEF Requesting
<1>4. /\ c.used \in [RequestPhases -> Nat] /\ Running(c) /\ c.cp = w.r /\ ~Unresolved(c)
  BY <1>2, <1>3 DEF Grounded, Formal, Even
<1>5. Calls(c) \in Nat /\ CapOf(c) \in Nat /\ CapOf(c) - w.calls = ModelCallsLeft
  <2>1. Calls(c) \in Nat
    BY <1>4 DEF Calls, RequestPhases
  <2>2. CapOf(c) \in Nat
    BY RouterAssumption, PatchRunsAssumption DEF CapOf
  <2> QED
    BY <2>1, <2>2, SameCaps DEF Heeds, ModelCallsLeft
<1>6. /\ Calls(c) < CapOf(c)
      /\ phase = "local" /\ Reviewed(c) => Calls(c) < CapOf(c) - 1
  <2>1. ModelCallsLeft > (IF phase = "local" /\ (Reviewed(run) \/ CriticDraft(w.r)) THEN 1 ELSE 0)
    BY DEF Ask
  <2>2. Reviewed(c) => Reviewed(run)
    BY SameCaps DEF Heeds
  <2> QED
    BY <1>2, <1>5, <2>1, <2>2
<1>7. CriticPolicy(c) => Calls(c) < DraftLimit + RepairLimit + 1
  BY <1>6 DEF CapOf
<1>8. CASE phase = "planner"
  <2>1. Planning(t, w)
    BY <1>2, <1>8 DEF Requesting
  <2>2. Planned(c.policy) /\ c.phase = "cloud_planner" /\ c.used["planner"] = 0 /\ h.action = "none"
    BY <1>1, <2>1 DEF Planning
  <2>3. w.r.state = "planner"
    BY <2>1, <2>2 DEF Planning, NewRouter, Record, NoRouter
  <2>4. ~CriticPolicy(c)
    BY <2>2 DEF Planned, CriticPolicy
  <2> QED
    BY <1>3, <1>4, <1>6, <1>8, <2>2, <2>3, <2>4 DEF RequestOk, CanReserve
<1>9. CASE phase = "local"
  <2>1. Consulting(t, w)
    BY <1>2, <1>9 DEF Requesting
  <2>2. Solving(t, w) /\ Waiting(w.r) /\ h.action = "none" /\ c.used["local"] = w.r.calls - 1
    BY <1>1, <2>1 DEF Consulting
  <2>3. /\ c.phase = "local_solver" /\ w.r.state = "local" /\ w.r.reason = "local_request_started"
    BY <2>2 DEF Solving, Waiting
  <2>4. call \in Nat /\ c.used["local"] < LocalCapOf(c) /\ call = c.used["local"] + 1
    <3>1. w.r.calls \in Nat /\ w.r.calls <= LocalCapOf(c)
      BY <1>2, CountedCalls
    <3>2. LocalCapOf(c) \in Nat
      BY RouterAssumption DEF LocalCapOf
    <3> QED
      BY <2>2, <3>1, <3>2
  <2>5. w.r.half = "repair" /\ PhaseCalls(w.r) = 1 =>
          /\ h.granted /\ c.verdict = "repair_required" /\ ~c.criticCurrent /\ call = c.draftCalls + 1
    <3>1. Halved(w.r, c, h)
      BY <2>2 DEF Solving
    <3>2. w.r.start \in Nat /\ w.r.calls \in Nat
      BY <1>2 DEF Steered, Counted
    <3> QED
      BY <3>1, <3>2 DEF Halved, PhaseCalls
  <2>6. CriticPolicy(c) => call <= DraftLimit + RepairLimit
    BY <1>2, CountedCalls DEF LocalCapOf
  <2>7. CanReserve(c, phase, call)
    BY <1>4, <1>7, <1>9, <2>3, <2>4, <2>6 DEF CanReserve
  <2> QED
    BY <1>3, <1>4, <1>6, <1>9, <2>2, <2>3, <2>4, <2>5, <2>7 DEF RequestOk
<1>10. CASE phase = "critic"
  <2>1. Reviewing(t, w) /\ c.verdict = "none"
    BY <1>2, <1>10 DEF Requesting
  <2>2. /\ Drafted(t, w) /\ Frozen(t, w) /\ c.phase = "cloud_critic" /\ w.r.criticUsed
        /\ w.r.reason = "critic_request_started" /\ c.used["critic"] = 0
    BY <1>1, <2>1 DEF Reviewing
  <2>3. CriticPolicy(c) /\ w.r.state = "critic" /\ h.action = "none" /\ h.context /\ c.draft = w.r.src
    BY <2>2 DEF Drafted, Frozen
  <2>4. c.draft # NoSource
    BY <1>2, <2>3 DEF Steered, Counted, NoSource
  <2>5. CanReserve(c, phase, call)
    BY <1>4, <1>7, <1>10, <2>1, <2>2, <2>4 DEF CanReserve
  <2> QED
    BY <1>3, <1>4, <1>6, <1>10, <2>2, <2>3, <2>5 DEF RequestOk
<1>11. CASE phase = "cloud"
  <2>1. Clouding(t, w)
    BY <1>2, <1>11 DEF Requesting
  <2>2. ~CriticPolicy(c)
    BY <2>1 DEF Clouding, CriticPolicy
  <2> QED
    BY <1>3, <1>4, <1>6, <1>11, <2>1, <2>2 DEF RequestOk, Clouding, CanReserve
<1> QED
  BY <1>3, <1>8, <1>9, <1>10, <1>11 DEF RequestPhases

\* It is reserved, and the worker waits for its admission.
LEMMA AskGoes ==
    ASSUME NEW v, NEW t, Heeds(v, t), Ask
    PROVE  Goes(v, t)
<1> DEFINE x == [type |-> "prepare", phase |-> w.phase, call |-> w.r.calls]
           u == After(v, t, x)
<1>1. /\ w.at = "ask" /\ w'.at = "admission" /\ w'.r = w.r /\ w'.live = w.live /\ w'.phase = w.phase
      /\ w'.calls = w.calls + 1 /\ w'.unsettled = w.unsettled /\ pipe' = pipe \o <<x>>
  BY DEF Ask, Emit, Working, Heeds, Shaped, WorkerFields
<1>2. Grounded(t, w) /\ w.r # NoRouter /\ Steered(w.r, t.run) /\ Calls(t.run) = w.calls /\ Requesting(t, w)
      /\ ~w.unsettled
  BY <1>1, Awaited DEF Heeds
<1>3. /\ Formal(t) /\ t.run.used \in [RequestPhases -> Nat] /\ Even(t) /\ w.phase \in RequestPhases
      /\ t.run.used = t.run.receipts
  BY <1>1, <1>2 DEF Grounded, Formal, Requesting, Even
<1>4. PICK z : z = u
  OBVIOUS
<1>5. RequestOk(t.run, t.host, w.phase, w.r.calls)
  BY AskAccepted
<1>6. x = [type |-> "prepare", phase |-> w.phase, call |-> w.r.calls]
  OBVIOUS
<1> HIDE DEF x
<1>7. z = After(v, t, x)
  BY <1>4
<1> HIDE DEF u
<1>8. /\ Accepts(t, x) /\ Formal(z)
      /\ Alters(t.run, z.run, {"used", "last", "reserved"})
      /\ z.run.used = [t.run.used EXCEPT ![w.phase] = @ + 1]
      /\ z.run.last = [phase |-> w.phase, state |-> "started"]
      /\ Tunes(t.host, z.host, {"pending"}) /\ z.host.pending
  BY <1>3, <1>5, <1>6, <1>7, Prepares
<1>9. /\ z.run.policy = t.run.policy /\ z.run.status = t.run.status /\ z.run.phase = t.run.phase
      /\ z.run.cp = t.run.cp /\ z.run.check = t.run.check /\ z.run.plan = t.run.plan
      /\ z.run.handoff = t.run.handoff /\ z.run.recoveries = t.run.recoveries /\ z.run.draft = t.run.draft
      /\ z.run.draftCalls = t.run.draftCalls /\ z.run.verdict = t.run.verdict
      /\ z.run.criticCurrent = t.run.criticCurrent /\ z.run.patch = t.run.patch /\ z.run.checks = t.run.checks
      /\ z.run.receipts = t.run.receipts
  BY <1>8 DEF Alters, RowFields
<1>10. /\ z.host.action = t.host.action /\ z.host.granted = t.host.granted
       /\ z.host.context = t.host.context /\ z.host.final = t.host.final
  BY <1>8 DEF Tunes, HostFields
<1>11. /\ Calls(z.run) = w'.calls
       /\ \A p \in RequestPhases :
            z.run.used[p] = IF p = w.phase THEN t.run.used[p] + 1 ELSE t.run.used[p]
  <2>1. /\ Calls(z.run) = Calls(t.run) + 1
        /\ \A p \in RequestPhases :
             z.run.used[p] = IF p = w.phase THEN t.run.used[p] + 1 ELSE t.run.used[p]
    BY <1>3, <1>8, CallsMore
  <2> QED
    BY <1>1, <1>2, <2>1
<1>12. Grounded(z, w')
  <2>1. Steered(w'.r, z.run)
    BY <1>1, <1>2, <1>9 DEF Steered
  <2>2. Running(z.run) /\ z.run.cp = w'.r
    BY <1>1, <1>2, <1>9 DEF Grounded, Running
  <2> QED
    BY <1>8, <2>1, <2>2 DEF Grounded
<1>13. OpenIn(z, w'.phase)
  BY <1>1, <1>3, <1>8, <1>9 DEF OpenIn
<1>14. Requesting(z, w')
  <2>1. w'.phase = "planner" => Planning(z, w')
    BY <1>1, <1>2, <1>3, <1>9, <1>10, <1>11 DEF Requesting, Planning, Empty, Unmoved, Unjudged, RequestPhases
  <2>2. w'.phase = "local" => Consulting(z, w')
    <3>1. SUFFICES ASSUME w.phase = "local" PROVE Consulting(z, w')
      BY <1>1
    <3>2. Consulting(t, w) /\ w.r.calls \in Nat
      BY <1>2, <3>1 DEF Requesting, Steered, Counted
    <3>3. Solving(z, w')
      <4>1. Halved(w'.r, z.run, z.host)
        BY <1>1, <1>9, <1>10, <1>11, <3>1, <3>2 DEF Consulting, Solving, Halved, Unjudged, RequestPhases
      <4> QED
        BY <1>1, <1>9, <1>10, <3>2, <4>1 DEF Consulting, Solving, Empty, Unmoved
    <3>4. Waiting(w'.r) /\ Valid(w'.r, z.run) /\ w'.live = w'.r.src /\ z.host.action = "none"
      BY <1>1, <1>9, <1>10, <3>2 DEF Consulting, Valid, Sound
    <3>5. z.run.used["local"] = w'.r.calls
      BY <1>1, <1>3, <1>11, <3>1, <3>2 DEF Consulting, RequestPhases
    <3> QED
      BY <1>1, <3>3, <3>4, <3>5 DEF Consulting
  <2>3. w'.phase = "critic" => Reviewing(z, w') /\ z.run.verdict = "none"
    <3>1. SUFFICES ASSUME w.phase = "critic" PROVE Reviewing(z, w') /\ z.run.verdict = "none"
      BY <1>1
    <3>2. Reviewing(t, w) /\ t.run.verdict = "none"
      BY <1>2, <3>1 DEF Requesting
    <3>3. z.run.used["critic"] = 1 /\ z.run.used["local"] = t.run.used["local"]
      BY <1>1, <1>3, <1>11, <3>1, <3>2 DEF Reviewing, RequestPhases
    <3>4. Drafted(z, w') /\ Frozen(z, w')
      BY <1>1, <1>9, <1>10, <3>2, <3>3 DEF Reviewing, Drafted, Frozen, CriticPolicy, Sound, Empty, Unmoved
    <3> QED
      BY <1>1, <1>9, <3>2, <3>3, <3>4 DEF Reviewing
  <2>4. w'.phase = "cloud" => Clouding(z, w')
    BY <1>1, <1>2, <1>9 DEF Requesting, Clouding, HasHandoff
  <2> QED
    BY <1>1, <1>3, <1>13, <2>1, <2>2, <2>3, <2>4 DEF Requesting
<1>15. Meets(z, v, w')
  BY <1>1, <1>2, <1>11, <1>12, <1>14 DEF Meets, Busy
<1>16. Arrives(v, t, <<x>>, w')
  BY <1>7, <1>8, <1>9, <1>15, OneFollows
<1> QED
  BY <1>1, <1>16, WordGoes DEF x

\* The answer settles the request.
LEMMA AnswerGoes ==
    ASSUME NEW v, NEW t, Heeds(v, t), Answered
    PROVE  Goes(v, t)
<1>1. /\ w.at = "wire" /\ w'.at = "answer" /\ w'.r = w.r /\ w'.live = w.live /\ w'.phase = w.phase
      /\ w'.calls = w.calls /\ w'.unsettled = w.unsettled
      /\ \E cost : pipe' = pipe \o <<[type |-> "finished", cost |-> cost]>>
  BY DEF Answered, Emit, Heeds, Shaped, WorkerFields
<1>2. PICK cost : pipe' = pipe \o <<[type |-> "finished", cost |-> cost]>>
  BY <1>1
<1> DEFINE x == [type |-> "finished", cost |-> cost]
<1>3. Grounded(t, w) /\ w.r # NoRouter /\ Steered(w.r, t.run) /\ Calls(t.run) = w.calls /\ Requesting(t, w)
      /\ ~w.unsettled
  BY <1>1, Awaited DEF Heeds
<1>4. Formal(t) /\ w.phase \in RequestPhases /\ OpenIn(t, w.phase)
  BY <1>1, <1>3 DEF Grounded, Requesting
<1>5. PICK z : z = After(v, t, x)
  OBVIOUS
<1>6. /\ Accepts(t, x) /\ Formal(z)
      /\ Alters(t.run, z.run, {"last", "reserved", "spent", "receipts"})
      /\ z.run.receipts = [t.run.receipts EXCEPT ![w.phase] = @ + 1] /\ z.run.last.state = "succeeded"
      /\ Tunes(t.host, z.host, {"pending"}) /\ ~z.host.pending
  BY <1>4, <1>5, AnswerNoted
<1>7. pipe' = pipe \o <<x>>
  BY <1>2
<1> HIDE DEF x
<1>8. /\ z.run.policy = t.run.policy /\ z.run.status = t.run.status /\ z.run.phase = t.run.phase
      /\ z.run.cp = t.run.cp /\ z.run.check = t.run.check /\ z.run.plan = t.run.plan
      /\ z.run.handoff = t.run.handoff /\ z.run.recoveries = t.run.recoveries /\ z.run.draft = t.run.draft
      /\ z.run.draftCalls = t.run.draftCalls /\ z.run.verdict = t.run.verdict
      /\ z.run.criticCurrent = t.run.criticCurrent /\ z.run.patch = t.run.patch /\ z.run.checks = t.run.checks
      /\ z.run.used = t.run.used
  BY <1>6 DEF Alters, RowFields
<1>9. /\ z.host.action = t.host.action /\ z.host.granted = t.host.granted
      /\ z.host.context = t.host.context /\ z.host.final = t.host.final
  BY <1>6 DEF Tunes, HostFields
<1>10. Even(z)
  <2>1. z.run.used = z.run.receipts
    BY <1>4, <1>6, <1>8 DEF OpenIn
  <2> QED
    BY <1>6, <2>1 DEF Even, Unresolved
<1>11. Grounded(z, w')
  <2>1. Steered(w'.r, z.run)
    BY <1>1, <1>3, <1>8 DEF Steered
  <2>2. Running(z.run) /\ z.run.cp = w'.r
    BY <1>1, <1>3, <1>8 DEF Grounded, Running
  <2> QED
    BY <1>6, <2>1, <2>2 DEF Grounded
<1>12. Requesting(z, w')
  <2>1. w'.phase = "planner" => Planning(z, w')
    BY <1>1, <1>3, <1>8, <1>9 DEF Requesting, Planning, Empty, Unmoved, Unjudged
  <2>2. w'.phase = "local" => Consulting(z, w')
    BY <1>1, <1>3, <1>8, <1>9 DEF Requesting, Consulting, Solving, Waiting, Halved, Unjudged, Empty, Unmoved, Valid, Sound
  <2>3. w'.phase = "critic" => Reviewing(z, w') /\ z.run.verdict = "none"
    BY <1>1, <1>3, <1>8, <1>9 DEF Requesting, Reviewing, Drafted, Frozen, CriticPolicy, Sound, Empty, Unmoved
  <2>4. w'.phase = "cloud" => Clouding(z, w')
    BY <1>1, <1>3, <1>8 DEF Requesting, Clouding, HasHandoff
  <2>5. w'.phase = "cloud" => z.run.receipts["cloud"] >= 1
    <3>1. t.run.receipts \in [RequestPhases -> Nat]
      BY <1>4 DEF Formal
    <3> QED
      BY <1>1, <1>6, <3>1 DEF RequestPhases
  <2> QED
    BY <1>1, <1>4, <1>10, <2>1, <2>2, <2>3, <2>4, <2>5 DEF Requesting
<1>13. Meets(z, v, w')
  <2>1. Calls(z.run) = w'.calls
    BY <1>1, <1>3, <1>8 DEF Calls
  <2> QED
    BY <1>1, <1>3, <1>11, <1>12, <2>1 DEF Meets, Busy
<1>14. Arrives(v, t, <<x>>, w')
  BY <1>5, <1>6, <1>8, <1>13, OneFollows
<1> QED
  BY <1>7, <1>14, WordGoes

\* What is known when a local answer is in.
LEMMA Consulted ==
    ASSUME NEW v, NEW t, Heeds(v, t), w.at = "answer", w.phase = "local"
    PROVE  /\ Grounded(t, w) /\ Steered(w.r, t.run) /\ w.r # NoRouter /\ Calls(t.run) = w.calls /\ ~w.unsettled
           /\ Consulting(t, w) /\ Solving(t, w) /\ Waiting(w.r) /\ Valid(w.r, t.run) /\ w.live = w.r.src
           /\ Even(t) /\ t.host.action = "none" /\ t.run.used["local"] = w.r.calls
           /\ Running(t.run) /\ t.run.cp = w.r /\ t.run.phase = "local_solver"
           /\ SettledIn(t.run, t.host, w.r.calls) /\ AllowedActions(w.r) = w.r.allowed
<1>1. Grounded(t, w) /\ Steered(w.r, t.run) /\ w.r # NoRouter /\ Calls(t.run) = w.calls /\ ~w.unsettled
      /\ Requesting(t, w)
  BY Awaited DEF Heeds
<1>2. Consulting(t, w) /\ Even(t)
  BY <1>1 DEF Requesting
<1>3. Solving(t, w) /\ Waiting(w.r) /\ Valid(w.r, t.run) /\ w.live = w.r.src /\ t.host.action = "none"
      /\ t.run.used["local"] = w.r.calls
  BY <1>2 DEF Consulting
<1>4. Running(t.run) /\ t.run.cp = w.r /\ t.run.phase = "local_solver"
  BY <1>1, <1>3 DEF Grounded, Solving
<1>5. SettledIn(t.run, t.host, w.r.calls)
  BY <1>2, <1>3 DEF Even, SettledIn, LocalSettled
<1>6. AllowedActions(w.r) = w.r.allowed
  BY <1>3 DEF Waiting, AllowedActions
<1> QED
  BY <1>1, <1>2, <1>3, <1>4, <1>5, <1>6

\* The answer was not among those on offer.
LEMMA DeniedGoes ==
    ASSUME NEW v, NEW t, Heeds(v, t), ActionDenied
    PROVE  Goes(v, t)
<1>1. w.at = "answer" /\ w.phase = "local" /\ w'.at = "failing" /\ w'.r = w.r
      /\ \E action : action \notin AllowedActions(w.r)
                     /\ pipe' = pipe \o <<[type |-> "denied", call |-> w.r.calls, action |-> action]>>
  BY DEF ActionDenied, Emit, Working, Heeds, Shaped, WorkerFields
<1>2. PICK action : action \notin AllowedActions(w.r)
                    /\ pipe' = pipe \o <<[type |-> "denied", call |-> w.r.calls, action |-> action]>>
  BY <1>1
<1> DEFINE x == [type |-> "denied", call |-> w.r.calls, action |-> action]
<1>3. /\ Grounded(t, w) /\ t.run.cp = w.r /\ t.run.phase = "local_solver" /\ Waiting(w.r)
      /\ SettledIn(t.run, t.host, w.r.calls)
  BY <1>1, Consulted
<1>4. Accepts(t, x) /\ After(v, t, x) = t
  BY <1>2, <1>3 DEF Accepts, After, Waiting
<1>5. pipe' = pipe \o <<x>>
  BY <1>2
<1> HIDE DEF x
<1>6. Meets(t, v, w')
  BY <1>1, <1>3, BaseKept, MeetsFailing
<1>7. Arrives(v, t, <<x>>, w')
  BY <1>4, <1>6, OneFollows
<1> QED
  BY <1>5, <1>7, WordGoes

\* A command is announced before it runs.
LEMMA CommandGoes ==
    ASSUME NEW v, NEW t, Heeds(v, t), RunCommand
    PROVE  Goes(v, t)
<1> DEFINE x == [type |-> "command"]
<1>1. /\ w.at = "answer" /\ w.phase = "local" /\ w'.at = "command" /\ w'.r = w.r /\ w'.live = w.live
      /\ w'.phase = w.phase /\ w'.calls = w.calls /\ w'.unsettled = w.unsettled /\ pipe' = pipe \o <<x>>
      /\ "run_command" \in AllowedActions(w.r)
  BY DEF RunCommand, LocalAnswer, Emit, Working, Heeds, Shaped, WorkerFields
<1>2. /\ Grounded(t, w) /\ Steered(w.r, t.run) /\ w.r # NoRouter /\ Calls(t.run) = w.calls /\ ~w.unsettled
      /\ Solving(t, w) /\ Waiting(w.r) /\ Valid(w.r, t.run) /\ Even(t)
      /\ t.host.action = "none" /\ t.run.used["local"] = w.r.calls
      /\ t.run.cp = w.r /\ t.run.phase = "local_solver"
      /\ SettledIn(t.run, t.host, w.r.calls) /\ AllowedActions(w.r) = w.r.allowed
  BY <1>1, Consulted
<1>3. Accepts(t, x)
  BY <1>1, <1>2 DEF Accepts, Waiting
<1>4. PICK z : z = After(v, t, x)
  OBVIOUS
<1>5. Formal(t) /\ x.type = "command"
  BY <1>2 DEF Grounded
<1> HIDE DEF x
<1>6. /\ Formal(z) /\ Alters(t.run, z.run, {"check", "criticCurrent"})
      /\ z.run.check.src = t.run.check.src /\ z.run.check.after = t.run.check.after
      /\ z.run.check.passed = t.run.check.passed
      /\ z.run.criticCurrent => t.run.criticCurrent
      /\ Tunes(t.host, z.host, {"action"})
      /\ z.host.action = IF CriticPolicy(t.run) THEN "command" ELSE t.host.action
  BY <1>4, <1>5, Commands
<1>7. /\ z.run.policy = t.run.policy /\ z.run.status = t.run.status /\ z.run.phase = t.run.phase
      /\ z.run.cp = t.run.cp /\ z.run.plan = t.run.plan
      /\ z.run.handoff = t.run.handoff /\ z.run.recoveries = t.run.recoveries /\ z.run.draft = t.run.draft
      /\ z.run.draftCalls = t.run.draftCalls /\ z.run.verdict = t.run.verdict
      /\ z.run.patch = t.run.patch /\ z.run.checks = t.run.checks
      /\ z.run.used = t.run.used /\ z.run.receipts = t.run.receipts /\ z.run.last = t.run.last
  BY <1>6 DEF Alters, RowFields
<1>8. /\ z.host.pending = t.host.pending /\ z.host.granted = t.host.granted
      /\ z.host.context = t.host.context /\ z.host.final = t.host.final
  BY <1>6 DEF Tunes, HostFields
<1>9. Grounded(z, w') /\ Even(z)
  <2>1. Steered(w'.r, z.run)
    BY <1>1, <1>2, <1>7 DEF Steered
  <2>2. Running(z.run) /\ z.run.cp = w'.r
    BY <1>1, <1>2, <1>7 DEF Grounded, Running
  <2>3. Even(z)
    BY <1>2, <1>7, <1>8 DEF Even, Unresolved
  <2> QED
    BY <1>6, <2>1, <2>2, <2>3 DEF Grounded
<1>10. Solving(z, w')
  BY <1>1, <1>2, <1>6, <1>7, <1>8 DEF Solving, Halved, Unjudged, Empty, Unmoved
<1>11. Commanding(z, w')
  <2>1. Sound(w'.r, z.run)
    BY <1>1, <1>2, <1>6 DEF Valid, Sound
  <2>2. CriticPolicy(z.run) => z.host.action = "command"
    BY <1>6, <1>7 DEF CriticPolicy
  <2> QED
    BY <1>1, <1>2, <1>7, <1>9, <1>10, <2>1, <2>2 DEF Commanding
<1>12. Meets(z, v, w')
  <2>1. Calls(z.run) = w'.calls
    BY <1>1, <1>2, <1>7 DEF Calls
  <2> QED
    BY <1>1, <1>2, <1>9, <1>11, <2>1 DEF Meets, Busy
<1>13. Arrives(v, t, <<x>>, w')
  BY <1>3, <1>4, <1>7, <1>12, OneFollows
<1> QED
  BY <1>1, <1>13, WordGoes DEF x

\* The command ends.
LEMMA RanGoes ==
    ASSUME NEW v, NEW t, Heeds(v, t), CommandRan
    PROVE  Goes(v, t)
<1> DEFINE x == [type |-> "tool"]
<1>1. /\ w.at = "command" /\ w'.at \in {"ran", "failing"} /\ w'.r = w.r /\ w'.live \in Nat
      /\ w'.phase = w.phase /\ w'.calls = w.calls /\ w'.unsettled = w.unsettled /\ pipe' = pipe \o <<x>>
  <2>1. Sources \subseteq Nat
    BY PatchRunsAssumption DEF Sources
  <2> QED
    BY <2>1 DEF CommandRan, Emit, Working, Heeds, Shaped, WorkerFields
<1>2. /\ Grounded(t, w) /\ w.r # NoRouter /\ Calls(t.run) = w.calls /\ ~w.unsettled /\ Commanding(t, w)
  BY <1>1 DEF Heeds, Meets, Busy
<1>3. /\ Steered(w.r, t.run) /\ Formal(t) /\ t.run.cp = w.r /\ Solving(t, w) /\ Waiting(w.r)
      /\ "run_command" \in w.r.allowed /\ Sound(w.r, t.run) /\ Even(t) /\ t.run.used["local"] = w.r.calls
      /\ t.run.phase = "local_solver"
      /\ CriticPolicy(t.run) => t.host.action = "command"
  BY <1>1, <1>2 DEF Grounded, Commanding, Solving
<1>4. Accepts(t, x) /\ x.type = "tool"
  BY <1>3 DEF Accepts
<1>5. PICK z : z = After(v, t, x)
  OBVIOUS
<1> HIDE DEF x
<1>6. /\ Formal(z) /\ Alters(t.run, z.run, {"criticCurrent"}) /\ ~z.run.criticCurrent
      /\ Tunes(t.host, z.host, {"action"})
      /\ z.host.action = IF CriticPolicy(t.run) THEN "ran" ELSE t.host.action
  BY <1>3, <1>4, <1>5, Tools
<1>7. /\ z.run.policy = t.run.policy /\ z.run.status = t.run.status /\ z.run.phase = t.run.phase
      /\ z.run.cp = t.run.cp /\ z.run.check = t.run.check /\ z.run.plan = t.run.plan
      /\ z.run.handoff = t.run.handoff /\ z.run.recoveries = t.run.recoveries /\ z.run.draft = t.run.draft
      /\ z.run.draftCalls = t.run.draftCalls /\ z.run.verdict = t.run.verdict
      /\ z.run.patch = t.run.patch /\ z.run.checks = t.run.checks
      /\ z.run.used = t.run.used /\ z.run.receipts = t.run.receipts /\ z.run.last = t.run.last
  BY <1>6 DEF Alters, RowFields
<1>8. /\ z.host.pending = t.host.pending /\ z.host.granted = t.host.granted
      /\ z.host.context = t.host.context /\ z.host.final = t.host.final
  BY <1>6 DEF Tunes, HostFields
<1>9. Grounded(z, w') /\ Even(z)
  <2>1. Steered(w'.r, z.run)
    BY <1>1, <1>3, <1>7 DEF Steered
  <2>2. Running(z.run) /\ z.run.cp = w'.r
    BY <1>1, <1>2, <1>7 DEF Grounded, Running
  <2>3. Even(z)
    BY <1>3, <1>7, <1>8 DEF Even, Unresolved
  <2> QED
    BY <1>6, <2>1, <2>2, <2>3 DEF Grounded
<1>10. Solving(z, w')
  BY <1>1, <1>3, <1>6, <1>7, <1>8 DEF Solving, Halved, Unjudged, Empty, Unmoved
<1>11. w'.at = "ran" => Commanding(z, w')
  <2>1. Sound(w'.r, z.run)
    BY <1>1, <1>3, <1>7 DEF Sound
  <2>2. CriticPolicy(z.run) => z.host.action = "ran"
    BY <1>6, <1>7 DEF CriticPolicy
  <2> QED
    BY <1>1, <1>3, <1>7, <1>9, <1>10, <2>1, <2>2 DEF Commanding
<1>12. Meets(z, v, w')
  <2>1. Calls(z.run) = w'.calls
    BY <1>1, <1>2, <1>7 DEF Calls
  <2> QED
    BY <1>1, <1>2, <1>9, <1>11, <2>1, MeetsFailing DEF Meets, Busy
<1>13. Arrives(v, t, <<x>>, w')
  BY <1>4, <1>5, <1>7, <1>12, OneFollows
<1> QED
  BY <1>1, <1>13, WordGoes DEF x

\* The critic's answer is passed on.
LEMMA ResponseGoes ==
    ASSUME NEW v, NEW t, Heeds(v, t), Paced(w), CriticAnswer
    PROVE  Goes(v, t)
<1> DEFINE x == [type |-> "response", src |-> w.live]
<1>1. /\ w.at = "answer" /\ w.phase = "critic" /\ w'.at = "verdict" /\ w'.r = w.r /\ w'.live = w.live
      /\ w'.phase = w.phase /\ w'.calls = w.calls /\ w'.unsettled = w.unsettled /\ pipe' = pipe \o <<x>>
  BY DEF CriticAnswer, Emit, Working, Heeds, Shaped, WorkerFields
<1>2. /\ Grounded(t, w) /\ Steered(w.r, t.run) /\ w.r # NoRouter /\ Calls(t.run) = w.calls /\ ~w.unsettled
      /\ Requesting(t, w)
  BY <1>1, Awaited DEF Heeds
<1>3. /\ Formal(t) /\ t.run.cp = w.r /\ Running(t.run) /\ Even(t) /\ Reviewing(t, w) /\ t.run.verdict = "none"
  BY <1>1, <1>2 DEF Grounded, Requesting
<1>4. /\ Drafted(t, w) /\ Frozen(t, w) /\ t.run.phase = "cloud_critic" /\ w.r.criticUsed
      /\ w.r.reason = "critic_request_started" /\ t.run.used["critic"] = 1 /\ w.live = w.r.src
      /\ CriticPolicy(t.run) /\ t.run.draft = w.r.src /\ t.host.context
  BY <1>1, <1>3 DEF Reviewing, Drafted, Frozen
<1>5. Accepts(t, x) /\ x.type = "response"
  BY <1>3, <1>4 DEF Accepts, CanRecordCriticReceipt, Even
<1>6. PICK z : z = After(v, t, x)
  OBVIOUS
<1> HIDE DEF x
<1>7. /\ Formal(z) /\ Alters(t.run, z.run, {"verdict", "criticCurrent"})
      /\ z.run.verdict = v /\ z.run.criticCurrent /\ z.host = t.host
  BY <1>3, <1>5, <1>6, VerdictNoted
<1>8. /\ z.run.policy = t.run.policy /\ z.run.status = t.run.status /\ z.run.phase = t.run.phase
      /\ z.run.cp = t.run.cp /\ z.run.check = t.run.check /\ z.run.plan = t.run.plan
      /\ z.run.handoff = t.run.handoff /\ z.run.recoveries = t.run.recoveries /\ z.run.draft = t.run.draft
      /\ z.run.draftCalls = t.run.draftCalls
      /\ z.run.patch = t.run.patch /\ z.run.checks = t.run.checks
      /\ z.run.used = t.run.used /\ z.run.receipts = t.run.receipts /\ z.run.last = t.run.last
  BY <1>7 DEF Alters, RowFields
<1>9. Grounded(z, w') /\ Even(z)
  <2>1. Steered(w'.r, z.run)
    BY <1>1, <1>2, <1>8 DEF Steered
  <2>2. Running(z.run) /\ z.run.cp = w'.r
    BY <1>1, <1>2, <1>8 DEF Grounded, Running
  <2>3. Even(z)
    BY <1>3, <1>7, <1>8 DEF Even, Unresolved
  <2> QED
    BY <1>7, <2>1, <2>2, <2>3 DEF Grounded
<1>10. Judging(z, v, w')
  <2>1. Drafted(z, w') /\ Frozen(z, w')
    BY <1>1, <1>4, <1>7, <1>8 DEF Drafted, Frozen, CriticPolicy, Sound, Empty, Unmoved
  <2> QED
    BY <1>1, <1>4, <1>7, <1>8, <1>9, <2>1 DEF Judging, Reviewing
<1>11. Meets(z, v, w')
  <2>1. Calls(z.run) = w'.calls
    BY <1>1, <1>2, <1>8 DEF Calls
  <2> QED
    BY <1>1, <1>2, <1>9, <1>10, <2>1 DEF Meets, Busy
<1>12. Arrives(v, t, <<x>>, w')
  BY <1>5, <1>6, <1>8, <1>11, OneFollows
<1> QED
  BY <1>1, <1>12, WordGoes DEF x

\* The draft is sent to be frozen.
LEMMA FreezeGoes ==
    ASSUME NEW v, NEW t, Heeds(v, t), FreezeDraft
    PROVE  Goes(v, t)
<1> DEFINE x == [type |-> "context", src |-> w.live]
<1>1. w.at = "critic" /\ w'.r = w.r
  BY DEF FreezeDraft, Working, Heeds, Shaped, WorkerFields
<1>2. /\ Grounded(t, w) /\ w.r # NoRouter /\ Calls(t.run) = w.calls /\ ~w.unsettled /\ Freezing(t, w)
  BY <1>1 DEF Heeds, Meets, Busy
<1>3. CASE w'.at = "failing" /\ pipe' = pipe
  <2>1. Meets(t, v, w')
    BY <1>1, <1>2, <1>3, BaseKept, MeetsFailing
  <2> QED
    BY <1>3, <2>1, SilentGoes DEF Heeds
<1>4. CASE /\ w'.at = "context" /\ w'.live = w.live /\ w'.phase = w.phase /\ w'.calls = w.calls
           /\ w'.unsettled = w.unsettled /\ pipe' = pipe \o <<x>>
  <2>1. /\ Steered(w.r, t.run) /\ Formal(t) /\ t.run.cp = w.r /\ Running(t.run) /\ Even(t)
        /\ Drafted(t, w) /\ t.run.phase = "local_solver" /\ t.run.verdict = "none" /\ ~w.r.criticUsed
        /\ w.r.reason = "critic_required" /\ t.run.used["critic"] = 0
        /\ t.run.draft = NoSource /\ ~t.host.context
    BY <1>1, <1>2 DEF Grounded, Freezing
  <2>2. /\ CriticPolicy(t.run) /\ w.r.chk = w.r.src /\ w.live = w.r.src /\ t.run.used["local"] = w.r.calls
    BY <2>1 DEF Drafted, Sound
  <2>3. Accepts(t, x) /\ x.type = "context" /\ x.src = w.r.src
    BY <2>1, <2>2 DEF Accepts, CanRecordCriticDraft, LocalSettled, Even
  <2>4. PICK z : z = After(v, t, x)
    OBVIOUS
  <2> HIDE DEF x
  <2>5. /\ Formal(z) /\ Alters(t.run, z.run, {"draft", "draftCalls"})
        /\ z.run.draft = w.r.src /\ z.run.draftCalls = w.r.calls
        /\ Tunes(t.host, z.host, {"context"}) /\ z.host.context
    BY <2>1, <2>3, <2>4, Freezes
  <2>6. /\ z.run.policy = t.run.policy /\ z.run.status = t.run.status /\ z.run.phase = t.run.phase
        /\ z.run.cp = t.run.cp /\ z.run.check = t.run.check /\ z.run.plan = t.run.plan
        /\ z.run.handoff = t.run.handoff /\ z.run.recoveries = t.run.recoveries
        /\ z.run.verdict = t.run.verdict
        /\ z.run.patch = t.run.patch /\ z.run.checks = t.run.checks
        /\ z.run.used = t.run.used /\ z.run.receipts = t.run.receipts /\ z.run.last = t.run.last
    BY <2>5 DEF Alters, RowFields
  <2>7. /\ z.host.pending = t.host.pending /\ z.host.granted = t.host.granted
        /\ z.host.action = t.host.action /\ z.host.final = t.host.final
    BY <2>5 DEF Tunes, HostFields
  <2>8. Grounded(z, w') /\ Even(z)
    <3>1. Steered(w'.r, z.run)
      BY <1>1, <2>1, <2>6 DEF Steered
    <3>2. Running(z.run) /\ z.run.cp = w'.r
      BY <1>1, <2>1, <2>6 DEF Running
    <3>3. Even(z)
      BY <2>1, <2>6, <2>7 DEF Even, Unresolved
    <3> QED
      BY <2>5, <3>1, <3>2, <3>3 DEF Grounded
  <2>9. Freezing(z, w')
    <3>1. Drafted(z, w') /\ Frozen(z, w')
      BY <1>1, <1>4, <2>1, <2>5, <2>6, <2>7 DEF Drafted, Frozen, CriticPolicy, Sound, Empty, Unmoved
    <3> QED
      BY <1>1, <1>4, <2>1, <2>6, <2>8, <3>1 DEF Freezing
  <2>10. Meets(z, v, w')
    <3>1. Calls(z.run) = w'.calls
      BY <1>2, <1>4, <2>6 DEF Calls
    <3> QED
      BY <1>1, <1>2, <1>4, <2>8, <2>9, <3>1 DEF Meets, Busy
  <2>11. Arrives(v, t, <<x>>, w')
    BY <2>3, <2>4, <2>6, <2>10, OneFollows
  <2> QED
    BY <1>4, <2>11, WordGoes DEF x
<1>5. \/ w'.at = "failing" /\ pipe' = pipe
      \/ /\ w'.at = "context" /\ w'.live = w.live /\ w'.phase = w.phase /\ w'.calls = w.calls
         /\ w'.unsettled = w.unsettled /\ pipe' = pipe \o <<x>>
  BY DEF FreezeDraft, Working, Emit, Heeds, Shaped, WorkerFields
<1> QED
  BY <1>3, <1>4, <1>5

\* What a patch leaves of the row.
LEMMA PatchRest ==
    ASSUME NEW s, NEW z, Alters(s.run, z.run, {"patch", "checks"})
    PROVE  /\ z.run.policy = s.run.policy /\ z.run.status = s.run.status /\ z.run.phase = s.run.phase
           /\ z.run.cp = s.run.cp /\ z.run.check = s.run.check /\ z.run.plan = s.run.plan
           /\ z.run.handoff = s.run.handoff /\ z.run.recoveries = s.run.recoveries
           /\ z.run.draft = s.run.draft /\ z.run.draftCalls = s.run.draftCalls
           /\ z.run.verdict = s.run.verdict /\ z.run.criticCurrent = s.run.criticCurrent
           /\ z.run.used = s.run.used /\ z.run.receipts = s.run.receipts /\ z.run.last = s.run.last
BY DEF Alters, RowFields

\* Recovered work is always recorded; it is no submission.
LEMMA RecoveryPut ==
    ASSUME NEW v, NEW s, NEW z, NEW x, NEW src, Formal(s), Running(s.run),
           x = [type |-> "patch", kind |-> "recovered", src |-> src], z = After(v, s, x)
    PROVE  /\ Accepts(s, x) /\ Formal(z) /\ z.host = s.host
           /\ Alters(s.run, z.run, {"patch", "checks"})
           /\ s.run.patch.kind # "submitted" => z.run.patch.kind # "submitted" /\ z.run.patch.src = src
<1>1. x.type = "patch" /\ x.kind = "recovered" /\ x.src = src
  OBVIOUS
<1>2. Accepts(s, x)
  BY <1>1 DEF Accepts, CanRecordPatch
<1>3. /\ Formal(z) /\ Alters(s.run, z.run, {"patch", "checks"}) /\ z.host = s.host
      /\ s.run.patch.kind # "submitted" => z.run.patch = [kind |-> x.kind, src |-> x.src]
  BY <1>1, Patches
<1> QED
  BY <1>1, <1>2, <1>3

\* A host that has only filed a patch is still where the router is.
LEMMA BasePatched ==
    ASSUME NEW s, NEW z, NEW q, Grounded(s, q), Formal(z), Alters(s.run, z.run, {"patch", "checks"})
    PROVE  Grounded(z, q)
<1>1. z.run.policy = s.run.policy /\ z.run.status = s.run.status /\ z.run.cp = s.run.cp
  BY PatchRest
<1> QED
  BY <1>1 DEF Grounded, Steered, Running

\* The edits of a worker that gives up are kept.
LEMMA SalvageGoes ==
    ASSUME NEW v, NEW t, Heeds(v, t), Salvage
    PROVE  Goes(v, t)
<1>1. /\ w.at = "salvage" /\ w'.at = "ending" /\ w'.r = w.r
      /\ pipe' = pipe \o Recovers(w.live) \/ pipe' = pipe \o <<>>
  BY DEF Salvage, Emit, Heeds, Shaped, WorkerFields
<1>2. Grounded(t, w)
  BY <1>1 DEF Heeds, Meets
<1>3. Grounded(t, w') /\ Meets(t, v, w')
  BY <1>1, <1>2, BaseKept, MeetsFailing
<1>4. CASE pipe' = pipe \o <<>>
  <2>1. pipe' = pipe
    BY <1>4, Silence DEF Heeds, Shaped
  <2> QED
    BY <1>3, <2>1, SilentGoes DEF Heeds
<1>5. CASE w.live # Base /\ pipe' = pipe \o Recovers(w.live)
  <2> DEFINE x == [type |-> "patch", kind |-> "recovered", src |-> w.live]
  <2>1. pipe' = pipe \o <<x>>
    BY <1>5 DEF Recovers
  <2>2. PICK z : z = After(v, t, x)
    OBVIOUS
  <2>3. Formal(t) /\ Running(t.run)
    BY <1>2 DEF Grounded
  <2>4. Accepts(t, x) /\ Formal(z) /\ Alters(t.run, z.run, {"patch", "checks"})
    BY <2>2, <2>3, RecoveryPut
  <2> HIDE DEF x
  <2>5. Meets(z, v, w')
    BY <1>1, <1>3, <2>4, BasePatched, MeetsFailing
  <2>6. z.run.policy = t.run.policy
    BY <2>4, PatchRest
  <2>7. Arrives(v, t, <<x>>, w')
    BY <2>2, <2>4, <2>5, <2>6, OneFollows
  <2> QED
    BY <2>1, <2>7, WordGoes
<1>6. CASE w.live = Base
  <2>1. pipe' = pipe \o <<>>
    BY <1>1, <1>6 DEF Recovers
  <2> QED
    BY <1>4, <2>1
<1> QED
  BY <1>1, <1>4, <1>5, <1>6

\* The worker's end.
LEMMA EndGoes ==
    ASSUME NEW v, NEW t, Heeds(v, t), End
    PROVE  Goes(v, t)
<1> DEFINE x == [type |-> "terminal", status |-> w.outcome]
<1>1. w'.at = "gone" /\ pipe' = pipe \o <<x>>
  BY DEF End, Emit, Gone, NoWorker
<1>2. PICK z : z = After(v, t, x)
  OBVIOUS
<1>3. Accepts(t, x) /\ z.run = t.run
  BY <1>2 DEF Accepts, After
<1> HIDE DEF x
<1>4. Meets(z, v, w')
  BY <1>1, MeetsGone
<1>5. Arrives(v, t, <<x>>, w')
  BY <1>2, <1>3, <1>4, OneFollows
<1> QED
  BY <1>1, <1>5, WordGoes

\* The submission is exported before its check starts.
LEMMA ExportGoes ==
    ASSUME NEW v, NEW t, Heeds(v, t), Export
    PROVE  Goes(v, t)
<1> DEFINE x == [type |-> "patch", kind |-> "submitted", src |-> w.live]
           y == [type |-> "verifying"]
           c == t.run
<1>1. w.at = "finish" /\ w'.at = "verify" /\ w'.r = w.r /\ w'.live = w.live /\ pipe' = pipe \o <<x, y>>
  BY DEF Export, Exported, Emit, Working, Heeds, Shaped, WorkerFields
<1>2. Grounded(t, w) /\ Finishing(t, w)
  BY <1>1 DEF Heeds, Meets
<1>3. /\ Formal(t) /\ Running(c) /\ c.cp = w.r /\ Even(t) /\ c.patch.kind # "submitted"
      /\ CriticPolicy(c) => c.checks.status = "not_run" /\ ~t.host.final /\ w.live = w.r.src
  BY <1>2 DEF Grounded, Finishing
<1>4. \/ /\ c.phase = "local_solver" /\ ~Reviewed(c) /\ w.r.decision = "submit"
         /\ CriticPolicy(c) => c.verdict = "repair_required"
      \/ /\ c.phase = "cloud_critic" /\ CriticPolicy(c) /\ w.r.decision = "submit"
         /\ c.verdict = "acceptable" /\ c.criticCurrent /\ c.draft = w.r.src
      \/ /\ c.phase = "cloud_solver" /\ c.recoveries = 1 /\ HasHandoff(c) /\ ~CriticPolicy(c)
         /\ Planned(c.policy) => c.plan
         /\ c.receipts["cloud"] >= 1
  BY <1>2 DEF Finishing, Clouding, CriticPolicy
<1>5. ~Unresolved(c) /\ c.used = c.receipts
  BY <1>3 DEF Even
<1>6. CanRecordPatch(c, "submitted", w.live)
  <2>1. Reviewed(c) =>
          /\ c.phase = "cloud_solver" /\ c.recoveries = 1 /\ c.plan /\ HasHandoff(c)
          /\ c.receipts["cloud"] >= 1 /\ c.used["cloud"] = c.receipts["cloud"]
    BY <1>4, <1>5 DEF Reviewed, CriticPolicy, Planned
  <2>2. CriticPolicy(c) =>
          /\ c.verdict \in {"acceptable", "repair_required"} /\ w.r.decision = "submit"
          /\ c.verdict = "acceptable" => c.criticCurrent /\ w.live = c.draft
    BY <1>3, <1>4
  <2> QED
    BY <1>3, <1>5, <2>1, <2>2 DEF CanRecordPatch
<1>7. Accepts(t, x)
  BY <1>3, <1>4, <1>6 DEF Accepts
<1>8. PICK z : z = After(v, t, x)
  OBVIOUS
<1>9. x.type = "patch" /\ x.kind = "submitted" /\ x.src = w.live /\ y.type = "verifying"
  OBVIOUS
<1> HIDE DEF x
<1>10. /\ Formal(z) /\ Alters(c, z.run, {"patch", "checks"}) /\ z.host = t.host
       /\ z.run.patch = [kind |-> "submitted", src |-> w.live] /\ z.run.checks = c.checks
  BY <1>3, <1>8, <1>9, Patches
<1>11. /\ z.run.policy = c.policy /\ z.run.status = c.status /\ z.run.phase = c.phase
       /\ z.run.cp = c.cp /\ z.run.recoveries = c.recoveries
  BY <1>10, PatchRest
<1>12. Accepts(z, y)
  <2>1. CanSetPhase(z.run, "checking")
    BY <1>3, <1>4, <1>11 DEF CanSetPhase, Running, CriticPolicy
  <2>2. CriticPolicy(z.run) => z.run.phase # "checking" /\ ~z.host.final
    BY <1>3, <1>4, <1>10, <1>11 DEF CriticPolicy
  <2>3. Reviewed(z.run) => z.run.phase = "cloud_solver" /\ z.run.recoveries = 1
    BY <1>4, <1>11 DEF CriticPolicy, Reviewed
  <2> QED
    BY <2>1, <2>2, <2>3 DEF Accepts
<1> HIDE DEF y
<1>13. PICK u : u = After(v, z, y)
  OBVIOUS
<1>14. Formal(u) /\ Alters(z.run, u.run, {"phase"}) /\ u.run.phase = "checking" /\ u.host = z.host
  BY <1>9, <1>10, <1>13, CheckingNoted
<1>15. /\ u.run.policy = z.run.policy /\ u.run.status = z.run.status /\ u.run.cp = z.run.cp
       /\ u.run.patch = z.run.patch /\ u.run.checks = z.run.checks
  BY <1>14 DEF Alters, RowFields
<1>16. Grounded(u, w')
  BY <1>1, <1>2, <1>11, <1>14, <1>15 DEF Grounded, Steered, Running
<1>17. Exporting(u, w')
  <2>1. CriticPolicy(c) => w.r.decision = "submit"
    BY <1>4
  <2> QED
    BY <1>1, <1>3, <1>10, <1>11, <1>14, <1>15, <2>1 DEF Exporting, CriticPolicy
<1>18. Meets(u, v, w')
  BY <1>1, <1>16, <1>17 DEF Meets, Busy
<1>19. Arrives(v, t, <<x, y>>, w')
  BY <1>7, <1>8, <1>11, <1>12, <1>13, <1>15, <1>18, TwoFollow
<1> QED
  BY <1>1, <1>19, PairGoes

\* The result of its check.
LEMMA VerifyGoes ==
    ASSUME NEW v, NEW t, Heeds(v, t), Verify
    PROVE  Goes(v, t)
<1>1. /\ w.at = "verify" /\ w'.at = "ending" /\ w'.r = w.r
      /\ \E after, passed : /\ passed => after = w.live
                            /\ pipe' = pipe \o <<[type |-> "verified", src |-> w.live, after |-> after, passed |-> passed]>>
  BY DEF Verify, FinalTree, Emit, Working, Heeds, Shaped, WorkerFields
<1>2. PICK after : \E passed :
        /\ passed => after = w.live
        /\ pipe' = pipe \o <<[type |-> "verified", src |-> w.live, after |-> after, passed |-> passed]>>
  BY <1>1
<1>3. PICK passed :
        /\ passed => after = w.live
        /\ pipe' = pipe \o <<[type |-> "verified", src |-> w.live, after |-> after, passed |-> passed]>>
  BY <1>2
<1> DEFINE x == [type |-> "verified", src |-> w.live, after |-> after, passed |-> passed]
           c == t.run
<1>4. Grounded(t, w) /\ Exporting(t, w)
  BY <1>1 DEF Heeds, Meets
<1>5. /\ Formal(t) /\ Running(c) /\ c.cp = w.r /\ c.phase = "checking" /\ c.patch.kind = "submitted"
      /\ CriticPolicy(c) => /\ c.checks.status = "not_run" /\ ~t.host.final /\ w.live = w.r.src
                            /\ w.r.decision = "submit"
  BY <1>4 DEF Grounded, Exporting
<1>6. x.type = "verified" /\ pipe' = pipe \o <<x>>
      /\ ChecksOf(x) = [status |-> IF passed THEN "passed" ELSE "failed", src |-> w.live, after |-> after]
  BY <1>3 DEF ChecksOf
<1>7. CanRecordChecks(c, ChecksOf(x))
  BY <1>3, <1>5, <1>6 DEF CanRecordChecks
<1> HIDE DEF x
<1>8. Accepts(t, x)
  BY <1>5, <1>6, <1>7 DEF Accepts
<1>9. PICK z : z = After(v, t, x)
  OBVIOUS
<1>10. Formal(z) /\ Alters(c, z.run, {"checks", "criticCurrent"})
  BY <1>5, <1>6, <1>9, ChecksNoted
<1>11. z.run.policy = c.policy /\ z.run.status = c.status /\ z.run.cp = c.cp
  BY <1>10 DEF Alters, RowFields
<1>12. Grounded(z, w')
  BY <1>1, <1>4, <1>10, <1>11 DEF Grounded, Steered, Running
<1>13. Arrives(v, t, <<x>>, w')
  BY <1>1, <1>8, <1>9, <1>11, <1>12, MeetsFailing, OneFollows
<1> QED
  BY <1>6, <1>13, WordGoes

Plainly == {"cancelled", "unknown_outcome", "execution_failure", "critic_policy_checkpoint",
            "local_only_checkpoint", "insufficient_model_calls", "insufficient_handoff_time"}

\* What a checkpoint leaves of the row and of the host's memory.
LEMMA RouteRest ==
    ASSUME NEW s, NEW z, Alters(s.run, z.run, {"cp", "check", "criticCurrent"}), Tunes(s.host, z.host, {"action"})
    PROVE  /\ z.run.policy = s.run.policy /\ z.run.status = s.run.status /\ z.run.phase = s.run.phase
           /\ z.run.plan = s.run.plan /\ z.run.handoff = s.run.handoff /\ z.run.recoveries = s.run.recoveries
           /\ z.run.draft = s.run.draft /\ z.run.draftCalls = s.run.draftCalls
           /\ z.run.verdict = s.run.verdict /\ z.run.patch = s.run.patch /\ z.run.checks = s.run.checks
           /\ z.run.used = s.run.used /\ z.run.receipts = s.run.receipts /\ z.run.last = s.run.last
           /\ z.host.pending = s.host.pending /\ z.host.granted = s.host.granted
           /\ z.host.context = s.host.context /\ z.host.final = s.host.final
BY DEF Alters, Tunes, RowFields, HostFields

\* After a checkpoint the host knows the router as it is.
LEMMA RoutePut ==
    ASSUME NEW v, NEW s, NEW z, NEW r, NEW x, Formal(s), Running(s.run), Steered(r, s.run),
           x.type = "checkpoint", x.cp = r, z = After(v, s, x), NEW q, q.r = r
    PROVE  /\ Formal(z) /\ Alters(s.run, z.run, {"cp", "check", "criticCurrent"})
           /\ Tunes(s.host, z.host, {"action"}) /\ z.host.action = "none" /\ z.run.cp = r /\ Grounded(z, q)
           /\ z.run.check.src = s.run.check.src /\ z.run.check.after = s.run.check.after
           /\ z.run.check.passed = s.run.check.passed
           /\ z.run.check.fresh <=> FreshBy(s.run, r)
           /\ z.run.criticCurrent <=> CurrentBy(s.run, r)
           /\ Calls(z.run) = Calls(s.run) /\ (Even(s) => Even(z))
<1>3. /\ Formal(z) /\ Alters(s.run, z.run, {"cp", "check", "criticCurrent"}) /\ z.run.cp = x.cp
      /\ z.run.check.src = s.run.check.src /\ z.run.check.after = s.run.check.after
      /\ z.run.check.passed = s.run.check.passed
      /\ z.run.check.fresh <=> FreshBy(s.run, x.cp)
      /\ z.run.criticCurrent <=> CurrentBy(s.run, x.cp)
      /\ Tunes(s.host, z.host, {"action"}) /\ z.host.action = "none"
  <2>1. Formal(s) /\ x.type = "checkpoint" /\ z = After(v, s, x)
    OBVIOUS
  <2> QED
    BY ONLY <2>1, Routed
<1>4. /\ z.run.policy = s.run.policy /\ z.run.status = s.run.status
      /\ z.run.used = s.run.used /\ z.run.receipts = s.run.receipts /\ z.run.last = s.run.last
      /\ z.host.pending = s.host.pending
  BY <1>3, RouteRest
<1>5. Grounded(z, q)
  BY <1>3, <1>4 DEF Grounded, Steered, Running
<1>6. Calls(z.run) = Calls(s.run) /\ (Even(s) => Even(z))
  BY <1>4 DEF Calls, Even, Unresolved
<1>7. z.run.cp = r
  BY <1>3
<1>8. (z.run.check.fresh <=> FreshBy(s.run, r)) /\ (z.run.criticCurrent <=> CurrentBy(s.run, r))
  BY <1>3
<1> QED
  BY <1>3, <1>5, <1>6, <1>7, <1>8

\* The router stops, and the worker ends its work.
LEMMA StopArrives ==
    ASSUME NEW v, NEW t, NEW r, NEW q, NEW reason \in Plainly, Grounded(t, [r |-> r]), r.state # "none",
           q.r = Stop(r, reason), q.at \in {"failing", "salvage", "ending"}
    PROVE  Arrives(v, t, <<Decides(q.r)>>, q)
<1>1. /\ Formal(t) /\ Running(t.run) /\ t.run.cp = r /\ Steered(r, t.run)
  BY DEF Grounded, NoRouter
<1>2. RouteOk(t.run, t.host, q.r) /\ Steered(q.r, t.run)
  BY <1>1, StopRoutes DEF Plainly, CriticReasons
<1> DEFINE x == Decides(q.r)
<1>3. PICK z : z = After(v, t, x)
  OBVIOUS
<1>4. x.type = "checkpoint" /\ x.cp = q.r
  BY DEF Decides
<1> HIDE DEF x
<1>5. /\ Alters(t.run, z.run, {"cp", "check", "criticCurrent"}) /\ Tunes(t.host, z.host, {"action"})
      /\ Grounded(z, q)
  <2>1. Formal(t) /\ Running(t.run) /\ Steered(q.r, t.run) /\ x.type = "checkpoint" /\ x.cp = q.r
        /\ z = After(v, t, x)
    BY <1>1, <1>2, <1>3, <1>4
  <2> QED
    BY ONLY <2>1, RoutePut
<1>6. Accepts(t, x)
  BY <1>2, <1>4 DEF Accepts
<1>7. z.run.policy = t.run.policy
  BY <1>5, RouteRest
<1>8. Meets(z, v, q)
  BY <1>5, MeetsFailing
<1>9. Arrives(v, t, <<x>>, q)
  BY <1>3, <1>6, <1>7, <1>8, OneFollows
<1> QED
  BY <1>9 DEF x

\* The handler of the worker's run closes the router.
LEMMA StopGoes ==
    ASSUME NEW v, NEW t, Heeds(v, t), StopRouter
    PROVE  Goes(v, t)
<1>1. w.at = "failing"
  BY DEF StopRouter
<1>2. Grounded(t, w)
  BY <1>1 DEF Heeds, Meets
<1> DEFINE reason == CASE w.cancelled -> "cancelled"
                       [] ~w.cancelled /\ w.unsettled -> "unknown_outcome"
                       [] OTHER -> "execution_failure"
<1>3. reason \in Plainly
  BY DEF Plainly
<1>4. CASE w.r.state \in {"none", "stopped", "submitted"}
  <2>1. w'.at \in {"ending", "salvage"} /\ w'.r = w.r /\ pipe' = pipe \o <<>>
    BY <1>4 DEF StopRouter, Emit, Heeds, Shaped, WorkerFields
  <2>2. pipe' = pipe
    BY <2>1, Silence DEF Heeds, Shaped
  <2>3. Meets(t, v, w')
    BY <1>2, <2>1, BaseKept, MeetsFailing
  <2> QED
    BY <2>2, <2>3, SilentGoes DEF Heeds
<1>5. CASE w.r.state \notin {"none", "stopped", "submitted"}
  <2>1. w'.at \in {"ending", "salvage"} /\ w'.r = Stop(w.r, reason) /\ pipe' = pipe \o <<Decides(w'.r)>>
    BY <1>5 DEF StopRouter, Emit, Heeds, Shaped, WorkerFields
  <2> HIDE DEF reason
  <2>2. Grounded(t, [r |-> w.r])
    BY <1>2, BaseKept
  <2>3. Arrives(v, t, <<Decides(w'.r)>>, w')
    BY <1>3, <1>5, <2>1, <2>2, StopArrives
  <2> QED
    BY <2>1, <2>3, WordGoes
<1> QED
  BY <1>4, <1>5

\* A stop after the edits were kept.
LEMMA KeptStopArrives ==
    ASSUME NEW v, NEW t, NEW r, NEW q, NEW src, NEW reason \in Plainly, Grounded(t, [r |-> r]), r.state # "none",
           q.r = Stop(r, reason), q.at \in {"failing", "salvage", "ending"}
    PROVE  Arrives(v, t, Recovers(src) \o <<Decides(q.r)>>, q)
<1>1. CASE src = Base
  <2>1. Recovers(src) \o <<Decides(q.r)>> = <<Decides(q.r)>>
    BY <1>1, Single, Unopened DEF Recovers
  <2> QED
    BY <2>1, StopArrives
<1>2. CASE src # Base
  <2> DEFINE x == [type |-> "patch", kind |-> "recovered", src |-> src]
  <2>1. Recovers(src) = <<x>>
    BY <1>2 DEF Recovers
  <2>2. PICK z : z = After(v, t, x)
    OBVIOUS
  <2>3. Formal(t) /\ Running(t.run)
    BY DEF Grounded
  <2>4. Accepts(t, x) /\ Formal(z) /\ Alters(t.run, z.run, {"patch", "checks"})
    BY <2>2, <2>3, RecoveryPut
  <2> HIDE DEF x
  <2>5. Grounded(z, [r |-> r]) /\ z.run.policy = t.run.policy
    BY <2>4, BasePatched, PatchRest
  <2>6. Arrives(v, z, <<Decides(q.r)>>, q)
    BY <2>5, StopArrives
  <2>7. Arrives(v, t, <<x>> \o <<Decides(q.r)>>, q)
    BY <2>2, <2>4, <2>5, <2>6, Single, ThenFollows
  <2> QED
    BY <2>1, <2>7
<1> QED
  BY <1>1, <1>2

\* The local phase ends without a submission.
LEMMA NoSubmissionGoes ==
    ASSUME NEW v, NEW t, Heeds(v, t), NoSubmission
    PROVE  Goes(v, t)
<1>1. w.at = "leave"
  BY DEF NoSubmission
<1>2. Grounded(t, w) /\ w.r # NoRouter /\ Leaving(t, w)
  BY <1>1 DEF Heeds, Meets, Busy
<1>3. Grounded(t, [r |-> w.r]) /\ w.r.state = "checkpoint"
  BY <1>2, BaseKept DEF Leaving
<1> DEFINE reason == IF CriticPolicy(run) THEN "critic_policy_checkpoint" ELSE "local_only_checkpoint"
<1>4. /\ w'.at = "failing" /\ w'.r = Stop(w.r, reason)
      /\ pipe' = pipe \o ((IF CriticPolicy(run) THEN <<>> ELSE Recovers(w.live)) \o <<Decides(w'.r)>>)
  BY DEF NoSubmission, Emit, Heeds, Shaped, WorkerFields
<1>5. reason \in Plainly
  BY DEF Plainly
<1> HIDE DEF reason
<1>6. CASE CriticPolicy(run)
  <2>1. pipe' = pipe \o <<Decides(w'.r)>>
    BY <1>4, <1>6, Single, Unopened
  <2>2. Arrives(v, t, <<Decides(w'.r)>>, w')
    BY <1>3, <1>4, <1>5, StopArrives
  <2> QED
    BY <2>1, <2>2, WordGoes
<1>7. CASE ~CriticPolicy(run)
  <2> DEFINE ev == Recovers(w.live) \o <<Decides(w'.r)>>
  <2>1. pipe' = pipe \o ev
    BY <1>4, <1>7
  <2>2. Arrives(v, t, ev, w')
    BY <1>3, <1>4, <1>5, KeptStopArrives
  <2>3. IsPipe(ev)
    BY RecoveredLate, Single, Joined DEF Voice, Joins
  <2> HIDE DEF ev
  <2> QED
    BY <2>1, <2>2, <2>3 DEF Goes, Follows
<1> QED
  BY <1>6, <1>7

\* What a command of the cloud leaves of the snapshot.
LEMMA CloudStill ==
    ASSUME NEW t, NEW z, NEW q, NEW p, Grounded(t, q), Clouding(t, q), Even(t), Formal(z), p.r = q.r,
           z.run.policy = t.run.policy, z.run.status = t.run.status, z.run.phase = t.run.phase,
           z.run.cp = t.run.cp, z.run.plan = t.run.plan, z.run.handoff = t.run.handoff,
           z.run.recoveries = t.run.recoveries, z.run.patch.kind # "submitted",
           z.run.used = t.run.used, z.run.receipts = t.run.receipts, z.run.last = t.run.last,
           z.host.pending = t.host.pending
    PROVE  Grounded(z, p) /\ Clouding(z, p) /\ Even(z) /\ Calls(z.run) = Calls(t.run)
<1>1. Grounded(z, p)
  BY DEF Grounded, Steered, Running
<1>2. Clouding(z, p)
  BY DEF Clouding, HasHandoff
<1>3. Even(z) /\ Calls(z.run) = Calls(t.run)
  BY DEF Even, Unresolved, Calls
<1> QED
  BY <1>1, <1>2, <1>3

\* The cloud runs a command; one that timed out has its edits kept.
LEMMA CloudCommandGoes ==
    ASSUME NEW v, NEW t, Heeds(v, t), CloudCommand
    PROVE  Goes(v, t)
<1> DEFINE x == [type |-> "command"]
           y == [type |-> "tool"]
<1>1. /\ w.at = "answer" /\ w.phase = "cloud" /\ w'.at = "ask" /\ w'.r = w.r /\ w'.phase = w.phase
      /\ w'.calls = w.calls /\ w'.unsettled = w.unsettled
      /\ \E src, timedOut : pipe' = pipe \o (<<x, y>> \o (IF timedOut THEN Recovers(src) ELSE <<>>))
  BY DEF CloudCommand, Emit, Working, Heeds, Shaped, WorkerFields
<1>2. \E src : \E kept \in {<<>>, <<[type |-> "patch", kind |-> "recovered", src |-> src]>>} :
        pipe' = pipe \o (<<x, y>> \o kept)
  <2>1. PICK src, timedOut : pipe' = pipe \o (<<x, y>> \o (IF timedOut THEN Recovers(src) ELSE <<>>))
    BY <1>1
  <2> HIDE DEF x, y
  <2> QED
    BY <2>1 DEF Recovers
<1>3. PICK src : \E kept \in {<<>>, <<[type |-> "patch", kind |-> "recovered", src |-> src]>>} :
        pipe' = pipe \o (<<x, y>> \o kept)
  BY <1>2
<1> DEFINE k == [type |-> "patch", kind |-> "recovered", src |-> src]
<1>4. pipe' = pipe \o <<x, y>> \/ pipe' = pipe \o <<x, y, k>>
  <2> HIDE DEF x, y, k
  <2>1. pipe' = pipe \o (<<x, y>> \o <<>>) \/ pipe' = pipe \o (<<x, y>> \o <<k>>)
    BY <1>3 DEF k
  <2>2. <<x, y>> \o <<>> = <<x, y>>
    BY Pairs, Silence
  <2> QED
    BY <2>1, <2>2, Triples
<1>5. Grounded(t, w) /\ w.r # NoRouter /\ Calls(t.run) = w.calls /\ ~w.unsettled /\ Requesting(t, w)
  BY <1>1, Awaited DEF Heeds
<1>6. Clouding(t, w) /\ Even(t) /\ Formal(t)
  BY <1>1, <1>5 DEF Requesting, Grounded
<1>7. t.run.phase = "cloud_solver" /\ ~CriticPolicy(t.run) /\ t.run.patch.kind # "submitted"
  BY <1>6 DEF Clouding, CriticPolicy
<1>8. Accepts(t, x) /\ x.type = "command" /\ y.type = "tool"
  BY <1>7 DEF Accepts
<1>9. PICK u : u = After(v, t, x)
  OBVIOUS
<1>10. \A s : ~CriticPolicy(s.run) => Accepts(s, y)
  BY DEF Accepts
<1> HIDE DEF x, y
<1>11. Formal(u) /\ Alters(t.run, u.run, {"check", "criticCurrent"}) /\ Tunes(t.host, u.host, {"action"})
  BY <1>6, <1>8, <1>9, Commands
<1>12. /\ u.run.policy = t.run.policy /\ u.run.status = t.run.status /\ u.run.phase = t.run.phase
       /\ u.run.cp = t.run.cp /\ u.run.plan = t.run.plan /\ u.run.handoff = t.run.handoff
       /\ u.run.recoveries = t.run.recoveries /\ u.run.patch = t.run.patch
       /\ u.run.used = t.run.used /\ u.run.receipts = t.run.receipts /\ u.run.last = t.run.last
       /\ u.host.pending = t.host.pending
  BY <1>11 DEF Alters, Tunes, RowFields, HostFields
<1>13. Grounded(u, w) /\ Clouding(u, w) /\ Even(u) /\ Calls(u.run) = Calls(t.run)
  BY <1>5, <1>6, <1>7, <1>11, <1>12, CloudStill
<1>14. Accepts(u, y)
  BY <1>7, <1>10, <1>12 DEF CriticPolicy
<1>15. PICK z : z = After(v, u, y)
  OBVIOUS
<1>16. Formal(z) /\ Alters(u.run, z.run, {"criticCurrent"}) /\ Tunes(u.host, z.host, {"action"})
  BY <1>8, <1>11, <1>15, Tools
<1>17. /\ z.run.policy = u.run.policy /\ z.run.status = u.run.status /\ z.run.phase = u.run.phase
       /\ z.run.cp = u.run.cp /\ z.run.plan = u.run.plan /\ z.run.handoff = u.run.handoff
       /\ z.run.recoveries = u.run.recoveries /\ z.run.patch = u.run.patch
       /\ z.run.used = u.run.used /\ z.run.receipts = u.run.receipts /\ z.run.last = u.run.last
       /\ z.host.pending = u.host.pending
  BY <1>16 DEF Alters, Tunes, RowFields, HostFields
<1>18. z.run.patch.kind # "submitted"
  BY <1>7, <1>12, <1>17
<1>19. Grounded(z, w) /\ Clouding(z, w) /\ Even(z) /\ Calls(z.run) = Calls(u.run)
  BY <1>13, <1>16, <1>17, <1>18, CloudStill
<1>20. ASSUME NEW a, Grounded(a, w), Clouding(a, w), Even(a), Calls(a.run) = Calls(t.run)
       PROVE  Meets(a, v, w')
  <2>1. Requesting(a, w')
    BY <1>1, <1>20 DEF Requesting, Clouding, RequestPhases
  <2> QED
    BY <1>1, <1>5, <1>20, <2>1, BaseKept DEF Meets, Busy
<1>21. CASE pipe' = pipe \o <<x, y>>
  <2>1. Meets(z, v, w')
    BY <1>13, <1>19, <1>20
  <2>2. Arrives(v, t, <<x, y>>, w')
    BY <1>8, <1>9, <1>12, <1>14, <1>15, <1>17, <2>1, TwoFollow
  <2> QED
    BY <1>21, <2>2, PairGoes
<1>22. CASE pipe' = pipe \o <<x, y, k>>
  <2>1. PICK a : a = After(v, z, k)
    OBVIOUS
  <2>2. /\ Accepts(z, k) /\ Formal(a) /\ a.host = z.host /\ Alters(z.run, a.run, {"patch", "checks"})
        /\ a.run.patch.kind # "submitted"
    BY <1>16, <1>18, <1>19, <2>1, RecoveryPut DEF Grounded
  <2> HIDE DEF k
  <2>3. /\ a.run.policy = z.run.policy /\ a.run.status = z.run.status /\ a.run.phase = z.run.phase
        /\ a.run.cp = z.run.cp /\ a.run.plan = z.run.plan /\ a.run.handoff = z.run.handoff
        /\ a.run.recoveries = z.run.recoveries
        /\ a.run.used = z.run.used /\ a.run.receipts = z.run.receipts /\ a.run.last = z.run.last
    BY <2>2, PatchRest
  <2>4. Grounded(a, w) /\ Clouding(a, w) /\ Even(a) /\ Calls(a.run) = Calls(z.run)
    BY <1>19, <2>2, <2>3, CloudStill
  <2>5. Meets(a, v, w')
    BY <1>13, <1>19, <1>20, <2>4
  <2>6. Arrives(v, u, <<y, k>>, w')
    BY <1>14, <1>15, <1>17, <2>1, <2>2, <2>3, <2>5, TwoFollow
  <2>7. Arrives(v, t, <<x, y, k>>, w')
    BY <1>8, <1>9, <1>12, <2>6, ThreeFollow
  <2> QED
    BY <1>22, <2>7, Triples DEF Goes, Follows
<1> QED
  BY <1>4, <1>21, <1>22

\* What a checkpoint leaves of a snapshot.
Rerouted(s, z, r) ==
    /\ Formal(z) /\ z.run.cp = r /\ z.host.action = "none"
    /\ z.run.policy = s.run.policy /\ z.run.status = s.run.status /\ z.run.phase = s.run.phase
    /\ z.run.plan = s.run.plan /\ z.run.handoff = s.run.handoff /\ z.run.recoveries = s.run.recoveries
    /\ z.run.draft = s.run.draft /\ z.run.draftCalls = s.run.draftCalls
    /\ z.run.verdict = s.run.verdict /\ z.run.patch = s.run.patch /\ z.run.checks = s.run.checks
    /\ z.run.used = s.run.used /\ z.run.receipts = s.run.receipts /\ z.run.last = s.run.last
    /\ z.host.pending = s.host.pending /\ z.host.granted = s.host.granted
    /\ z.host.context = s.host.context /\ z.host.final = s.host.final
    /\ z.run.check.src = s.run.check.src /\ z.run.check.after = s.run.check.after
    /\ z.run.check.passed = s.run.check.passed
    /\ z.run.check.fresh <=> FreshBy(s.run, r)
    /\ z.run.criticCurrent <=> CurrentBy(s.run, r)

\* A checkpoint that the host accepts becomes the row's.
LEMMA RouteTaken ==
    ASSUME NEW v, NEW s, NEW z, NEW r, NEW p, Formal(s), Running(s.run), Steered(r, s.run), p.r = r,
           RouteOk(s.run, s.host, r), z = After(v, s, Decides(r))
    PROVE  /\ Accepts(s, Decides(r)) /\ Rerouted(s, z, r) /\ Grounded(z, p)
           /\ Calls(z.run) = Calls(s.run) /\ (Even(s) => Even(z))
<1> DEFINE x == Decides(r)
<1>1. x.type = "checkpoint" /\ x.cp = r
  BY DEF Decides
<1>2. z = After(v, s, x)
  OBVIOUS
<1> HIDE DEF x
<1>3. Accepts(s, x)
  BY <1>1 DEF Accepts
<1>4. /\ Formal(z) /\ Alters(s.run, z.run, {"cp", "check", "criticCurrent"})
      /\ Tunes(s.host, z.host, {"action"}) /\ z.host.action = "none" /\ z.run.cp = r /\ Grounded(z, p)
      /\ z.run.check.src = s.run.check.src /\ z.run.check.after = s.run.check.after
      /\ z.run.check.passed = s.run.check.passed
      /\ z.run.check.fresh <=> FreshBy(s.run, r)
      /\ z.run.criticCurrent <=> CurrentBy(s.run, r)
      /\ Calls(z.run) = Calls(s.run) /\ (Even(s) => Even(z))
  <2>1. Formal(s) /\ Running(s.run) /\ Steered(r, s.run) /\ p.r = r /\ x.type = "checkpoint" /\ x.cp = r
        /\ z = After(v, s, x)
    BY <1>1, <1>2
  <2> QED
    BY ONLY <2>1, RoutePut
<1>5. /\ z.run.policy = s.run.policy /\ z.run.status = s.run.status /\ z.run.phase = s.run.phase
      /\ z.run.plan = s.run.plan /\ z.run.handoff = s.run.handoff /\ z.run.recoveries = s.run.recoveries
      /\ z.run.draft = s.run.draft /\ z.run.draftCalls = s.run.draftCalls
      /\ z.run.verdict = s.run.verdict /\ z.run.patch = s.run.patch /\ z.run.checks = s.run.checks
      /\ z.run.used = s.run.used /\ z.run.receipts = s.run.receipts /\ z.run.last = s.run.last
      /\ z.host.pending = s.host.pending /\ z.host.granted = s.host.granted
      /\ z.host.context = s.host.context /\ z.host.final = s.host.final
  BY <1>4, RouteRest
<1>6. Rerouted(s, z, r)
  BY <1>4, <1>5 DEF Rerouted
<1> QED
  BY <1>3, <1>4, <1>6 DEF x

\* The local phase goes on.
LEMMA SolvingOn ==
    ASSUME NEW s, NEW z, NEW q, NEW p, NEW r, Solving(s, q), Rerouted(s, z, r), p.phase = "local", p.r = r,
           r.half = q.r.half, r.start = q.r.start, r.criticUsed = q.r.criticUsed, r.handoffUsed = q.r.handoffUsed
    PROVE  Solving(z, p)
<1>1. Halved(p.r, z.run, z.host)
  BY DEF Solving, Rerouted, Halved, Unjudged, CurrentBy
<1> QED
  BY <1>1 DEF Solving, Rerouted, Empty, Unmoved

\* The local phase ends with a checkpoint.
LEMMA LeaveArrives ==
    ASSUME NEW v, NEW s, NEW p, NEW q, NEW r, Grounded(s, p), Steered(r, s.run), q.r = r, q.at = "leave",
           RouteOk(s.run, s.host, r), Even(s), Calls(s.run) = q.calls, ~q.unsettled, Solving(s, p),
           q.phase = "local",
           r.half = p.r.half, r.start = p.r.start, r.criticUsed = p.r.criticUsed, r.handoffUsed = p.r.handoffUsed,
           r.state = "checkpoint"
    PROVE  \E z : z = After(v, s, Decides(r)) /\ Accepts(s, Decides(r)) /\ z.run.policy = s.run.policy
                  /\ Meets(z, v, q)
<1>1. PICK z : z = After(v, s, Decides(r))
  OBVIOUS
<1>2. Formal(s) /\ Running(s.run)
  BY DEF Grounded
<1>3. /\ Accepts(s, Decides(r)) /\ Rerouted(s, z, r) /\ Grounded(z, q)
      /\ Calls(z.run) = Calls(s.run) /\ Even(z)
  BY <1>1, <1>2, RouteTaken
<1>4. Solving(z, q)
  BY <1>3, SolvingOn
<1>5. Leaving(z, q)
  BY <1>3, <1>4 DEF Leaving
<1>6. q.r # NoRouter
  BY DEF NoRouter
<1>7. Meets(z, v, q)
  BY <1>3, <1>5, <1>6 DEF Meets, Busy
<1> QED
  BY <1>1, <1>3, <1>7 DEF Rerouted

\* The local phase goes on with another round.
LEMMA LoopArrives ==
    ASSUME NEW v, NEW s, NEW p, NEW q, NEW r, Grounded(s, p), Steered(r, s.run), q.r = r, q.at = "loop",
           RouteOk(s.run, s.host, r), Even(s), Calls(s.run) = q.calls, ~q.unsettled, Solving(s, p),
           q.phase = "local",
           r.half = p.r.half, r.start = p.r.start, r.criticUsed = p.r.criticUsed, r.handoffUsed = p.r.handoffUsed,
           r.state = "local", ~r.pending, r.decision = "continue", r.reason # "local_request_started",
           r.reason # "critic_repair_required",
           Within(r), Sound(r, s.run), q.live = r.src, s.run.used["local"] = r.calls
    PROVE  \E z : z = After(v, s, Decides(r)) /\ Accepts(s, Decides(r)) /\ z.run.policy = s.run.policy
                  /\ Meets(z, v, q)
<1>1. PICK z : z = After(v, s, Decides(r))
  OBVIOUS
<1>2. Formal(s) /\ Running(s.run)
  BY DEF Grounded
<1>3. /\ Accepts(s, Decides(r)) /\ Rerouted(s, z, r) /\ Grounded(z, q)
      /\ Calls(z.run) = Calls(s.run) /\ Even(z)
  BY <1>1, <1>2, RouteTaken
<1>4. Solving(z, q)
  BY <1>3, SolvingOn
<1>5. Valid(r, z.run)
  BY <1>3 DEF Valid, Sound, Rerouted, FreshBy
<1>6. Looping(z, q)
  BY <1>3, <1>4, <1>5 DEF Looping, Rerouted
<1>7. q.r # NoRouter
  BY DEF NoRouter
<1>8. Meets(z, v, q)
  BY <1>3, <1>6, <1>7 DEF Meets, Busy
<1> QED
  BY <1>1, <1>3, <1>8 DEF Rerouted

Observations == {"command_observed", "visible_check_passed", "visible_check_failed",
                 "visible_check_tree_changed", "visible_checks_failed"}
Endings == {"insufficient_model_calls", "critic_time_reserve", "local_call_limit",
            "finish_reserve_exhausted", "repeated_observation", "explicit_help", "finish_required"}

\* A step of the local phase that is no request of its own.
LEMMA LocalRoutes ==
    ASSUME NEW s, NEW r, NEW q, Running(s.run), s.run.cp = r, Steered(r, s.run), Steered(q, s.run),
           q.seq = r.seq + 1, ~Unresolved(s.run), r.state = "local",
           q.state \in {"local", "checkpoint"}, ~q.pending, q.decision \in {"continue", "checkpoint"},
           q.reason \in Observations \cup Endings,
           q.calls = r.calls, q.half = r.half, q.start = r.start, q.criticUsed = r.criticUsed,
           \/ q.chk = NoSource \/ q.chk = r.chk
           \/ /\ q.reason = "visible_check_passed" /\ s.run.check.passed /\ s.run.check.fresh
              /\ s.run.check.src = q.src /\ s.run.check.after = q.src,
           CriticPolicy(s.run) => (q.src = r.src \/ q.reason \in Moves) /\ OrderOk(s.run, s.host, q)
    PROVE  RouteOk(s.run, s.host, q)
<1> DEFINE c == s.run
           h == s.host
<1>1. /\ r.seq \in Nat \ {0} /\ r.calls \in Nat /\ r.criticUsed \in BOOLEAN
  BY DEF Steered, Counted
<1>2. q.reason \notin CriticReasons \cup {"local_request_started", "review_required", "review_time_reserve"}
  BY DEF Observations, Endings, CriticReasons
<1>3. Allows(q)
  BY <1>2, IdleAllows, RemainingInt
<1>4. AdmitsSubmission(c, q)
  BY DEF AdmitsSubmission
<1>5. CASE ~CriticPolicy(c)
  <2>1. AdmitsReview(c, q) /\ AdmitsEscalation(c, q)
    BY <1>2 DEF AdmitsReview, AdmitsEscalation
  <2> QED
    BY <1>3, <1>4, <1>5, <2>1, OtherRoutes
<1>6. CASE CriticPolicy(c)
  <2>1. CriticCounters(c, q) /\ CriticSteps(c, q)
    <3>1. q.reason \notin CriticReasons \cup {"local_request_started"}
      BY <1>2
    <3>2. \/ q.chk \in {NoSource, r.chk}
          \/ /\ q.reason = "visible_check_passed" /\ c.check.passed /\ c.check.fresh
             /\ c.check.src = q.src /\ c.check.after = q.src
      OBVIOUS
    <3> QED
      BY <1>1, <1>6, <3>1, <3>2, PlainCritic
  <2> QED
    BY <1>1, <1>2, <1>3, <1>4, <1>6, <2>1, CriticRoutes
<1> QED
  BY <1>5, <1>6

\* Before a request no action is open.
LEMMA IdleOrder ==
    ASSUME NEW c, NEW h, NEW cp, c.cp.reason # "local_request_started",
           h.action = "none", cp.calls = c.cp.calls, cp.decision # "stop", cp.src = c.cp.src,
           cp.reason \in Endings
    PROVE  OrderOk(c, h, cp)
BY DEF OrderOk, Endings

\* After a request its action is.
LEMMA ObservedOrder ==
    ASSUME NEW c, NEW h, NEW cp, c.cp.reason = "local_request_started", h.action \in {"ran", "check"},
           cp.calls = c.cp.calls, cp.decision # "stop", SettledIn(c, h, c.cp.calls),
           cp.reason \in Observations \cup Endings,
           cp.reason = "command_observed" => h.action = "ran",
           cp.reason \in Observations \ {"command_observed"} => h.action = "check"
    PROVE  OrderOk(c, h, cp)
BY DEF OrderOk, Endings, Observations

\* What is offered depends on the calls that are left.
LEMMA OfferedCalls ==
    ASSUME NEW r, NEW c, Steered(r, c), Waiting(r)
    PROVE  /\ Remaining(r) \in Nat
           /\ "run_command" \in r.allowed => Remaining(r) >= 2
           /\ "run_visible_checks" \in r.allowed => Remaining(r) >= 1
BY RemainingInt, RouterAssumption DEF Waiting, Offered

\* The next local request, or a checkpoint.
LEMMA LocalRequestGoes ==
    ASSUME NEW v, NEW t, Heeds(v, t), LocalRequest
    PROVE  Goes(v, t)
<1>1. w.at = "loop"
  BY DEF LocalRequest, Working
<1>2. /\ Grounded(t, w) /\ w.r # NoRouter /\ Calls(t.run) = w.calls /\ ~w.unsettled /\ Looping(t, w)
  BY <1>1 DEF Heeds, Meets, Busy
<1>3. /\ Steered(w.r, t.run) /\ Formal(t) /\ Running(t.run) /\ t.run.cp = w.r
  BY <1>2 DEF Grounded
<1>4. /\ Solving(t, w) /\ Even(t) /\ t.run.used["local"] = w.r.calls /\ t.host.action = "none"
      /\ w.r.state = "local" /\ ~w.r.pending /\ w.r.decision = "continue"
      /\ w.r.reason # "local_request_started" /\ Within(w.r)
      /\ Valid(w.r, t.run) /\ w.live = w.r.src
      /\ w.phase = "local" /\ t.run.phase = "local_solver" /\ ~w.r.handoffUsed /\ ~Unresolved(t.run)
      /\ t.run.recoveries = 0 /\ t.run.handoff = NoSource
  BY <1>2 DEF Looping, Solving, Even, Unmoved
<1>5. PICK r : /\ pipe' = pipe \o <<Decides(r)>>
               /\ \E late \in BOOLEAN : r = BeforeLocalRequest(w.r, ModelCallsLeft < 2, late)
               /\ w' = [w EXCEPT !.r = r, !.at = IF r.decision = "continue" THEN "ask" ELSE "leave"]
  BY DEF LocalRequest, Emit
<1>6. PICK late \in BOOLEAN : r = BeforeLocalRequest(w.r, ModelCallsLeft < 2, late)
  BY <1>5
<1>7. /\ w'.r = r /\ w'.at = (IF r.decision = "continue" THEN "ask" ELSE "leave") /\ w'.live = w.live
      /\ w'.phase = w.phase /\ w'.calls = w.calls /\ w'.unsettled = w.unsettled
  BY <1>5 DEF Heeds, Shaped, WorkerFields
<1> DEFINE started == [w.r EXCEPT !.pending = TRUE, !.allowed = AllowedActions(w.r), !.calls = @ + 1]
<1>8. \/ \E why \in Endings \ {"finish_required"} : r = Checkpoint(w.r, why)
      \/ r = Checkpoint(w.r, "review_time_reserve") /\ w.r.policy = "cloud_plan_local_review"
      \/ Remaining(w.r) # 0 /\ r = Record(started, "continue", "local_request_started")
  BY <1>6 DEF BeforeLocalRequest, Endings, CriticDraft
<1>9. CASE Remaining(w.r) # 0 /\ r = Record(started, "continue", "local_request_started")
  <2>1. /\ DOMAIN started = RouterFields /\ started.pending /\ started.allowed = AllowedActions(w.r)
        /\ started.calls = w.r.calls + 1
        /\ \A f \in RouterFields \ {"pending", "allowed", "calls"} : started[f] = w.r[f]
    BY <1>3 DEF Steered, RouterFields
  <2> HIDE DEF started
  <2>2. Turns(started, r, Marks) /\ r.seq = started.seq + 1 /\ r.decision = "continue"
        /\ r.reason = "local_request_started"
    <3>1. DOMAIN started = RouterFields /\ r = Record(started, "continue", "local_request_started")
      BY <1>9, <2>1
    <3> QED
      BY ONLY <3>1, RecordTurns
  <2>3. /\ DOMAIN r = RouterFields /\ r.pending /\ r.allowed = AllowedActions(w.r) /\ r.calls = w.r.calls + 1
        /\ r.seq = w.r.seq + 1 /\ r.policy = w.r.policy /\ r.state = w.r.state /\ r.half = w.r.half
        /\ r.start = w.r.start /\ r.src = w.r.src /\ r.chk = w.r.chk /\ r.fails = w.r.fails
        /\ r.dups = w.r.dups /\ r.criticUsed = w.r.criticUsed /\ r.handoffUsed = w.r.handoffUsed
    BY <2>1, <2>2 DEF Turns, Marks, RouterFields
  <2>4. /\ w.r.calls \in Nat /\ w.r.start \in Nat /\ w.r.start <= w.r.calls /\ w.r.seq \in Nat \ {0}
        /\ w.r.policy = t.run.policy
    BY <1>3 DEF Steered, Counted
  <2>5. Remaining(r) + 1 = Remaining(w.r) /\ Remaining(r) >= 0 /\ Remaining(r) \in Int
    <3>1. CallLimit(r) = CallLimit(w.r) /\ CallLimit(w.r) \in Nat
      BY <1>3, <2>3, Limits DEF CallLimit
    <3>2. Remaining(w.r) \in Nat /\ Remaining(w.r) # 0
      BY <1>3, <1>9, RemainingInt
    <3> QED
      BY <2>3, <2>4, <3>1, <3>2 DEF Remaining, PhaseCalls
  <2>6. Steered(r, t.run)
    <3>1. r.calls \in Nat /\ r.start <= r.calls /\ r.seq \in Nat \ {0}
      BY <2>3, <2>4
    <3>2. Counted(r)
      BY <1>3, <2>3, <2>5, <3>1 DEF Steered, Counted
    <3> QED
      BY <2>3, <2>4, <3>1, <3>2 DEF Steered
  <2>7. AllowedActions(w.r) = Offered(Remaining(w.r), Checked(w.r)) /\ (Checked(r) <=> Checked(w.r))
    BY <1>4, <2>3 DEF AllowedActions, Checked
  <2>8. r.allowed = Offered(Remaining(r) + 1, Checked(r))
    <3>1. Checked(r) = Checked(w.r)
      BY <2>3 DEF Checked
    <3> QED
      BY <2>3, <2>5, <2>7, <3>1
  <2>9. Allows(r)
    BY <1>4, <2>2, <2>3, <2>8 DEF Allows, AllowedActions
  <2>10. RouteOk(t.run, t.host, r)
    <3>1. AdmitsReview(t.run, r) /\ AdmitsSubmission(t.run, r) /\ AdmitsEscalation(t.run, r)
      BY <1>4, <2>2, <2>3 DEF AdmitsReview, AdmitsSubmission, AdmitsEscalation
    <3>2. CASE ~CriticPolicy(t.run)
      BY <1>3, <1>4, <2>2, <2>3, <2>6, <2>9, <3>1, <3>2, OtherRoutes
    <3>3. CASE CriticPolicy(t.run)
      <4>1. SettledIn(t.run, t.host, w.r.calls)
        BY <1>4 DEF Even, SettledIn, LocalSettled
      <4>2. OrderOk(t.run, t.host, r)
        BY <1>3, <1>4, <2>2, <2>3, <4>1 DEF OrderOk
      <4>3. w.r.criticUsed \in BOOLEAN
        BY <1>3 DEF Steered, Counted
      <4>4. CriticCounters(t.run, r)
        BY <1>3, <1>4, <2>2, <2>3, <4>3 DEF CriticCounters
      <4>5. CriticSteps(t.run, r)
        BY <1>3, <1>4, <2>2, <2>3 DEF CriticSteps
      <4> QED
        BY <1>3, <1>4, <2>2, <2>3, <2>4, <2>6, <2>9, <3>1, <3>3, <4>2, <4>4, <4>5, CriticRoutes
    <3> QED
      BY <3>2, <3>3
  <2>11. PICK z : z = After(v, t, Decides(r))
    OBVIOUS
  <2>12. /\ Accepts(t, Decides(r)) /\ Rerouted(t, z, r) /\ Grounded(z, w')
         /\ Calls(z.run) = Calls(t.run) /\ Even(z)
    BY <1>3, <1>4, <1>7, <2>6, <2>10, <2>11, RouteTaken
  <2>13. Solving(z, w')
    BY <1>4, <1>7, <2>3, <2>12, SolvingOn
  <2>14. Valid(r, z.run)
    BY <1>4, <2>2, <2>3, <2>12 DEF Valid, Sound, Rerouted, FreshBy
  <2>15. Waiting(r)
    <3>1. r.calls > 0
      BY <2>3, <2>4
    <3> QED
      BY <1>4, <2>2, <2>3, <2>8, <3>1 DEF Waiting, Within
  <2>16. w'.at = "ask"
    BY <1>7, <2>2
  <2>17. Consulting(z, w')
    <3>1. z.run.used["local"] = r.calls - 1
      BY <1>4, <2>3, <2>4, <2>12 DEF Rerouted
    <3> QED
      BY <1>4, <1>7, <2>3, <2>12, <2>13, <2>14, <2>15, <2>16, <3>1 DEF Consulting, Rerouted
  <2>18. Requesting(z, w')
    BY <1>4, <1>7, <2>12, <2>16, <2>17 DEF Requesting, RequestPhases
  <2>19. w'.r # NoRouter
    BY <1>7, <2>3 DEF NoRouter
  <2>20. Meets(z, v, w')
    BY <1>2, <1>7, <2>12, <2>16, <2>18, <2>19 DEF Meets, Busy
  <2>21. Arrives(v, t, <<Decides(r)>>, w')
    BY <2>11, <2>12, <2>20, OneFollows DEF Rerouted
  <2> QED
    BY <1>5, <2>21, WordGoes
<1>10. ASSUME NEW why, r = Checkpoint(w.r, why), RouteOk(t.run, t.host, r)
       PROVE  Goes(v, t)
  <2>1. /\ Turns(w.r, r, Close) /\ r.seq = w.r.seq + 1 /\ r.decision = "checkpoint" /\ r.reason = why
        /\ r.state = "checkpoint" /\ ~r.pending
    <3>1. DOMAIN w.r = RouterFields /\ r = Checkpoint(w.r, why)
      BY <1>3, <1>10 DEF Steered
    <3> QED
      BY ONLY <3>1, CheckpointTurns
  <2>2. Steered(r, t.run)
    <3>1. Turns(w.r, r, Halt)
      BY <2>1 DEF Turns, Close, Halt
    <3> QED
      BY <1>3, <2>1, <3>1, ClosedCount
  <2>3. r.half = w.r.half /\ r.start = w.r.start /\ r.criticUsed = w.r.criticUsed
        /\ r.handoffUsed = w.r.handoffUsed
    BY <2>1 DEF Turns, Close, RouterFields
  <2>4. w'.at = "leave"
    BY <1>7, <2>1
  <2>5. PICK z : z = After(v, t, Decides(r)) /\ Accepts(t, Decides(r)) /\ z.run.policy = t.run.policy
                 /\ Meets(z, v, w')
    BY <1>2, <1>4, <1>7, <1>10, <2>1, <2>2, <2>3, <2>4, LeaveArrives
  <2>6. Arrives(v, t, <<Decides(r)>>, w')
    BY <2>5, OneFollows
  <2> QED
    BY <1>5, <2>6, WordGoes
<1>11. ASSUME NEW why, r = Checkpoint(w.r, why)
       PROVE  /\ r.seq = w.r.seq + 1 /\ r.decision = "checkpoint" /\ r.reason = why
              /\ r.state = "checkpoint" /\ ~r.pending /\ r.calls = w.r.calls /\ r.half = w.r.half
              /\ r.start = w.r.start /\ r.criticUsed = w.r.criticUsed /\ r.chk = w.r.chk /\ r.src = w.r.src
              /\ r.handoffUsed = w.r.handoffUsed /\ r.policy = w.r.policy /\ Steered(r, t.run)
  <2>1. /\ Turns(w.r, r, Close) /\ r.seq = w.r.seq + 1 /\ r.decision = "checkpoint" /\ r.reason = why
        /\ r.state = "checkpoint" /\ ~r.pending
    <3>1. DOMAIN w.r = RouterFields /\ r = Checkpoint(w.r, why)
      BY <1>3, <1>11 DEF Steered
    <3> QED
      BY ONLY <3>1, CheckpointTurns
  <2>2. Turns(w.r, r, Halt)
    BY <2>1 DEF Turns, Close, Halt
  <2>3. Steered(r, t.run)
    BY <1>3, <2>1, <2>2, ClosedCount
  <2> QED
    BY <2>1, <2>3 DEF Turns, Close, RouterFields
<1>12. CASE \E why \in Endings \ {"finish_required"} : r = Checkpoint(w.r, why)
  <2>1. PICK why \in Endings \ {"finish_required"} : r = Checkpoint(w.r, why)
    BY <1>12
  <2>2. /\ r.seq = w.r.seq + 1 /\ r.decision = "checkpoint" /\ r.reason = why
        /\ r.state = "checkpoint" /\ ~r.pending /\ r.calls = w.r.calls /\ r.half = w.r.half
        /\ r.start = w.r.start /\ r.criticUsed = w.r.criticUsed /\ r.chk = w.r.chk /\ r.src = w.r.src
        /\ Steered(r, t.run)
    BY <1>11, <2>1
  <2>3. OrderOk(t.run, t.host, r)
    BY <1>3, <1>4, <2>1, <2>2, IdleOrder
  <2>4. RouteOk(t.run, t.host, r)
    BY <1>3, <1>4, <2>1, <2>2, <2>3, LocalRoutes
  <2> QED
    BY <1>10, <2>1, <2>4
<1>13. CASE r = Checkpoint(w.r, "review_time_reserve") /\ w.r.policy = "cloud_plan_local_review"
  <2>1. /\ r.seq = w.r.seq + 1 /\ r.decision = "checkpoint" /\ r.reason = "review_time_reserve"
        /\ r.state = "checkpoint" /\ ~r.pending /\ r.handoffUsed = w.r.handoffUsed
        /\ r.policy = w.r.policy /\ Steered(r, t.run)
    BY <1>11, <1>13
  <2>2. t.run.policy = "cloud_plan_local_review"
    BY <1>3, <1>13 DEF Steered
  <2>3. ~CriticPolicy(t.run) /\ Reviewed(t.run)
    BY <2>2 DEF CriticPolicy, Reviewed
  <2>4. AdmitsReview(t.run, r) /\ AdmitsSubmission(t.run, r) /\ AdmitsEscalation(t.run, r)
    BY <1>4, <1>13, <2>1, <2>3 DEF AdmitsReview, AdmitsSubmission, AdmitsEscalation, HandoffCandidate, HasHandoff
  <2>5. Allows(r)
    BY <2>1, IdleAllows, RemainingInt
  <2>6. RouteOk(t.run, t.host, r)
    BY <1>3, <1>4, <2>1, <2>3, <2>4, <2>5, OtherRoutes
  <2> QED
    BY <1>10, <1>13, <2>6
<1> QED
  BY <1>8, <1>9, <1>12, <1>13

\* What an observation may change of the router.
Observes(r, o) ==
    /\ DOMAIN o = RouterFields /\ ~o.pending
    /\ \A f \in RouterFields \ {"pending", "allowed", "src", "chk", "dups", "fails"} : o[f] = r[f]
    /\ o.src \in Nat /\ o.fails \in Nat /\ o.dups \in Nat

\* What the router decides on an observation.
Concludes(r, o, x, reason) ==
    /\ x.seq = r.seq + 1 /\ ~x.pending /\ x.calls = r.calls /\ x.half = r.half /\ x.start = r.start
    /\ x.criticUsed = r.criticUsed /\ x.handoffUsed = r.handoffUsed
    /\ x.src = o.src /\ x.chk = o.chk /\ x.fails = o.fails /\ x.dups = o.dups
    /\ \/ /\ x.state = "checkpoint" /\ x.decision = "checkpoint"
          /\ \/ x.reason = "visible_checks_failed" /\ o.fails >= FailedCheckLimit
             \/ x.reason = "repeated_observation" /\ o.dups >= DuplicateLimit
             \/ x.reason = "finish_reserve_exhausted" /\ Remaining(r) < 2 /\ ~Checked(o)
       \/ /\ x.state = "local" /\ x.decision = "continue" /\ Within(x)
          /\ x.reason = reason \/ (x.reason = "finish_required" /\ ~Checked(o))

\* After an observation the router goes on, or concludes for one of its reasons.
LEMMA ObservedTurn ==
    ASSUME NEW r, NEW o, NEW x, NEW c, NEW reason, Steered(r, c), r.state = "local", Observes(r, o),
           Remaining(r) >= 1, x = ContinueOrCheckpoint(o, reason)
    PROVE  Steered(x, c) /\ Concludes(r, o, x, reason)
<1>1. /\ DOMAIN o = RouterFields /\ ~o.pending /\ o.seq = r.seq /\ o.policy = r.policy /\ o.state = r.state
      /\ o.calls = r.calls /\ o.half = r.half /\ o.start = r.start /\ o.criticUsed = r.criticUsed
      /\ o.handoffUsed = r.handoffUsed /\ o.src \in Nat /\ o.fails \in Nat /\ o.dups \in Nat
  BY DEF Observes, RouterFields
<1>2. Remaining(o) = Remaining(r)
  BY <1>1, SameLeft
<1>3. /\ r.criticUsed \in BOOLEAN /\ DOMAIN r = RouterFields
      /\ r.policy = "local_critic_repair" => ~r.handoffUsed
  BY DEF Steered, Counted
<1>4. ASSUME NEW why, x = Checkpoint(o, why)
      PROVE  /\ Turns(o, x, Close) /\ x.seq = r.seq + 1 /\ x.decision = "checkpoint" /\ x.reason = why
             /\ x.state = "checkpoint" /\ ~x.pending
  <2>1. DOMAIN o = RouterFields /\ x = Checkpoint(o, why)
    BY <1>1, <1>4
  <2>2. /\ Turns(o, x, Close) /\ x.seq = o.seq + 1 /\ x.decision = "checkpoint" /\ x.reason = why
        /\ x.state = "checkpoint" /\ ~x.pending
    BY ONLY <2>1, CheckpointTurns
  <2> QED
    BY <1>1, <2>2
<1>5. ASSUME NEW why, x = Record(o, "continue", why)
      PROVE  /\ Turns(o, x, Marks) /\ x.seq = r.seq + 1 /\ x.decision = "continue" /\ x.reason = why
             /\ x.state = "local" /\ ~x.pending
  <2>1. DOMAIN o = RouterFields /\ x = Record(o, "continue", why)
    BY <1>1, <1>5
  <2>2. /\ Turns(o, x, Marks) /\ x.seq = o.seq + 1 /\ x.decision = "continue" /\ x.reason = why
    BY ONLY <2>1, RecordTurns
  <2> QED
    BY <1>1, <2>2 DEF Turns, Marks, RouterFields
<1>6. ASSUME Turns(o, x, Close), x.seq = r.seq + 1, x.state \in {"local", "checkpoint"}
      PROVE  /\ x.calls = r.calls /\ x.half = r.half /\ x.start = r.start
             /\ x.criticUsed = r.criticUsed /\ x.handoffUsed = r.handoffUsed
             /\ x.src = o.src /\ x.chk = o.chk /\ x.fails = o.fails /\ x.dups = o.dups
             /\ Steered(x, c)
  <2>1. /\ DOMAIN x = RouterFields /\ x.policy = r.policy
        /\ x.calls = r.calls /\ x.half = r.half /\ x.start = r.start
        /\ x.criticUsed = r.criticUsed /\ x.handoffUsed = r.handoffUsed
        /\ x.src = o.src /\ x.chk = o.chk /\ x.fails = o.fails /\ x.dups = o.dups
    BY <1>1, <1>6 DEF Turns, Close, RouterFields
  <2>2. Steered(x, c)
    BY <1>1, <1>3, <1>6, <2>1, SameCount
  <2> QED
    BY <2>1, <2>2
<1>7. \/ \E why \in {"visible_checks_failed", "repeated_observation", "local_call_limit",
                     "finish_reserve_exhausted"} :
           /\ x = Checkpoint(o, why)
           /\ why = "visible_checks_failed" => o.fails >= FailedCheckLimit
           /\ why = "repeated_observation" => o.dups >= DuplicateLimit
           /\ why = "local_call_limit" => Remaining(o) = 0
           /\ why = "finish_reserve_exhausted" => ReserveSpent(o)
      \/ \E why \in {"finish_required", reason} :
           /\ x = Record(o, "continue", why) /\ (why # reason => ~Checked(o))
           /\ ~(o.fails >= FailedCheckLimit) /\ ~(o.dups >= DuplicateLimit)
  <2>1. DOMAIN o = RouterFields /\ x = ContinueOrCheckpoint(o, reason)
    BY <1>1
  <2> QED
    BY ONLY <2>1, ObservationTurns
<1>8. CASE \E why \in {"visible_checks_failed", "repeated_observation", "local_call_limit",
                       "finish_reserve_exhausted"} :
           /\ x = Checkpoint(o, why)
           /\ why = "visible_checks_failed" => o.fails >= FailedCheckLimit
           /\ why = "repeated_observation" => o.dups >= DuplicateLimit
           /\ why = "local_call_limit" => Remaining(o) = 0
           /\ why = "finish_reserve_exhausted" => ReserveSpent(o)
  <2>1. PICK why \in {"visible_checks_failed", "repeated_observation", "local_call_limit",
                       "finish_reserve_exhausted"} :
           /\ x = Checkpoint(o, why)
           /\ why = "visible_checks_failed" => o.fails >= FailedCheckLimit
           /\ why = "repeated_observation" => o.dups >= DuplicateLimit
           /\ why = "local_call_limit" => Remaining(o) = 0
           /\ why = "finish_reserve_exhausted" => ReserveSpent(o)
    BY <1>8
  <2>2. why # "local_call_limit"
    <3>1. Remaining(o) >= 1
      BY <1>2
    <3>2. Remaining(o) # 0
      BY <3>1
    <3> QED
      BY <2>1, <3>2
  <2>3. why = "finish_reserve_exhausted" => Remaining(r) < 2 /\ ~Checked(o)
    BY <1>2, <2>1, RouterAssumption DEF ReserveSpent
  <2>4. /\ Turns(o, x, Close) /\ x.seq = r.seq + 1 /\ x.decision = "checkpoint" /\ x.reason = why
        /\ x.state = "checkpoint" /\ ~x.pending
    BY <1>4, <2>1
  <2> QED
    BY <1>6, <2>1, <2>2, <2>3, <2>4 DEF Concludes
<1>9. CASE \E why \in {"finish_required", reason} :
           /\ x = Record(o, "continue", why) /\ (why # reason => ~Checked(o))
           /\ ~(o.fails >= FailedCheckLimit) /\ ~(o.dups >= DuplicateLimit)
  <2>1. PICK why \in {"finish_required", reason} :
           /\ x = Record(o, "continue", why) /\ (why # reason => ~Checked(o))
           /\ ~(o.fails >= FailedCheckLimit) /\ ~(o.dups >= DuplicateLimit)
    BY <1>9
  <2>2. /\ Turns(o, x, Marks) /\ x.seq = r.seq + 1 /\ x.decision = "continue" /\ x.reason = why
        /\ x.state = "local" /\ ~x.pending
    BY <1>5, <2>1
  <2>3. Turns(o, x, Close)
    BY <2>2 DEF Turns, Marks, Close
  <2>4. /\ x.calls = r.calls /\ x.half = r.half /\ x.start = r.start
        /\ x.criticUsed = r.criticUsed /\ x.handoffUsed = r.handoffUsed
        /\ x.src = o.src /\ x.chk = o.chk /\ x.fails = o.fails /\ x.dups = o.dups
        /\ Steered(x, c)
    BY <1>6, <2>2, <2>3
  <2>5. Within(x)
    <3>1. x.fails \in Nat /\ x.dups \in Nat /\ ~(x.fails >= FailedCheckLimit) /\ ~(x.dups >= DuplicateLimit)
      BY <1>1, <2>1, <2>4
    <3> QED
      BY <3>1, RouterAssumption DEF Within
  <2> QED
    BY <2>1, <2>2, <2>4, <2>5 DEF Concludes
<1> QED
  BY <1>7, <1>8, <1>9

\* An observation leads the host on to the next round, or to the end of the local phase.
LEMMA ObservedArrives ==
    ASSUME NEW v, NEW s, NEW p, NEW q, NEW r, NEW o, NEW x, NEW reason,
           Grounded(s, p), r = p.r, r # NoRouter, Solving(s, p), Even(s), s.run.used["local"] = r.calls,
           Steered(x, s.run), Concludes(r, o, x, reason), reason \in Observations,
           Sound(o, s.run), q.r = x, q.at = ToLoop(x), q.live = o.src, q.phase = "local",
           Calls(s.run) = q.calls, ~q.unsettled, RouteOk(s.run, s.host, x)
    PROVE  \E z : z = After(v, s, Decides(x)) /\ Accepts(s, Decides(x)) /\ z.run.policy = s.run.policy
                  /\ Meets(z, v, q)
<1>1. /\ x.half = r.half /\ x.start = r.start /\ x.criticUsed = r.criticUsed /\ x.handoffUsed = r.handoffUsed
      /\ x.calls = r.calls /\ x.src = o.src /\ x.chk = o.chk /\ ~x.pending
      /\ \/ x.state = "checkpoint"
         \/ /\ x.state = "local" /\ x.decision = "continue" /\ Within(x)
            /\ x.reason = "finish_required" \/ x.reason = reason
  BY DEF Concludes
<1>2. CASE x.state = "checkpoint"
  <2>1. q.at = "leave"
    BY <1>2 DEF ToLoop
  <2> QED
    BY <1>1, <1>2, <2>1, LeaveArrives
<1>3. CASE /\ x.state = "local" /\ x.decision = "continue" /\ Within(x)
           /\ x.reason = "finish_required" \/ x.reason = reason
  <2>1. q.at = "loop"
    BY <1>3 DEF ToLoop
  <2>2. Sound(x, s.run)
    BY <1>1 DEF Sound
  <2>3. x.reason \notin {"local_request_started", "critic_repair_required"}
    BY <1>3 DEF Observations
  <2> QED
    BY <1>1, <1>3, <2>1, <2>2, <2>3, LoopArrives
<1> QED
  BY <1>1, <1>2, <1>3

\* A command's outcome is observed.
LEMMA ObservedGoes ==
    ASSUME NEW v, NEW t, Heeds(v, t), CommandObserved
    PROVE  Goes(v, t)
<1>1. w.at = "ran"
  BY DEF CommandObserved, Working
<1>2. /\ Grounded(t, w) /\ w.r # NoRouter /\ Calls(t.run) = w.calls /\ ~w.unsettled /\ Commanding(t, w)
  BY <1>1 DEF Heeds, Meets, Busy
<1>3. /\ Steered(w.r, t.run) /\ Formal(t) /\ Running(t.run) /\ t.run.cp = w.r /\ DOMAIN w.r = RouterFields
  BY <1>2 DEF Grounded, Steered
<1>4. /\ Solving(t, w) /\ Waiting(w.r) /\ "run_command" \in w.r.allowed /\ Sound(w.r, t.run)
      /\ Even(t) /\ t.run.used["local"] = w.r.calls /\ w.live \in Nat /\ w.phase = "local"
      /\ t.run.phase = "local_solver" /\ ~Unresolved(t.run)
      /\ CriticPolicy(t.run) => t.host.action = "ran"
  BY <1>1, <1>2 DEF Commanding, Solving, Even
<1>5. w.r.state = "local" /\ w.r.reason = "local_request_started" /\ Within(w.r)
  BY <1>4 DEF Waiting
<1>6. PICK repeated \in BOOLEAN : LET r == ObserveCommand(w.r, w.live, repeated)
                                  IN  pipe' = pipe \o <<Decides(r)>> /\ w' = [w EXCEPT !.r = r, !.at = ToLoop(r)]
  BY DEF CommandObserved, Emit
<1>7. PICK x : x = ObserveCommand(w.r, w.live, repeated)
  OBVIOUS
<1>8. /\ pipe' = pipe \o <<Decides(x)>> /\ w'.r = x /\ w'.at = ToLoop(x) /\ w'.live = w.live
      /\ w'.phase = w.phase /\ w'.calls = w.calls /\ w'.unsettled = w.unsettled
  BY <1>6, <1>7 DEF Heeds, Shaped, WorkerFields
<1> DEFINE changed == w.live # w.r.src
           same == IF w.r.dups < DuplicateLimit THEN w.r.dups + 1 ELSE DuplicateLimit
           o == [Settled(w.r) EXCEPT !.src = w.live, !.chk = IF changed THEN NoSource ELSE @,
                                     !.dups = IF changed THEN 0 ELSE IF repeated THEN same ELSE 1]
<1>9. x = ContinueOrCheckpoint(o, "command_observed")
  BY <1>7 DEF ObserveCommand
<1>10. /\ DOMAIN o = RouterFields /\ ~o.pending
       /\ \A f \in RouterFields \ {"pending", "allowed", "src", "chk", "dups", "fails"} : o[f] = w.r[f]
       /\ o.fails = w.r.fails /\ o.src = w.live /\ o.chk = (IF changed THEN NoSource ELSE w.r.chk)
       /\ o.dups = (IF changed THEN 0 ELSE IF repeated THEN same ELSE 1)
  BY <1>3 DEF Settled, RouterFields
<1>11. same \in Nat /\ w.r.fails \in Nat
  BY <1>3, RouterAssumption DEF Steered, Counted
<1> HIDE DEF same, o
<1>12. Observes(w.r, o)
  BY <1>4, <1>10, <1>11 DEF Observes
<1>13. Remaining(w.r) >= 2 /\ Remaining(w.r) >= 1 /\ ~(Remaining(w.r) < 2)
  <2>1. Remaining(w.r) \in Nat /\ Remaining(w.r) >= 2
    BY <1>3, <1>4, OfferedCalls
  <2> QED
    BY <2>1
<1>14. Steered(x, t.run) /\ Concludes(w.r, o, x, "command_observed")
  BY <1>3, <1>5, <1>9, <1>12, <1>13, ObservedTurn
<1>15. /\ \/ x.state = "checkpoint" /\ x.decision = "checkpoint" /\ x.reason = "repeated_observation" /\ ~changed
          \/ x.state = "local" /\ x.decision = "continue" /\ x.reason \in {"finish_required", "command_observed"}
       /\ x.seq = w.r.seq + 1 /\ ~x.pending /\ x.calls = w.r.calls /\ x.half = w.r.half /\ x.start = w.r.start
       /\ x.criticUsed = w.r.criticUsed /\ x.src = w.live /\ (x.chk = NoSource \/ x.chk = w.r.chk)
  <2>1. ~(o.fails >= FailedCheckLimit)
    BY <1>5, <1>10, <1>11, RouterAssumption DEF Within
  <2>2. changed => ~(o.dups >= DuplicateLimit)
    BY <1>10, RouterAssumption
  <2> QED
    BY <1>10, <1>13, <1>14, <2>1, <2>2 DEF Concludes
<1>16. Sound(o, t.run)
  BY <1>4, <1>10 DEF Sound
<1>17. RouteOk(t.run, t.host, x)
  <2>1. x.reason \in Observations \cup Endings /\ x.reason # "visible_check_passed"
    BY <1>15 DEF Observations, Endings
  <2>2. x.src = w.r.src \/ x.reason \in Moves
    BY <1>15 DEF Moves
  <2>3. CriticPolicy(t.run) => OrderOk(t.run, t.host, x)
    <3>1. SettledIn(t.run, t.host, w.r.calls)
      BY <1>4 DEF Even, SettledIn, LocalSettled
    <3>2. x.decision # "stop" /\ x.reason \notin Observations \ {"command_observed"}
      BY <1>15 DEF Observations
    <3> QED
      BY <1>3, <1>4, <1>5, <1>15, <2>1, <3>1, <3>2, ObservedOrder
  <2> QED
    BY <1>3, <1>4, <1>5, <1>14, <1>15, <2>1, <2>2, <2>3, LocalRoutes
<1>18. PICK z : z = After(v, t, Decides(x)) /\ Accepts(t, Decides(x)) /\ z.run.policy = t.run.policy
                /\ Meets(z, v, w')
  <2>1. "command_observed" \in Observations /\ w'.live = o.src
    BY <1>8, <1>10 DEF Observations
  <2> QED
    <3>1. /\ Grounded(t, w) /\ w.r # NoRouter /\ Solving(t, w) /\ Even(t) /\ t.run.used["local"] = w.r.calls
          /\ Steered(x, t.run) /\ Concludes(w.r, o, x, "command_observed") /\ "command_observed" \in Observations
          /\ Sound(o, t.run) /\ w'.r = x /\ w'.at = ToLoop(x) /\ w'.live = o.src /\ w'.phase = "local"
          /\ Calls(t.run) = w'.calls /\ ~w'.unsettled /\ RouteOk(t.run, t.host, x)
      BY <1>2, <1>4, <1>8, <1>14, <1>16, <1>17, <2>1
    <3> QED
      BY ONLY <3>1, ObservedArrives
<1>19. Arrives(v, t, <<Decides(x)>>, w')
  BY <1>18, OneFollows
<1> QED
  BY <1>8, <1>19, WordGoes

\* The receipt of a check that may run is accepted; nothing else moves.
LEMMA CheckSeen ==
    ASSUME NEW v, NEW t, NEW u, NEW src, NEW after, NEW passed, NEW x, Grounded(t, w), w.r # NoRouter,
           Steered(w.r, t.run), Solving(t, w), Waiting(w.r), Even(t),
           t.host.action = "none", t.run.used["local"] = w.r.calls, "run_visible_checks" \in w.r.allowed,
           passed => src = after, src = w.r.src,
           x = [type |-> "checked",
                check |-> [src |-> src, after |-> after, passed |-> passed, fresh |-> after = src]],
           u = After(v, t, x)
    PROVE  /\ Accepts(t, x) /\ u.run.policy = t.run.policy
           /\ Grounded(u, w) /\ Solving(u, w) /\ Even(u) /\ u.run.used["local"] = w.r.calls
           /\ Calls(u.run) = Calls(t.run)
           /\ u.run.check.src = src /\ u.run.check.after = after /\ u.run.check.passed = passed
           /\ u.run.check.fresh = (after = src)
           /\ CriticPolicy(u.run) => u.host.action = "check"
<1> DEFINE k == [src |-> src, after |-> after, passed |-> passed, fresh |-> after = src]
<1>1. DOMAIN k = CheckFields /\ k.src = src /\ k.after = after /\ k.passed = passed /\ k.fresh = (after = src)
  BY DEF CheckFields
<1>2. x.type = "checked" /\ x.check = k
  OBVIOUS
<1> HIDE DEF k
<1>3. /\ Formal(t) /\ Running(t.run) /\ t.run.cp = w.r /\ t.run.phase = "local_solver"
      /\ ~Unresolved(t.run) /\ SettledIn(t.run, t.host, w.r.calls)
      /\ w.r.reason = "local_request_started" /\ AllowedActions(w.r) = w.r.allowed
  BY DEF Grounded, Solving, Even, SettledIn, LocalSettled, Waiting, AllowedActions
<1>4. CanRecordCheckpointCheck(t.run, k)
  BY <1>1, <1>3 DEF CanRecordCheckpointCheck
<1>5. Accepts(t, x)
  BY <1>1, <1>2, <1>3, <1>4 DEF Accepts
<1>6. /\ Formal(u) /\ Alters(t.run, u.run, {"check"}) /\ u.run.check = k
      /\ Tunes(t.host, u.host, {"action"})
      /\ u.host.action = IF CriticPolicy(t.run) THEN "check" ELSE t.host.action
  <2>1. Formal(t) /\ x.type = "checked" /\ DOMAIN x.check = CheckFields /\ u = After(v, t, x) /\ x.check = k
    BY <1>1, <1>2, <1>3
  <2> QED
    BY ONLY <2>1, CheckNoted
<1>7. /\ u.run.policy = t.run.policy /\ u.run.status = t.run.status /\ u.run.phase = t.run.phase
      /\ u.run.cp = t.run.cp /\ u.run.plan = t.run.plan
      /\ u.run.handoff = t.run.handoff /\ u.run.recoveries = t.run.recoveries /\ u.run.draft = t.run.draft
      /\ u.run.draftCalls = t.run.draftCalls /\ u.run.verdict = t.run.verdict
      /\ u.run.criticCurrent = t.run.criticCurrent /\ u.run.patch = t.run.patch /\ u.run.checks = t.run.checks
      /\ u.run.used = t.run.used /\ u.run.receipts = t.run.receipts /\ u.run.last = t.run.last
  BY <1>6 DEF Alters, RowFields
<1>8. /\ u.host.pending = t.host.pending /\ u.host.granted = t.host.granted
      /\ u.host.context = t.host.context /\ u.host.final = t.host.final
  BY <1>6 DEF Tunes, HostFields
<1>9. Grounded(u, w)
  BY <1>6, <1>7 DEF Grounded, Steered, Running
<1>10. Solving(u, w)
  <2>1. Halved(w.r, u.run, u.host)
    BY <1>7, <1>8 DEF Solving, Halved, Unjudged
  <2> QED
    BY <1>7, <1>8, <2>1 DEF Solving, Empty, Unmoved
<1>11. Even(u) /\ Calls(u.run) = Calls(t.run)
  BY <1>7, <1>8 DEF Even, Unresolved, Calls
<1>12. CriticPolicy(u.run) => u.host.action = "check"
  BY <1>6, <1>7 DEF CriticPolicy
<1> QED
  BY <1>1, <1>5, <1>6, <1>7, <1>9, <1>10, <1>11, <1>12

\* The exact check ran, and ended so.
CheckRuns(zeroExit, timedOut, after) ==
    LET r      == ObserveVisibleCheck(w.r, zeroExit, after, timedOut)
        passed == ~timedOut /\ zeroExit /\ after = w.r.src
        check  == [src |-> w.r.src, after |-> after, passed |-> passed, fresh |-> after = w.r.src]
    IN  /\ timedOut => ~zeroExit
        /\ Emit(<<[type |-> "checked", check |-> check], Decides(r)>>)
        /\ w' = [w EXCEPT !.r = r, !.live = after,
                          !.at = IF timedOut THEN "failing" ELSE ToLoop(r),
                          !.outcome = IF timedOut THEN "failed" ELSE @]

\* An exact check runs.
LEMMA VisibleCheckGoes ==
    ASSUME NEW v, NEW t, Heeds(v, t), VisibleCheck
    PROVE  Goes(v, t)
<1>1. w.at = "answer" /\ w.phase = "local" /\ "run_visible_checks" \in AllowedActions(w.r)
  BY DEF VisibleCheck, LocalAnswer, Working
<1>2. /\ Grounded(t, w) /\ Steered(w.r, t.run) /\ w.r # NoRouter /\ Calls(t.run) = w.calls /\ ~w.unsettled
      /\ Solving(t, w) /\ Waiting(w.r) /\ Even(t)
      /\ t.host.action = "none" /\ t.run.used["local"] = w.r.calls
      /\ "run_visible_checks" \in w.r.allowed
  BY <1>1, Consulted
<1>31. \E zeroExit \in BOOLEAN : \E timedOut \in BOOLEAN : \E after \in Sources : CheckRuns(zeroExit, timedOut, after)
  BY Zenon DEF VisibleCheck, CheckRuns
<1>32. PICK zeroExit \in BOOLEAN : \E timedOut \in BOOLEAN : \E after \in Sources : CheckRuns(zeroExit, timedOut, after)
  BY <1>31
<1>33. PICK timedOut \in BOOLEAN : \E after \in Sources : CheckRuns(zeroExit, timedOut, after)
  BY <1>32
<1>34. PICK after \in Sources : CheckRuns(zeroExit, timedOut, after)
  BY <1>33
<1>3. /\ timedOut => ~zeroExit
      /\ LET passed == ~timedOut /\ zeroExit /\ after = w.r.src
             check  == [src |-> w.r.src, after |-> after, passed |-> passed, fresh |-> after = w.r.src]
         IN  pipe' = pipe \o <<[type |-> "checked", check |-> check],
                               Decides(ObserveVisibleCheck(w.r, zeroExit, after, timedOut))>>
      /\ w' = [w EXCEPT !.r = ObserveVisibleCheck(w.r, zeroExit, after, timedOut), !.live = after,
                        !.at = IF timedOut THEN "failing" ELSE ToLoop(ObserveVisibleCheck(w.r, zeroExit, after, timedOut)),
                        !.outcome = IF timedOut THEN "failed" ELSE @]
  BY <1>34 DEF CheckRuns, Emit
<1>4. PICK x : x = ObserveVisibleCheck(w.r, zeroExit, after, timedOut)
  OBVIOUS
<1>5. PICK passed : passed = (~timedOut /\ zeroExit /\ after = w.r.src)
  OBVIOUS
<1>6. PICK src : src = w.r.src
  OBVIOUS
<1> DEFINE k == [type |-> "checked",
                 check |-> [src |-> src, after |-> after, passed |-> passed, fresh |-> after = src]]
<1>7. /\ pipe' = pipe \o <<k, Decides(x)>> /\ w'.r = x /\ w'.live = after
      /\ w'.at = (IF timedOut THEN "failing" ELSE ToLoop(x))
      /\ w'.phase = w.phase /\ w'.calls = w.calls /\ w'.unsettled = w.unsettled
  BY <1>3, <1>4, <1>5, <1>6 DEF Heeds, Shaped, WorkerFields
<1>8. passed => src = after
  BY <1>5, <1>6
<1>9. PICK u : u = After(v, t, k)
  OBVIOUS
<1>10. /\ Accepts(t, k) /\ u.run.policy = t.run.policy
       /\ Grounded(u, w) /\ Solving(u, w) /\ Even(u) /\ u.run.used["local"] = w.r.calls
       /\ Calls(u.run) = Calls(t.run)
       /\ u.run.check.src = src /\ u.run.check.after = after /\ u.run.check.passed = passed
       /\ u.run.check.fresh = (after = src)
       /\ CriticPolicy(u.run) => u.host.action = "check"
  BY <1>2, <1>6, <1>8, <1>9, CheckSeen
<1> HIDE DEF k
<1>11. /\ Formal(u) /\ Running(u.run) /\ u.run.cp = w.r /\ Steered(w.r, u.run) /\ u.run.phase = "local_solver"
       /\ ~Unresolved(u.run) /\ SettledIn(u.run, u.host, w.r.calls) /\ DOMAIN w.r = RouterFields
       /\ w.r.state = "local" /\ w.r.reason = "local_request_started" /\ Within(w.r)
  BY <1>2, <1>10 DEF Grounded, Steered, Solving, Even, SettledIn, LocalSettled, Waiting
<1>12. Remaining(w.r) >= 1 /\ after \in Nat
  <2>1. Sources \subseteq Nat
    BY PatchRunsAssumption DEF Sources
  <2> QED
    BY <1>2, <2>1, OfferedCalls
<1>13. ASSUME NEW z, z = After(v, u, Decides(x)), Accepts(u, Decides(x)), z.run.policy = u.run.policy,
              Meets(z, v, w')
       PROVE  Goes(v, t)
  <2>1. Arrives(v, t, <<k, Decides(x)>>, w')
    BY <1>9, <1>10, <1>13, TwoFollow
  <2> QED
    BY <1>7, <2>1, PairGoes
<1>14. ASSUME ~RouteOk(u.run, u.host, x), CriticPolicy(u.run), src # after
       PROVE  Goes(v, t)
  <2>1. Contested(u, Decides(x))
    BY <1>10, <1>14 DEF Contested, Decides
  <2>2. Balked(v, t, <<k, Decides(x)>>)
    BY <1>9, <1>10, <2>1, TwoBalk
  <2> QED
    BY <1>7, <2>2, Pairs DEF Goes, Follows
<1> DEFINE seen == [Settled(w.r) EXCEPT !.src = after, !.chk = NoSource]
<1>15. /\ DOMAIN seen = RouterFields /\ ~seen.pending /\ seen.src = after /\ seen.chk = NoSource
       /\ \A f \in RouterFields \ {"pending", "allowed", "src", "chk"} : seen[f] = w.r[f]
  BY <1>11 DEF Settled, RouterFields
<1>16. /\ timedOut => x = Stop(seen, "check_timeout")
       /\ ~timedOut /\ passed =>
            x = ContinueOrCheckpoint([seen EXCEPT !.dups = 0, !.chk = after], "visible_check_passed")
       /\ ~timedOut /\ ~passed =>
            \E fails \in Nat : \E reason \in {"visible_check_tree_changed", "visible_check_failed"} :
              x = ContinueOrCheckpoint([seen EXCEPT !.dups = 0, !.fails = fails], reason)
  <2> DEFINE fails == IF w.r.fails < FailedCheckLimit THEN w.r.fails + 1 ELSE FailedCheckLimit
             reason == IF after # w.r.src THEN "visible_check_tree_changed" ELSE "visible_check_failed"
  <2>1. fails \in Nat
    BY <1>11, RouterAssumption DEF Steered, Counted
  <2>2. reason \in {"visible_check_tree_changed", "visible_check_failed"}
    OBVIOUS
  <2>3. x = IF timedOut THEN Stop(seen, "check_timeout")
            ELSE IF zeroExit /\ after = w.r.src
            THEN ContinueOrCheckpoint([seen EXCEPT !.dups = 0, !.chk = after], "visible_check_passed")
            ELSE ContinueOrCheckpoint([seen EXCEPT !.dups = 0, !.fails = fails], reason)
    BY <1>4 DEF ObserveVisibleCheck
  <2> HIDE DEF fails, reason, seen
  <2> QED
    BY <1>5, <2>1, <2>2, <2>3
<1> HIDE DEF seen
<1>17. CASE timedOut
  <2>1. /\ Turns(seen, x, Halt) /\ x.seq = seen.seq + 1 /\ x.decision = "stop" /\ x.reason = "check_timeout"
        /\ x.state = "stopped" /\ ~x.pending
        /\ x.chk = IF seen.policy = "local_critic_repair" THEN NoSource ELSE seen.chk
    <3>1. DOMAIN seen = RouterFields /\ x = Stop(seen, "check_timeout")
      BY <1>15, <1>16, <1>17
    <3> QED
      BY ONLY <3>1, StopTurns
  <2>2. /\ DOMAIN x = RouterFields /\ x.seq = w.r.seq + 1 /\ x.policy = w.r.policy /\ x.calls = w.r.calls
        /\ x.half = w.r.half /\ x.start = w.r.start /\ x.src = after /\ x.fails = w.r.fails
        /\ x.dups = w.r.dups /\ x.criticUsed = w.r.criticUsed /\ x.handoffUsed = w.r.handoffUsed
        /\ x.chk = NoSource
    BY <1>15, <2>1 DEF Turns, Halt, RouterFields
  <2>3. /\ w.r.fails \in Nat /\ w.r.dups \in Nat /\ w.r.criticUsed \in BOOLEAN /\ w.r.calls \in Nat
        /\ w.r.seq \in Nat \ {0}
        /\ w.r.policy = "local_critic_repair" => ~w.r.handoffUsed
    BY <1>11 DEF Steered, Counted
  <2>4. Steered(x, u.run)
    BY <1>11, <1>12, <2>1, <2>2, <2>3, SameCount
  <2>5. Allows(x)
    BY <2>1, <2>4, IdleAllows, RemainingInt
  <2>6. w'.at = "failing"
    BY <1>7, <1>17
  <2>7. RouteOk(u.run, u.host, x) => Goes(v, t)
    <3>1. SUFFICES ASSUME RouteOk(u.run, u.host, x) PROVE Goes(v, t)
      OBVIOUS
    <3>2. PICK z : z = After(v, u, Decides(x))
      OBVIOUS
    <3>3. Accepts(u, Decides(x)) /\ Rerouted(u, z, x) /\ Grounded(z, w')
      BY <1>7, <1>11, <2>4, <3>1, <3>2, RouteTaken
    <3>4. Meets(z, v, w')
      BY <2>6, <3>3, MeetsFailing
    <3> QED
      BY <1>13, <3>2, <3>3, <3>4 DEF Rerouted
  <2>8. (CriticPolicy(u.run) /\ src # after) \/ RouteOk(u.run, u.host, x)
    <3>1. AdmitsReview(u.run, x) /\ AdmitsSubmission(u.run, x) /\ AdmitsEscalation(u.run, x)
      BY <2>1 DEF AdmitsReview, AdmitsSubmission, AdmitsEscalation
    <3>2. CASE ~CriticPolicy(u.run)
      BY <1>11, <2>1, <2>2, <2>4, <2>5, <3>1, <3>2, OtherRoutes
    <3>3. CASE CriticPolicy(u.run) /\ src = after
      <4>1. OrderOk(u.run, u.host, x)
        BY <2>1 DEF OrderOk
      <4>2. CriticCounters(u.run, x) /\ CriticSteps(u.run, x)
        <5>1. x.reason \notin CriticReasons \cup {"local_request_started"} /\ x.chk \in {NoSource, w.r.chk}
              /\ x.src = w.r.src
          BY <1>6, <2>1, <2>2, <3>3 DEF CriticReasons
        <5> QED
          BY <1>11, <2>1, <2>2, <2>3, <5>1, PlainCritic
      <4> QED
        BY <1>11, <2>1, <2>2, <2>3, <2>4, <2>5, <3>1, <3>3, <4>1, <4>2, CriticRoutes
    <3> QED
      BY <3>2, <3>3
  <2> QED
    BY <1>14, <2>7, <2>8
<1>18. ASSUME ~timedOut, NEW o, NEW reason \in Observations \ {"command_observed", "visible_checks_failed"},
              Observes(w.r, o), x = ContinueOrCheckpoint(o, reason), o.src = after, o.dups = 0, Sound(o, u.run),
              o.chk = NoSource \/ (reason = "visible_check_passed" /\ passed /\ o.fails = w.r.fails /\ o.chk = after)
       PROVE  Goes(v, t)
  <2>1. Steered(x, u.run) /\ Concludes(w.r, o, x, reason)
    BY <1>11, <1>12, <1>18, ObservedTurn
  <2>2. ~(o.dups >= DuplicateLimit) /\ w.r.fails \in Nat /\ ~(w.r.fails >= FailedCheckLimit)
    BY <1>11, <1>18, RouterAssumption DEF Steered, Counted, Within
  <2>3. /\ x.state \in {"local", "checkpoint"} /\ x.decision \in {"continue", "checkpoint"}
        /\ x.reason \in {"visible_checks_failed", "finish_reserve_exhausted", "finish_required", reason}
        /\ x.seq = w.r.seq + 1 /\ ~x.pending /\ x.calls = w.r.calls /\ x.half = w.r.half /\ x.start = w.r.start
        /\ x.criticUsed = w.r.criticUsed /\ x.src = after /\ x.chk = o.chk
    BY <1>18, <2>1, <2>2 DEF Concludes
  <2>4. o.chk = NoSource \/ (x.reason = "visible_check_passed" /\ passed /\ after = src)
    BY <1>8, <1>18, <2>1, <2>2 DEF Concludes, Checked
  <2>5. x.reason \in (Observations \ {"command_observed"}) \cup Endings
    BY <2>3 DEF Observations, Endings
  <2>6. CriticPolicy(u.run) => OrderOk(u.run, u.host, x)
    <3>1. x.decision # "stop" /\ x.reason # "command_observed"
      BY <2>3, <2>5 DEF Observations, Endings
    <3> QED
      BY <1>10, <1>11, <2>3, <2>5, <3>1, ObservedOrder
  <2>9. RouteOk(u.run, u.host, x) => Goes(v, t)
    <3>1. SUFFICES ASSUME RouteOk(u.run, u.host, x) PROVE Goes(v, t)
      OBVIOUS
    <3>2. w'.at = ToLoop(x) /\ w'.phase = "local" /\ w'.live = o.src /\ Calls(u.run) = w'.calls /\ ~w'.unsettled
      BY <1>1, <1>2, <1>7, <1>10, <1>18
    <3>3. PICK z : z = After(v, u, Decides(x)) /\ Accepts(u, Decides(x)) /\ z.run.policy = u.run.policy
                   /\ Meets(z, v, w')
      <4>1. /\ Grounded(u, w) /\ w.r # NoRouter /\ Solving(u, w) /\ Even(u) /\ u.run.used["local"] = w.r.calls
            /\ Steered(x, u.run) /\ Concludes(w.r, o, x, reason) /\ reason \in Observations
            /\ Sound(o, u.run) /\ w'.r = x /\ w'.at = ToLoop(x) /\ w'.live = o.src /\ w'.phase = "local"
            /\ Calls(u.run) = w'.calls /\ ~w'.unsettled /\ RouteOk(u.run, u.host, x)
        BY <1>2, <1>7, <1>10, <1>18, <2>1, <3>1, <3>2
      <4> QED
        BY ONLY <4>1, ObservedArrives
    <3> QED
      BY <1>13, <3>3
  <2>7. CASE CriticPolicy(u.run) => src = after
    <3>1. \/ x.chk = NoSource \/ x.chk = w.r.chk
          \/ /\ x.reason = "visible_check_passed" /\ u.run.check.passed /\ u.run.check.fresh
             /\ u.run.check.src = x.src /\ u.run.check.after = x.src
      BY <1>10, <2>3, <2>4
    <3>2. CriticPolicy(u.run) => (x.src = w.r.src \/ x.reason \in Moves) /\ OrderOk(u.run, u.host, x)
      BY <1>6, <2>3, <2>6, <2>7
    <3>3. RouteOk(u.run, u.host, x)
      BY <1>11, <2>1, <2>3, <2>5, <3>1, <3>2, LocalRoutes
    <3> QED
      BY <2>9, <3>3
  <2>8. CASE ~(CriticPolicy(u.run) => src = after)
    BY <1>14, <2>8, <2>9
  <2> QED
    BY <2>7, <2>8
<1>19. CASE ~timedOut /\ passed
  <2>1. PICK o : o = [seen EXCEPT !.dups = 0, !.chk = after]
    OBVIOUS
  <2>2. /\ DOMAIN o = RouterFields /\ ~o.pending /\ o.src = after /\ o.chk = after /\ o.dups = 0
        /\ o.fails = w.r.fails
        /\ \A f \in RouterFields \ {"pending", "allowed", "src", "chk", "dups"} : o[f] = w.r[f]
    BY <1>15, <2>1 DEF RouterFields
  <2>3. Observes(w.r, o)
    <3>1. w.r.fails \in Nat
      BY <1>11 DEF Steered, Counted
    <3> QED
      BY <1>12, <2>2, <3>1 DEF Observes
  <2>4. Sound(o, u.run)
    BY <1>8, <1>10, <1>19, <2>2 DEF Sound
  <2>5. x = ContinueOrCheckpoint(o, "visible_check_passed")
    BY <1>16, <1>19, <2>1
  <2>6. "visible_check_passed" \in Observations \ {"command_observed", "visible_checks_failed"}
    BY DEF Observations
  <2> QED
    BY <1>18, <1>19, <2>2, <2>3, <2>4, <2>5, <2>6
<1>20. CASE ~timedOut /\ ~passed
  <2>1. PICK fails \in Nat : \E reason \in {"visible_check_tree_changed", "visible_check_failed"} :
          x = ContinueOrCheckpoint([seen EXCEPT !.dups = 0, !.fails = fails], reason)
    BY <1>16, <1>20
  <2>2. PICK reason \in {"visible_check_tree_changed", "visible_check_failed"} :
          x = ContinueOrCheckpoint([seen EXCEPT !.dups = 0, !.fails = fails], reason)
    BY <2>1
  <2>3. PICK o : o = [seen EXCEPT !.dups = 0, !.fails = fails]
    OBVIOUS
  <2>4. /\ DOMAIN o = RouterFields /\ ~o.pending /\ o.src = after /\ o.chk = NoSource /\ o.dups = 0
        /\ o.fails = fails
        /\ \A f \in RouterFields \ {"pending", "allowed", "src", "chk", "dups", "fails"} : o[f] = w.r[f]
    BY <1>15, <2>3 DEF RouterFields
  <2>5. Observes(w.r, o)
    BY <1>12, <2>4 DEF Observes
  <2>6. Sound(o, u.run)
    BY <2>4 DEF Sound
  <2>7. reason \in Observations \ {"command_observed", "visible_checks_failed"}
    BY DEF Observations
  <2> QED
    BY <1>18, <1>20, <2>2, <2>3, <2>4, <2>5, <2>6, <2>7
<1> QED
  BY <1>17, <1>19, <1>20

\* A checkpoint of the router closes the request and keeps its counters.
LEMMA Checkpointed ==
    ASSUME NEW r, NEW c, NEW x, NEW why, Steered(r, c), x = Checkpoint(r, why)
    PROVE  /\ x.seq = r.seq + 1 /\ x.decision = "checkpoint" /\ x.reason = why
           /\ x.state = "checkpoint" /\ ~x.pending /\ x.calls = r.calls /\ x.half = r.half
           /\ x.start = r.start /\ x.criticUsed = r.criticUsed /\ x.chk = r.chk /\ x.src = r.src
           /\ x.handoffUsed = r.handoffUsed /\ x.policy = r.policy /\ Steered(x, c)
<1>1. /\ Turns(r, x, Close) /\ x.seq = r.seq + 1 /\ x.decision = "checkpoint" /\ x.reason = why
      /\ x.state = "checkpoint" /\ ~x.pending
  <2>1. DOMAIN r = RouterFields /\ x = Checkpoint(r, why)
    BY DEF Steered
  <2> QED
    BY ONLY <2>1, CheckpointTurns
<1>2. Turns(r, x, Halt)
  BY <1>1 DEF Turns, Close, Halt
<1>3. Steered(x, c)
  BY <1>1, <1>2, ClosedCount
<1> QED
  BY <1>1, <1>3 DEF Turns, Close, RouterFields

\* The local phase ends at an answer, with a checkpoint the host accepts.
LEMMA AnswerLeaves ==
    ASSUME NEW v, NEW t, Heeds(v, t), w.at = "answer", w.phase = "local", NEW x, NEW why,
           x = Checkpoint(w.r, why), RouteOk(t.run, t.host, x), pipe' = pipe \o <<Decides(x)>>,
           w'.r = x, w'.at = "leave", w'.phase = w.phase, w'.calls = w.calls, w'.unsettled = w.unsettled
    PROVE  Goes(v, t)
<1>1. /\ Grounded(t, w) /\ Steered(w.r, t.run) /\ Calls(t.run) = w.calls /\ ~w.unsettled
      /\ Solving(t, w) /\ Even(t)
  BY Consulted
<1>2. /\ x.state = "checkpoint" /\ x.half = w.r.half /\ x.start = w.r.start /\ x.criticUsed = w.r.criticUsed
      /\ x.handoffUsed = w.r.handoffUsed /\ Steered(x, t.run)
  BY <1>1, Checkpointed
<1>3. PICK z : z = After(v, t, Decides(x)) /\ Accepts(t, Decides(x)) /\ z.run.policy = t.run.policy
               /\ Meets(z, v, w')
  BY <1>1, <1>2, LeaveArrives
<1>4. Arrives(v, t, <<Decides(x)>>, w')
  BY <1>3, OneFollows
<1> QED
  BY <1>4, WordGoes

\* The model asks for help.
LEMMA HelpGoes ==
    ASSUME NEW v, NEW t, Heeds(v, t), Help
    PROVE  Goes(v, t)
<1>1. w.at = "answer" /\ w.phase = "local"
  BY DEF Help, LocalAnswer, Working
<1>2. PICK x : x = Checkpoint(w.r, "explicit_help")
  OBVIOUS
<1>3. /\ pipe' = pipe \o <<Decides(x)>> /\ w'.r = x /\ w'.at = "leave"
      /\ w'.phase = w.phase /\ w'.calls = w.calls /\ w'.unsettled = w.unsettled
  BY <1>2 DEF Help, Emit, RequestHelp, Heeds, Shaped, WorkerFields
<1>4. /\ Grounded(t, w) /\ Steered(w.r, t.run) /\ Even(t) /\ Waiting(w.r) /\ t.host.action = "none"
      /\ Running(t.run) /\ t.run.cp = w.r /\ SettledIn(t.run, t.host, w.r.calls)
  BY <1>1, Consulted
<1>5. /\ x.seq = w.r.seq + 1 /\ x.decision = "checkpoint" /\ x.reason = "explicit_help"
      /\ x.state = "checkpoint" /\ ~x.pending /\ x.calls = w.r.calls /\ x.half = w.r.half
      /\ x.start = w.r.start /\ x.criticUsed = w.r.criticUsed /\ x.chk = w.r.chk /\ x.src = w.r.src
      /\ Steered(x, t.run)
  BY <1>2, <1>4, Checkpointed
<1>6. OrderOk(t.run, t.host, x)
  BY <1>4, <1>5 DEF OrderOk
<1>7. RouteOk(t.run, t.host, x)
  <2>1. x.reason \in Observations \cup Endings /\ ~Unresolved(t.run) /\ w.r.state = "local"
    BY <1>4, <1>5 DEF Endings, Even, Waiting
  <2> QED
    BY <1>4, <1>5, <1>6, <2>1, LocalRoutes
<1> QED
  BY <1>1, <1>2, <1>3, <1>7, AnswerLeaves

\* A local answer is submitted: to the review, to the critic, or as it is.
LEMMA SubmitGoes ==
    ASSUME NEW v, NEW t, Heeds(v, t), SubmitTask
    PROVE  Goes(v, t)
<1>1. w.at = "answer" /\ w.phase = "local" /\ MaySubmit(w.r, w.live)
  BY DEF SubmitTask, LocalAnswer, Working
<1>2. PICK x : x = Submit(w.r, w.live)
  OBVIOUS
<1>3. /\ pipe' = pipe \o <<Decides(x)>> /\ w'.r = x
      /\ w'.at = CASE x.state = "submitted" -> "finish" [] x.state = "critic" -> "critic" [] OTHER -> "leave"
      /\ w'.phase = w.phase /\ w'.calls = w.calls /\ w'.unsettled = w.unsettled /\ w'.live = w.live
  BY <1>2 DEF SubmitTask, Emit, Heeds, Shaped, WorkerFields
<1>4. /\ Grounded(t, w) /\ Steered(w.r, t.run) /\ w.r # NoRouter /\ Calls(t.run) = w.calls /\ ~w.unsettled
      /\ Solving(t, w) /\ Waiting(w.r) /\ Valid(w.r, t.run) /\ w.live = w.r.src
      /\ Even(t) /\ t.host.action = "none" /\ t.run.used["local"] = w.r.calls
      /\ Running(t.run) /\ t.run.cp = w.r /\ t.run.phase = "local_solver"
      /\ SettledIn(t.run, t.host, w.r.calls)
  BY <1>1, Consulted
<1>5. /\ w.r.chk = w.r.src /\ w.r.chk # NoSource /\ t.run.check.passed /\ t.run.check.fresh
      /\ t.run.check.src = w.r.src /\ t.run.check.after = w.r.src
      /\ ~(CriticDraft(w.r) /\ w.r.criticUsed) /\ w.live = w.r.src
      /\ w.r.policy = t.run.policy /\ Formal(t) /\ ~Unresolved(t.run) /\ DOMAIN w.r = RouterFields
  <2>1. w.r.chk = w.r.src /\ ~(CriticDraft(w.r) /\ w.r.criticUsed)
    BY <1>1, <1>4 DEF MaySubmit
  <2>2. w.r.chk # NoSource
    BY <1>4, <2>1 DEF Steered, Counted, NoSource
  <2> QED
    BY <1>4, <2>1, <2>2 DEF Valid, Sound, Steered, Grounded, Even
<1>6. /\ w.r.policy = "cloud_plan_local_review" => x = Checkpoint(w.r, "review_required")
      /\ CriticDraft(w.r) =>
           x = Record([Settled(w.r) EXCEPT !.state = "critic"], "checkpoint", "critic_required")
      /\ w.r.policy # "cloud_plan_local_review" /\ ~CriticDraft(w.r) =>
           x = Record([Settled(w.r) EXCEPT !.state = "submitted"], "submit", "fresh_visible_check")
  BY <1>2 DEF Submit, CriticDraft
<1>7. CASE w.r.policy = "cloud_plan_local_review"
  <2>1. /\ x.seq = w.r.seq + 1 /\ x.decision = "checkpoint" /\ x.reason = "review_required"
        /\ x.state = "checkpoint" /\ ~x.pending /\ x.chk = w.r.chk /\ x.src = w.r.src
        /\ x.handoffUsed = w.r.handoffUsed /\ x.policy = w.r.policy /\ Steered(x, t.run)
    BY <1>4, <1>6, <1>7, Checkpointed
  <2>2. ~CriticPolicy(t.run) /\ Reviewed(t.run)
    BY <1>5, <1>7 DEF CriticPolicy, Reviewed
  <2>3. ~w.r.handoffUsed /\ t.run.recoveries = 0 /\ t.run.handoff = NoSource
    BY <1>4 DEF Solving, Unmoved
  <2>4. AdmitsReview(t.run, x) /\ AdmitsSubmission(t.run, x) /\ AdmitsEscalation(t.run, x)
    BY <1>4, <1>5, <1>7, <2>1, <2>2, <2>3
       DEF AdmitsReview, AdmitsSubmission, AdmitsEscalation, HandoffCandidate, HasHandoff
  <2>5. Allows(x)
    BY <2>1, IdleAllows, RemainingInt
  <2>6. RouteOk(t.run, t.host, x)
    BY <1>4, <1>5, <2>1, <2>2, <2>4, <2>5, OtherRoutes
  <2>7. w'.at = "leave"
    BY <1>3, <2>1
  <2> QED
    BY <1>1, <1>3, <1>6, <1>7, <2>6, <2>7, AnswerLeaves
<1>8. ASSUME NEW state \in {"critic", "submitted"}, NEW decision, NEW reason,
             x = Record([Settled(w.r) EXCEPT !.state = state], decision, reason)
      PROVE  /\ x.seq = w.r.seq + 1 /\ x.decision = decision /\ x.reason = reason
             /\ x.state = state /\ ~x.pending /\ x.calls = w.r.calls /\ x.half = w.r.half
             /\ x.start = w.r.start /\ x.criticUsed = w.r.criticUsed /\ x.chk = w.r.chk /\ x.src = w.r.src
             /\ x.handoffUsed = w.r.handoffUsed /\ x.policy = w.r.policy /\ x.fails = w.r.fails
             /\ x.dups = w.r.dups /\ DOMAIN x = RouterFields /\ Steered(x, t.run) /\ Allows(x)
  <2> DEFINE o == [Settled(w.r) EXCEPT !.state = state]
  <2>1. /\ DOMAIN o = RouterFields /\ ~o.pending /\ o.state = state
        /\ \A f \in RouterFields \ {"pending", "allowed", "state"} : o[f] = w.r[f]
    BY <1>5 DEF Settled, RouterFields
  <2>2. x = Record(o, decision, reason)
    BY <1>8
  <2> HIDE DEF o
  <2>3. Turns(o, x, Marks) /\ x.seq = o.seq + 1 /\ x.decision = decision /\ x.reason = reason
    <3>1. DOMAIN o = RouterFields
      BY <2>1
    <3> QED
      BY ONLY <3>1, <2>2, RecordTurns
  <2>4. /\ x.seq = w.r.seq + 1 /\ x.state = state /\ ~x.pending /\ x.calls = w.r.calls /\ x.half = w.r.half
        /\ x.start = w.r.start /\ x.criticUsed = w.r.criticUsed /\ x.chk = w.r.chk /\ x.src = w.r.src
        /\ x.handoffUsed = w.r.handoffUsed /\ x.policy = w.r.policy /\ x.fails = w.r.fails
        /\ x.dups = w.r.dups /\ DOMAIN x = RouterFields
    BY <2>1, <2>3 DEF Turns, Marks, RouterFields
  <2>5. Turns(w.r, x, Halt)
    BY <2>1, <2>3 DEF Turns, Marks, Halt, RouterFields
  <2>6. Steered(x, t.run)
    BY <1>4, <2>4, <2>5, ClosedCount
  <2>7. Allows(x)
    BY <2>4, <2>6, IdleAllows, RemainingInt
  <2> QED
    BY <2>3, <2>4, <2>6, <2>7
<1>9. CASE CriticDraft(w.r)
  <2>1. /\ x.seq = w.r.seq + 1 /\ x.decision = "checkpoint" /\ x.reason = "critic_required"
        /\ x.state = "critic" /\ ~x.pending /\ x.calls = w.r.calls /\ x.half = w.r.half
        /\ x.start = w.r.start /\ x.criticUsed = w.r.criticUsed /\ x.chk = w.r.chk /\ x.src = w.r.src
        /\ x.handoffUsed = w.r.handoffUsed /\ x.policy = w.r.policy /\ x.fails = w.r.fails
        /\ x.dups = w.r.dups /\ DOMAIN x = RouterFields /\ Steered(x, t.run) /\ Allows(x)
    BY <1>6, <1>8, <1>9
  <2>2. CriticPolicy(t.run) /\ w.r.half = "draft"
    BY <1>5, <1>9 DEF CriticPolicy, CriticDraft
  <2>3. /\ t.run.verdict = "none" /\ ~t.host.granted /\ t.run.draft = NoSource /\ ~w.r.criticUsed
        /\ ~t.host.context /\ t.run.used["critic"] = 0
        /\ Empty(t.run) /\ Unmoved(t.run) /\ ~t.host.final
    BY <1>4, <2>2 DEF Solving, Halved, Unjudged
  <2>4. RouteOk(t.run, t.host, x)
    <3>1. AdmitsSubmission(t.run, x)
      BY <2>1 DEF AdmitsSubmission
    <3>2. OrderOk(t.run, t.host, x)
      BY <1>4, <2>1 DEF OrderOk
    <3>3. CriticCounters(t.run, x)
      BY <1>4, <1>5, <2>1, <2>3 DEF CriticCounters, Waiting, Steered, Counted
    <3>4. CriticSteps(t.run, x)
      BY <1>4, <1>5, <2>1, <2>2, <2>3 DEF CriticSteps, Waiting
    <3>5. t.run.cp.seq # 0
      BY <1>4 DEF Steered
    <3> QED
      BY <1>4, <1>5, <2>1, <2>2, <3>1, <3>2, <3>3, <3>4, <3>5, CriticRoutes
  <2>5. PICK z : z = After(v, t, Decides(x))
    OBVIOUS
  <2>6. /\ Accepts(t, Decides(x)) /\ Rerouted(t, z, x) /\ Grounded(z, w')
        /\ Calls(z.run) = Calls(t.run) /\ Even(z)
    BY <1>3, <1>4, <1>5, <2>1, <2>4, <2>5, RouteTaken
  <2>7. w'.at = "critic"
    BY <1>3, <2>1
  <2>8. Drafted(z, w')
    <3>1. CriticPolicy(z.run) /\ Empty(z.run) /\ Unmoved(z.run) /\ ~z.host.final /\ ~z.host.granted
          /\ z.host.action = "none" /\ z.run.used["local"] = x.calls
      BY <1>4, <2>1, <2>2, <2>3, <2>6 DEF Rerouted, CriticPolicy, Empty, Unmoved
    <3>2. Sound(x, z.run)
      BY <1>5, <2>1, <2>6 DEF Rerouted, Sound
    <3>3. Within(x)
      BY <1>4, <2>1 DEF Waiting, Within
    <3> QED
      BY <1>3, <1>5, <2>1, <2>2, <3>1, <3>2, <3>3 DEF Drafted
  <2>9. Freezing(z, w')
    BY <1>3, <1>4, <2>1, <2>3, <2>6, <2>7, <2>8 DEF Freezing, Rerouted
  <2>10. w'.r # NoRouter
    BY <1>3, <2>1 DEF NoRouter
  <2>11. Meets(z, v, w')
    BY <1>3, <1>4, <2>6, <2>7, <2>9, <2>10 DEF Meets, Busy
  <2>12. Arrives(v, t, <<Decides(x)>>, w')
    BY <2>5, <2>6, <2>11, OneFollows DEF Rerouted
  <2> QED
    BY <1>3, <2>12, WordGoes
<1>10. CASE w.r.policy # "cloud_plan_local_review" /\ ~CriticDraft(w.r)
  <2>1. /\ x.seq = w.r.seq + 1 /\ x.decision = "submit" /\ x.reason = "fresh_visible_check"
        /\ x.state = "submitted" /\ ~x.pending /\ x.calls = w.r.calls /\ x.half = w.r.half
        /\ x.start = w.r.start /\ x.criticUsed = w.r.criticUsed /\ x.chk = w.r.chk /\ x.src = w.r.src
        /\ x.handoffUsed = w.r.handoffUsed /\ x.policy = w.r.policy
        /\ DOMAIN x = RouterFields /\ Steered(x, t.run) /\ Allows(x)
    BY <1>6, <1>8, <1>10
  <2>2. AdmitsReview(t.run, x) /\ AdmitsSubmission(t.run, x) /\ AdmitsEscalation(t.run, x) /\ ~Reviewed(t.run)
    BY <1>4, <1>5, <1>10, <2>1 DEF AdmitsReview, AdmitsSubmission, AdmitsEscalation, Reviewed
  <2>3. CriticPolicy(t.run) => t.run.verdict = "repair_required" /\ x.half = "repair"
    <3>1. ASSUME CriticPolicy(t.run) PROVE w.r.half = "repair"
      BY <1>4, <1>5, <1>10, <3>1 DEF CriticPolicy, CriticDraft, Steered, Counted
    <3> QED
      BY <1>4, <2>1, <3>1 DEF Solving, Halved
  <2>4. RouteOk(t.run, t.host, x)
    <3>1. CASE ~CriticPolicy(t.run)
      BY <1>4, <1>5, <2>1, <2>2, <3>1, OtherRoutes
    <3>2. CASE CriticPolicy(t.run)
      <4>1. OrderOk(t.run, t.host, x)
        BY <1>4, <2>1 DEF OrderOk
      <4>2. CriticCounters(t.run, x) /\ CriticSteps(t.run, x)
        <5>1. x.reason \notin CriticReasons \cup {"local_request_started"} /\ w.r.state = "local"
          BY <1>4, <2>1 DEF CriticReasons, Waiting
        <5>2. w.r.calls \in Nat /\ w.r.criticUsed \in BOOLEAN
          BY <1>4 DEF Steered, Counted
        <5> QED
          BY <1>4, <2>1, <5>1, <5>2, PlainCritic
      <4>3. t.run.cp.seq # 0
        BY <1>4 DEF Steered
      <4> QED
        BY <1>4, <1>5, <2>1, <2>2, <2>3, <3>2, <4>1, <4>2, <4>3, CriticRoutes
    <3> QED
      BY <3>1, <3>2
  <2>5. PICK z : z = After(v, t, Decides(x))
    OBVIOUS
  <2>6. /\ Accepts(t, Decides(x)) /\ Rerouted(t, z, x) /\ Grounded(z, w') /\ Even(z)
    BY <1>3, <1>4, <1>5, <2>1, <2>4, <2>5, RouteTaken
  <2>7. w'.at = "finish"
    BY <1>3, <2>1
  <2>8. Finishing(z, w')
    <3>1. Empty(t.run) /\ ~t.host.final
      BY <1>4 DEF Solving
    <3>2. z.run.patch.kind # "submitted" /\ z.run.checks.status = "not_run" /\ ~z.host.final
      BY <2>6, <3>1 DEF Rerouted, Empty
    <3>3. z.run.phase = "local_solver" /\ ~Reviewed(z.run) /\ (CriticPolicy(z.run) => z.run.verdict = "repair_required")
      BY <1>4, <2>2, <2>3, <2>6 DEF Rerouted, Reviewed, CriticPolicy
    <3> QED
      BY <1>3, <1>5, <2>1, <2>6, <3>2, <3>3 DEF Finishing
  <2>9. Meets(z, v, w')
    BY <2>6, <2>7, <2>8 DEF Meets, Busy
  <2>10. Arrives(v, t, <<Decides(x)>>, w')
    BY <2>5, <2>6, <2>9, OneFollows DEF Rerouted
  <2> QED
    BY <1>3, <2>10, WordGoes
<1> QED
  BY <1>7, <1>9, <1>10

\* The router a run begins with.
Initial(r, policy) ==
    /\ DOMAIN r = RouterFields /\ r.policy = policy /\ r.seq \in Nat \ {0}
    /\ r.state = IF Planned(policy) THEN "planner" ELSE "local"
    /\ r.decision = "continue" /\ r.reason = IF Planned(policy) THEN "cloud_plan_required" ELSE "initialized"
    /\ r.calls = 0 /\ r.fails = 0 /\ r.dups = 0 /\ r.src = Base /\ r.chk = NoSource
    /\ r.pending = FALSE /\ r.allowed = {} /\ r.handoffUsed = FALSE
    /\ r.half = "draft" /\ r.start = 0 /\ r.criticUsed = FALSE

\* A router that has just been initialised, whatever its number.
LEMMA NewRouterFresh ==
    ASSUME NEW policy, NEW r, NEW n \in Nat \ {0}, r = [NewRouter(policy, Base) EXCEPT !.seq = n]
    PROVE  Initial(r, policy)
<1> DEFINE o == [NoRouter EXCEPT !.policy = policy, !.src = Base,
                                 !.state = IF Planned(policy) THEN "planner" ELSE "local"]
<1>1. /\ DOMAIN o = RouterFields /\ o.policy = policy /\ o.src = Base
      /\ o.state = IF Planned(policy) THEN "planner" ELSE "local"
      /\ \A f \in RouterFields \ {"policy", "src", "state"} : o[f] = NoRouter[f]
  BY DEF NoRouter, RouterFields
<1>2. /\ NoRouter.calls = 0 /\ NoRouter.fails = 0 /\ NoRouter.dups = 0 /\ NoRouter.chk = NoSource
      /\ NoRouter.pending = FALSE /\ NoRouter.allowed = {} /\ NoRouter.handoffUsed = FALSE
      /\ NoRouter.half = "draft" /\ NoRouter.start = 0 /\ NoRouter.criticUsed = FALSE
  BY DEF NoRouter
<1>3. NewRouter(policy, Base) =
        Record(o, "continue", IF Planned(policy) THEN "cloud_plan_required" ELSE "initialized")
  BY DEF NewRouter
<1> HIDE DEF o
<1>4. r = [Record(o, "continue", IF Planned(policy) THEN "cloud_plan_required" ELSE "initialized") EXCEPT !.seq = n]
  BY <1>3
<1>5. /\ DOMAIN r = RouterFields /\ r.seq = n /\ r.decision = "continue"
      /\ r.reason = IF Planned(policy) THEN "cloud_plan_required" ELSE "initialized"
      /\ \A f \in RouterFields \ {"seq", "decision", "reason"} : r[f] = o[f]
  BY <1>1, <1>4 DEF Record, RouterFields
<1>6. /\ r.policy = o.policy /\ r.state = o.state /\ r.calls = o.calls /\ r.fails = o.fails /\ r.dups = o.dups
      /\ r.src = o.src /\ r.chk = o.chk /\ r.pending = o.pending /\ r.allowed = o.allowed
      /\ r.handoffUsed = o.handoffUsed /\ r.half = o.half /\ r.start = o.start /\ r.criticUsed = o.criticUsed
  BY <1>5 DEF RouterFields
<1>7. /\ o.calls = 0 /\ o.fails = 0 /\ o.dups = 0 /\ o.chk = NoSource /\ o.pending = FALSE /\ o.allowed = {}
      /\ o.handoffUsed = FALSE /\ o.half = "draft" /\ o.start = 0 /\ o.criticUsed = FALSE
  BY <1>1, <1>2 DEF RouterFields
<1> QED
  BY <1>1, <1>5, <1>6, <1>7 DEF Initial

\* The first checkpoint of a worker.
LEMMA NewRouterIs ==
    ASSUME NEW policy, NEW r, r = NewRouter(policy, Base)
    PROVE  Initial(r, policy) /\ r.seq = 1 /\ r = [NewRouter(policy, Base) EXCEPT !.seq = r.seq]
<1>1. r.seq = 1
  BY DEF NewRouter, Record, NoRouter
<1>2. r = [NewRouter(policy, Base) EXCEPT !.seq = r.seq]
  <2> DEFINE o == [NoRouter EXCEPT !.policy = policy, !.src = Base,
                                   !.state = IF Planned(policy) THEN "planner" ELSE "local"]
  <2>1. PICK reason : r = Record(o, "continue", reason)
    BY DEF NewRouter
  <2> HIDE DEF o
  <2>2. r = [r EXCEPT !.seq = r.seq]
    BY <2>1 DEF Record
  <2> QED
    BY <2>2
<1> QED
  BY <1>1, <1>2, NewRouterFresh

\* A router that was not consulted yet has all its calls left.
LEMMA FreshSteered ==
    ASSUME NEW r, NEW c, Initial(r, c.policy)
    PROVE  Steered(r, c) /\ Within(r) /\ r # NoRouter /\ Allows(r)
<1>1. Remaining(r) = CallLimit(r) /\ CallLimit(r) \in Nat
  BY RouterAssumption DEF Initial, Remaining, PhaseCalls, CallLimit
<1>2. Counted(r)
  <2>1. r.policy = "local_critic_repair" => r.state = "local"
    BY DEF Initial, Planned
  <2>2. /\ r.calls \in Nat /\ r.start \in Nat /\ r.src \in Nat /\ r.fails \in Nat /\ r.dups \in Nat
        /\ r.start <= r.calls /\ Remaining(r) >= 0
    BY <1>1 DEF Initial, Base
  <2> QED
    BY <2>1, <2>2 DEF Initial, Counted
<1>3. Steered(r, c)
  BY <1>2 DEF Initial, Steered
<1>4. Within(r)
  BY RouterAssumption DEF Initial, Within
<1>5. r # NoRouter
  BY DEF Initial, NoRouter
<1>6. Allows(r)
  BY <1>1, IdleAllows DEF Initial
<1> QED
  BY <1>3, <1>4, <1>5, <1>6

\* The frames of a phase that starts.
LEMMA PhaseRest ==
    ASSUME NEW s, NEW z, Alters(s.run, z.run, {"phase"}), Tunes(s.host, z.host, {"granted"})
    PROVE  /\ z.run.policy = s.run.policy /\ z.run.status = s.run.status
           /\ z.run.cp = s.run.cp /\ z.run.check = s.run.check /\ z.run.plan = s.run.plan
           /\ z.run.handoff = s.run.handoff /\ z.run.recoveries = s.run.recoveries
           /\ z.run.draft = s.run.draft /\ z.run.draftCalls = s.run.draftCalls
           /\ z.run.verdict = s.run.verdict /\ z.run.criticCurrent = s.run.criticCurrent
           /\ z.run.patch = s.run.patch /\ z.run.checks = s.run.checks
           /\ z.run.used = s.run.used /\ z.run.receipts = s.run.receipts /\ z.run.last = s.run.last
           /\ z.host.pending = s.host.pending /\ z.host.action = s.host.action
           /\ z.host.context = s.host.context /\ z.host.final = s.host.final
BY DEF Alters, RowFields, Tunes, HostFields

\* A phase starts where the host allows it.
LEMMA PhaseTaken ==
    ASSUME NEW v, NEW s, NEW z, NEW p, NEW q, NEW phase \in {"planner", "local", "critic"}, Grounded(s, p), q.r = p.r,
           PhaseOk(s.run, s.host, phase), z = After(v, s, PhaseStarts(phase))
    PROVE  /\ Accepts(s, PhaseStarts(phase)) /\ Grounded(z, q)
           /\ Alters(s.run, z.run, {"phase"}) /\ Tunes(s.host, z.host, {"granted"})
           /\ z.run.phase = StorePhase[phase]
           /\ z.host.granted = (s.host.granted \/ (phase = "local" /\ RepairOk(s.run, s.host)))
           /\ Calls(z.run) = Calls(s.run) /\ (Even(s) => Even(z))
<1> DEFINE x == PhaseStarts(phase)
<1>1. x.type = "phase" /\ x.phase = phase
  BY DEF PhaseStarts
<1>2. Accepts(s, x)
  BY <1>1 DEF Accepts
<1>3. Formal(s)
  BY DEF Grounded
<1>4. z = After(v, s, x)
  OBVIOUS
<1> HIDE DEF x
<1>5. /\ Formal(z)
      /\ Alters(s.run, z.run, {"phase"}) /\ Tunes(s.host, z.host, {"granted"})
      /\ z.run.phase = StorePhase[phase]
      /\ z.host.granted = (s.host.granted \/ (phase = "local" /\ RepairOk(s.run, s.host)))
  <2>1. phase # "cloud"
    OBVIOUS
  <2> QED
    BY <1>1, <1>3, <1>4, <2>1, Phases
<1>6. /\ z.run.policy = s.run.policy /\ z.run.status = s.run.status /\ z.run.cp = s.run.cp
      /\ z.run.used = s.run.used /\ z.run.receipts = s.run.receipts /\ z.run.last = s.run.last
      /\ z.host.pending = s.host.pending
  BY <1>5, PhaseRest
<1>7. Grounded(z, q)
  BY <1>5, <1>6 DEF Grounded, Running, Steered
<1>8. Calls(z.run) = Calls(s.run) /\ (Even(s) => Even(z))
  BY <1>6 DEF Calls, Even, Unresolved
<1> QED
  BY <1>2, <1>5, <1>7, <1>8 DEF x

\* The first local phase starts.
LEMMA FirstLoop ==
    ASSUME NEW v, NEW s, NEW z, NEW q, NEW r, Grounded(s, q), q.r = r, q.at = "loop", q.phase = "local",
           PhaseOk(s.run, s.host, "local"), z = After(v, s, PhaseStarts("local")),
           Unjudged(s.run, s.host), s.run.draft = NoSource, ~s.host.context, s.run.used["critic"] = 0,
           Empty(s.run), Unmoved(s.run), ~s.host.final, Planned(s.run.policy) => s.run.plan,
           Even(s), s.run.used["local"] = 0, s.host.action = "none", Calls(s.run) = q.calls, ~q.unsettled,
           q.live = Base, r.src = Base, r.chk = NoSource, r.half = "draft", r.calls = 0, ~r.criticUsed, ~r.handoffUsed,
           r.state = "local", ~r.pending, r.decision = "continue", r.reason # "local_request_started",
           Within(r), r # NoRouter
    PROVE  Accepts(s, PhaseStarts("local")) /\ z.run.policy = s.run.policy /\ Meets(z, v, q)
<1>1. /\ Accepts(s, PhaseStarts("local")) /\ Grounded(z, q)
      /\ Alters(s.run, z.run, {"phase"}) /\ Tunes(s.host, z.host, {"granted"})
      /\ z.run.phase = StorePhase["local"]
      /\ z.host.granted = (s.host.granted \/ RepairOk(s.run, s.host))
      /\ Calls(z.run) = Calls(s.run) /\ Even(z)
  BY PhaseTaken
<1>2. /\ z.run.policy = s.run.policy /\ z.run.plan = s.run.plan
      /\ z.run.handoff = s.run.handoff /\ z.run.recoveries = s.run.recoveries
      /\ z.run.draft = s.run.draft /\ z.run.verdict = s.run.verdict
      /\ z.run.patch = s.run.patch /\ z.run.checks = s.run.checks /\ z.run.used = s.run.used
      /\ z.host.action = s.host.action /\ z.host.context = s.host.context /\ z.host.final = s.host.final
  BY <1>1, PhaseRest
<1>3. z.run.phase = "local_solver" /\ ~z.host.granted
  BY <1>1 DEF StorePhase, RepairOk, Unjudged
<1>4. Halved(r, z.run, z.host)
  BY <1>2, <1>3 DEF Halved, Unjudged
<1>5. Solving(z, q)
  BY <1>2, <1>3, <1>4 DEF Solving, Empty, Unmoved
<1>6. Valid(r, z.run)
  BY DEF Valid, Sound
<1>7. Looping(z, q)
  BY <1>1, <1>2, <1>5, <1>6 DEF Looping
<1>8. Meets(z, v, q)
  BY <1>1, <1>7 DEF Meets, Busy
<1> QED
  BY <1>1, <1>2, <1>8

\* The plan is done.
LEMMA PlanGoes ==
    ASSUME NEW v, NEW t, Heeds(v, t), PlanReady
    PROVE  Goes(v, t)
<1> DEFINE x == [type |-> "plan"]
           y == PhaseStarts("local")
<1>1. w.at = "answer" /\ w.phase = "planner" /\ ~w.cancelled
  BY DEF PlanReady, Working
<1>2. /\ Grounded(t, w) /\ w.r # NoRouter /\ Steered(w.r, t.run) /\ Calls(t.run) = w.calls /\ ~w.unsettled
      /\ Requesting(t, w)
  BY <1>1, Awaited DEF Heeds
<1>3. /\ Planning(t, w) /\ Even(t) /\ Formal(t) /\ Running(t.run) /\ t.run.cp = w.r
  BY <1>1, <1>2 DEF Requesting, Grounded
<1>4. /\ Planned(t.run.policy) /\ t.run.phase = "cloud_planner" /\ ~t.run.plan /\ t.run.used["planner"] = 1
      /\ t.run.used["local"] = 0 /\ t.run.used["critic"] = 0 /\ Empty(t.run) /\ Unmoved(t.run)
      /\ Unjudged(t.run, t.host) /\ t.run.draft = NoSource /\ ~t.host.context /\ ~t.host.final
      /\ w.live = Base /\ t.host.action = "none"
      /\ ~t.host.pending /\ ~Unresolved(t.run) /\ t.run.used = t.run.receipts
  BY <1>1, <1>3 DEF Planning, Even
<1>5. Initial(w.r, t.run.policy)
  <2>1. w.r.seq \in Nat \ {0}
    BY <1>2 DEF Steered
  <2> QED
    BY <1>3, <2>1, NewRouterFresh DEF Planning
<1>6. PICK r : r = Record([w.r EXCEPT !.state = "local"], "continue", "cloud_plan_completed")
  OBVIOUS
<1>7. /\ pipe' = pipe \o <<x, Decides(r), y>> /\ w'.r = r /\ w'.at = "loop" /\ w'.phase = "local"
      /\ w'.live = w.live /\ w'.calls = w.calls /\ w'.unsettled = w.unsettled
  <2>1. r = MarkCloudPlanComplete(w.r, ~w.unsettled, w.cancelled)
    BY <1>1, <1>2, <1>6 DEF MarkCloudPlanComplete
  <2> QED
    BY <2>1 DEF PlanReady, Emit, Heeds, Shaped, WorkerFields
<1>8. /\ DOMAIN r = RouterFields /\ r.seq = w.r.seq + 1 /\ r.decision = "continue" /\ r.reason = "cloud_plan_completed"
      /\ r.state = "local" /\ ~r.pending /\ r.allowed = {} /\ r.policy = w.r.policy /\ r.calls = 0 /\ r.fails = 0
      /\ r.dups = 0 /\ r.src = Base /\ r.chk = NoSource /\ ~r.handoffUsed /\ r.half = "draft" /\ r.start = 0
      /\ ~r.criticUsed
  BY <1>5, <1>6 DEF Initial, Record, RouterFields
<1>9. ~CriticPolicy(t.run)
  BY <1>4 DEF Planned, CriticPolicy
<1>10. Steered(r, t.run)
  <2>1. /\ w.r.half = "draft" /\ w.r.calls = 0 /\ w.r.start = 0 /\ ~w.r.criticUsed /\ w.r.policy = t.run.policy
    BY <1>5 DEF Initial
  <2>2. r.policy # "local_critic_repair" /\ r.src \in Nat
    BY <1>8, <1>9, <2>1 DEF CriticPolicy, Base
  <2>3. r.criticUsed \in BOOLEAN
    BY <1>6, <2>1, <1>5 DEF Record, Initial, RouterFields, Steered, Counted
  <2> QED
    BY <1>2, <1>8, <2>1, <2>2, <2>3, SameCount
<1>11. PICK u : u = After(v, t, x)
  OBVIOUS
<1>12. Accepts(t, x)
  <2>1. CanRecordPlan(t.run)
    BY <1>3, <1>4 DEF CanRecordPlan
  <2> QED
    BY <2>1 DEF Accepts
<1>13. Formal(u) /\ u.host = t.host /\ Alters(t.run, u.run, {"plan"}) /\ u.run.plan
  <2>1. Formal(t) /\ x.type = "plan" /\ u = After(v, t, x)
    BY <1>3, <1>11
  <2> HIDE DEF x
  <2> QED
    BY <2>1, Plans
<1> HIDE DEF x, y
<1>14. /\ u.run.policy = t.run.policy /\ u.run.status = t.run.status /\ u.run.phase = t.run.phase
       /\ u.run.cp = t.run.cp /\ u.run.handoff = t.run.handoff /\ u.run.recoveries = t.run.recoveries
       /\ u.run.draft = t.run.draft /\ u.run.verdict = t.run.verdict
       /\ u.run.patch = t.run.patch /\ u.run.checks = t.run.checks
       /\ u.run.used = t.run.used /\ u.run.receipts = t.run.receipts /\ u.run.last = t.run.last
  BY <1>13 DEF Alters, RowFields
<1>15. Even(u) /\ Running(u.run) /\ Steered(r, u.run) /\ u.run.cp = w.r /\ Calls(u.run) = Calls(t.run)
  BY <1>3, <1>10, <1>13, <1>14 DEF Even, Unresolved, Running, Steered, Calls
<1>16. RouteOk(u.run, u.host, r)
  <2>1. AdmitsReview(u.run, r) /\ AdmitsSubmission(u.run, r) /\ AdmitsEscalation(u.run, r)
    BY <1>8 DEF AdmitsReview, AdmitsSubmission, AdmitsEscalation
  <2>2. Allows(r) /\ ~CriticPolicy(u.run)
    BY <1>8, <1>9, <1>10, <1>14, IdleAllows, RemainingInt DEF CriticPolicy
  <2>3. ~Unresolved(u.run)
    BY <1>15 DEF Even
  <2> QED
    BY <1>8, <1>15, <2>1, <2>2, <2>3, OtherRoutes
<1>17. PICK s : s = After(v, u, Decides(r))
  OBVIOUS
<1>18. /\ Accepts(u, Decides(r)) /\ Rerouted(u, s, r) /\ Grounded(s, w')
       /\ Calls(s.run) = Calls(u.run) /\ Even(s)
  BY <1>7, <1>13, <1>15, <1>16, <1>17, RouteTaken
<1>19. /\ s.run.policy = t.run.policy /\ s.run.phase = "cloud_planner" /\ s.run.plan /\ s.run.status = t.run.status
       /\ Unjudged(s.run, s.host) /\ s.run.draft = NoSource /\ ~s.host.context /\ s.run.used["critic"] = 0
       /\ Empty(s.run) /\ Unmoved(s.run) /\ ~s.host.final /\ s.run.used["local"] = 0 /\ s.host.action = "none"
  BY <1>4, <1>13, <1>14, <1>18 DEF Rerouted, Unjudged, Empty, Unmoved
<1>20. PhaseOk(s.run, s.host, "local")
  <2>1. CanSetPhase(s.run, "local_solver")
    BY <1>3, <1>9, <1>19 DEF CanSetPhase, Running, CriticPolicy
  <2> QED
    BY <1>4, <1>18, <1>19, <2>1 DEF PhaseOk, Even
<1>21. PICK z : z = After(v, s, y)
  OBVIOUS
<1>22. Accepts(s, y) /\ z.run.policy = s.run.policy /\ Meets(z, v, w')
  <2>1. Within(r)
    BY <1>8, RouterAssumption DEF Within
  <2>2. r # NoRouter
    BY <1>8 DEF NoRouter
  <2> QED
    <3>1. /\ Grounded(s, w') /\ w'.r = r /\ w'.at = "loop" /\ w'.phase = "local"
          /\ PhaseOk(s.run, s.host, "local") /\ z = After(v, s, PhaseStarts("local"))
          /\ Unjudged(s.run, s.host) /\ s.run.draft = NoSource /\ ~s.host.context /\ s.run.used["critic"] = 0
          /\ Empty(s.run) /\ Unmoved(s.run) /\ ~s.host.final /\ (Planned(s.run.policy) => s.run.plan)
          /\ Even(s) /\ s.run.used["local"] = 0 /\ s.host.action = "none" /\ Calls(s.run) = w'.calls
          /\ ~w'.unsettled /\ w'.live = Base /\ r.src = Base /\ r.chk = NoSource /\ r.half = "draft"
          /\ r.calls = 0 /\ ~r.criticUsed /\ ~r.handoffUsed /\ r.state = "local" /\ ~r.pending
          /\ r.decision = "continue" /\ r.reason # "local_request_started" /\ Within(r) /\ r # NoRouter
      BY <1>2, <1>4, <1>7, <1>8, <1>15, <1>18, <1>19, <1>20, <1>21, <2>1, <2>2 DEF y
    <3>2. Accepts(s, PhaseStarts("local")) /\ z.run.policy = s.run.policy /\ Meets(z, v, w')
      BY ONLY <3>1, FirstLoop
    <3> QED
      BY <3>2 DEF y
<1>23. Arrives(v, u, <<Decides(r), y>>, w')
  BY <1>17, <1>18, <1>21, <1>22, TwoFollow DEF Rerouted
<1>24. Arrives(v, t, <<x, Decides(r), y>>, w')
  BY <1>11, <1>12, <1>14, <1>23, ThreeFollow
<1> QED
  BY <1>7, <1>24, Triples DEF Goes, Follows

\* Words in a row, however they are grouped.
LEMMA Grouped ==
    ASSUME NEW x, NEW ev, NEW more, IsPipe(ev), IsPipe(more)
    PROVE  (<<x>> \o ev) \o more = <<x>> \o (ev \o more)
<1>1. PICK S : ev \in Seq(S)
  BY DEF IsPipe
<1>2. PICK T : more \in Seq(T)
  BY DEF IsPipe
<1> DEFINE U == S \cup T \cup {x}
           a == (<<x>> \o ev) \o more
           b == <<x>> \o (ev \o more)
<1>3. <<x>> \in Seq(U) /\ ev \in Seq(U) /\ more \in Seq(U)
  BY <1>1, <1>2
<1> HIDE DEF U
<1>4. /\ a \in Seq(U) /\ b \in Seq(U) /\ Len(a) = 1 + Len(ev) + Len(more) /\ Len(b) = Len(a)
      /\ \A i \in 1..Len(a) : a[i] = b[i]
  BY <1>3
<1> HIDE DEF a, b
<1>5. a = b
  BY <1>4, SameWords
<1> QED
  BY <1>5 DEF a, b

\* The local tree is kept before what follows, unless it is the base.
LEMMA KeptArrives ==
    ASSUME NEW v, NEW t, NEW p, NEW q, NEW ev, NEW more, IsPipe(ev), IsPipe(more), NEW src, Grounded(t, p),
           t.run.patch.kind # "submitted", t.run.patch.src = Base,
           \A z : /\ Grounded(z, p) /\ z.host = t.host /\ Alters(t.run, z.run, {"patch", "checks"})
                  /\ z.run.patch.kind # "submitted" /\ z.run.patch.src = src
                  => Arrives(v, z, ev \o more, q)
    PROVE  Arrives(v, t, (Recovers(src) \o ev) \o more, q)
<1>1. Formal(t) /\ Running(t.run)
  BY DEF Grounded
<1>2. CASE src = Base
  <2>1. Recovers(src) \o ev = ev
    BY <1>2, Unopened DEF Recovers
  <2>2. Alters(t.run, t.run, {"patch", "checks"})
    BY <1>1, Unaltered DEF Alters
  <2> QED
    BY <1>2, <2>1, <2>2
<1>3. CASE src # Base
  <2> DEFINE x == [type |-> "patch", kind |-> "recovered", src |-> src]
  <2>1. Recovers(src) = <<x>>
    BY <1>3 DEF Recovers
  <2>2. PICK z : z = After(v, t, x)
    OBVIOUS
  <2>3. /\ Accepts(t, x) /\ Formal(z) /\ z.host = t.host /\ Alters(t.run, z.run, {"patch", "checks"})
        /\ z.run.patch.kind # "submitted" /\ z.run.patch.src = src
    BY <1>1, <2>2, RecoveryPut
  <2> HIDE DEF x
  <2>4. Grounded(z, p) /\ z.run.policy = t.run.policy
    BY <2>3, BasePatched, PatchRest
  <2>5. Arrives(v, z, ev \o more, q)
    BY <2>3, <2>4
  <2>6. IsPipe(ev \o more)
    BY Joined DEF Joins
  <2>7. Arrives(v, t, <<x>> \o (ev \o more), q)
    BY <2>2, <2>3, <2>4, <2>5, <2>6, ThenFollows
  <2>8. (Recovers(src) \o ev) \o more = <<x>> \o (ev \o more)
    BY <2>1, Grouped
  <2> QED
    BY <2>7, <2>8
<1> QED
  BY <1>2, <1>3

\* What the host is handed is what it knows of the local phase.
LEMMA HandedOver ==
    ASSUME NEW v, NEW s, NEW z, NEW p, NEW r, NEW x, Grounded(s, p), p.r = r, Even(s), s.run.phase = "local_solver",
           s.run.policy \in Policies, s.run.policy \notin {"local_only", "local_critic_repair"},
           r.state = "checkpoint", ~r.handoffUsed, r # NoRouter, Unmoved(s.run),
           x = [type |-> "handoff", src |-> r.src, chk |-> r.chk, patch |-> s.run.patch.src], z = After(v, s, x)
    PROVE  /\ Accepts(s, x) /\ Grounded(z, p) /\ Even(z) /\ z.run.policy = s.run.policy /\ z.run.phase = s.run.phase
           /\ z.run.handoff = r.src /\ z.run.recoveries = 0 /\ z.run.plan = s.run.plan
           /\ z.run.patch = s.run.patch /\ Calls(z.run) = Calls(s.run)
           /\ s.run.policy = "local_first" \/ Planned(s.run.policy)
<1>1. s.run.policy = "local_first" \/ Planned(s.run.policy)
  BY PatchRunsAssumption DEF Planned
<1>2. Formal(s) /\ Running(s.run) /\ s.run.cp = r /\ Steered(r, s.run)
  BY DEF Grounded
<1>3. HandoffCandidate(r)
  BY <1>2 DEF HandoffCandidate, Steered
<1>4. /\ x.type = "handoff" /\ x.src = r.src /\ x.chk = r.chk /\ x.patch = s.run.patch.src
  OBVIOUS
<1>5. Accepts(s, x)
  <2>1. CanRecordHandoff(s.run, x.src, x.chk, x.patch)
    BY <1>1, <1>2, <1>3, <1>4 DEF CanRecordHandoff, Unmoved, HasHandoff, Even
  <2> QED
    BY <1>4, <2>1 DEF Accepts
<1>6. Formal(z) /\ z.host = s.host /\ Alters(s.run, z.run, {"handoff"}) /\ z.run.handoff = r.src
  BY <1>2, <1>4, Plans
<1>7. /\ z.run.policy = s.run.policy /\ z.run.status = s.run.status /\ z.run.phase = s.run.phase
      /\ z.run.cp = s.run.cp /\ z.run.plan = s.run.plan /\ z.run.recoveries = s.run.recoveries
      /\ z.run.patch = s.run.patch /\ z.run.used = s.run.used /\ z.run.receipts = s.run.receipts
      /\ z.run.last = s.run.last
  BY <1>6 DEF Alters, RowFields
<1>8. Grounded(z, p)
  BY <1>2, <1>6, <1>7 DEF Grounded, Running, Steered
<1> QED
  BY <1>1, <1>5, <1>6, <1>7, <1>8 DEF Even, Unresolved, Calls, Unmoved

\* The run moves to the cloud.
LEMMA CloudArrives ==
    ASSUME NEW v, NEW s, NEW p, NEW q, NEW r, NEW x, Grounded(s, p), p.r = r, r # NoRouter, Even(s),
           s.run.phase = "local_solver", s.run.policy = "local_first" \/ Planned(s.run.policy),
           s.run.handoff = r.src, s.run.recoveries = 0, Planned(s.run.policy) => s.run.plan,
           s.run.patch.kind # "submitted",
           x = Record([r EXCEPT !.handoffUsed = TRUE, !.state = "cloud"], "escalate", "handoff_confirmed"),
           q.r = x, q.at = "ask", q.phase = "cloud", Calls(s.run) = q.calls, ~q.unsettled
    PROVE  Arrives(v, s, <<Decides(x), PhaseStarts("cloud")>>, q)
<1>1. Formal(s) /\ Running(s.run) /\ s.run.cp = r /\ Steered(r, s.run) /\ ~Unresolved(s.run) /\ ~s.host.pending
  BY DEF Grounded, Even
<1>2. s.run.policy \notin {"local_only", "local_critic_repair"} /\ ~CriticPolicy(s.run)
  BY DEF Planned, CriticPolicy
<1> DEFINE o == [r EXCEPT !.handoffUsed = TRUE, !.state = "cloud"]
<1>3. x = Record(o, "escalate", "handoff_confirmed")
  OBVIOUS
<1>4. /\ DOMAIN o = RouterFields /\ o.handoffUsed /\ o.state = "cloud"
      /\ \A f \in RouterFields \ {"handoffUsed", "state"} : o[f] = r[f]
  BY <1>1 DEF Steered, RouterFields
<1> HIDE DEF o
<1>5. Turns(o, x, Marks) /\ x.seq = o.seq + 1 /\ x.decision = "escalate" /\ x.reason = "handoff_confirmed"
  <2>1. DOMAIN o = RouterFields
    BY <1>4
  <2> QED
    BY ONLY <1>3, <2>1, RecordTurns
<1>6. /\ DOMAIN x = RouterFields /\ x.seq = r.seq + 1 /\ x.state = "cloud" /\ x.policy = r.policy /\ x.calls = r.calls
      /\ x.half = r.half /\ x.start = r.start /\ x.src = r.src /\ x.fails = r.fails /\ x.dups = r.dups
      /\ x.criticUsed = r.criticUsed /\ x.handoffUsed
  BY <1>4, <1>5 DEF Turns, Marks, RouterFields
<1>7. /\ r.src \in Nat /\ r.fails \in Nat /\ r.dups \in Nat /\ r.criticUsed \in BOOLEAN
      /\ r.policy = s.run.policy
  BY <1>1 DEF Steered, Counted
<1>8. Steered(x, s.run)
  <2>1. x.policy # "local_critic_repair"
    BY <1>2, <1>6, <1>7
  <2> QED
    BY <1>1, <1>6, <1>7, <2>1, SameCount
<1>9. RouteOk(s.run, s.host, x)
  <2>1. AdmitsReview(s.run, x) /\ AdmitsSubmission(s.run, x) /\ AdmitsEscalation(s.run, x)
    BY <1>2, <1>5, <1>6 DEF AdmitsReview, AdmitsSubmission, AdmitsEscalation
  <2>2. Allows(x)
    <3>1. Remaining(x) \in Int
      BY <1>8, RemainingInt
    <3> QED
      BY <1>6, <3>1, IdleAllows
  <2> QED
    BY <1>1, <1>2, <1>6, <1>8, <2>1, <2>2, OtherRoutes
<1>10. PICK u : u = After(v, s, Decides(x))
  OBVIOUS
<1>11. /\ Accepts(s, Decides(x)) /\ Rerouted(s, u, x) /\ Grounded(u, q)
       /\ Calls(u.run) = Calls(s.run) /\ Even(u)
  BY <1>1, <1>8, <1>9, <1>10, RouteTaken
<1>12. /\ Formal(u) /\ u.run.policy = s.run.policy /\ u.run.phase = "local_solver" /\ u.run.handoff = r.src
       /\ u.run.recoveries = 0 /\ u.run.cp = x /\ Running(u.run) /\ ~u.host.pending /\ ~Unresolved(u.run)
       /\ u.run.plan = s.run.plan /\ u.run.patch = s.run.patch
  BY <1>11 DEF Rerouted, Even, Grounded
<1> DEFINE y == PhaseStarts("cloud")
<1>13. Accepts(u, y)
  <2>1. CanBeginCloudRecovery(u.run)
    <3>1. HasHandoff(u.run)
      BY <1>7, <1>12 DEF HasHandoff, NoSource
    <3> QED
      BY <1>5, <1>12, <3>1 DEF CanBeginCloudRecovery
  <2>2. PhaseOk(u.run, u.host, "cloud")
    BY <1>12, <2>1 DEF PhaseOk
  <2> QED
    BY <2>2 DEF Accepts, PhaseStarts
<1>14. y.type = "phase" /\ y.phase = "cloud"
  BY DEF PhaseStarts
<1> HIDE DEF y
<1>15. PICK z : z = After(v, u, y)
  OBVIOUS
<1>16. /\ Formal(z) /\ Alters(u.run, z.run, {"phase", "recoveries"}) /\ Tunes(u.host, z.host, {})
       /\ z.run.phase = "cloud_solver" /\ z.run.recoveries = 1
  BY <1>12, <1>14, <1>15, Phases
<1>17. /\ z.run.policy = u.run.policy /\ z.run.status = u.run.status /\ z.run.cp = u.run.cp
       /\ z.run.plan = u.run.plan /\ z.run.handoff = u.run.handoff /\ z.run.patch = u.run.patch
       /\ z.run.used = u.run.used /\ z.run.receipts = u.run.receipts /\ z.run.last = u.run.last
       /\ z.host.pending = u.host.pending
  BY <1>16 DEF Alters, RowFields, Tunes, HostFields
<1>18. Grounded(z, q) /\ Even(z) /\ Calls(z.run) = q.calls
  <2>1. Steered(x, z.run)
    BY <1>8, <1>12, <1>17 DEF Steered
  <2>2. Running(z.run)
    BY <1>12, <1>17 DEF Running
  <2>3. Even(z) /\ Calls(z.run) = Calls(u.run)
    BY <1>11, <1>17 DEF Even, Unresolved, Calls
  <2> QED
    BY <1>11, <1>12, <1>16, <1>17, <2>1, <2>2, <2>3 DEF Grounded
<1>19. Clouding(z, q)
  <2>1. HasHandoff(z.run)
    BY <1>7, <1>12, <1>17 DEF HasHandoff, NoSource
  <2> QED
    BY <1>2, <1>6, <1>12, <1>16, <1>17, <2>1 DEF Clouding
<1>20. Meets(z, v, q)
  <2>1. Requesting(z, q)
    BY <1>18, <1>19 DEF Requesting, RequestPhases
  <2>2. x # NoRouter
    <3>1. x.decision = "escalate" /\ NoRouter.decision = "none"
      BY <1>5 DEF NoRouter
    <3> QED
      BY <3>1
  <2> QED
    BY <1>18, <2>1, <2>2 DEF Meets, Busy
<1>21. Arrives(v, s, <<Decides(x), y>>, q)
  BY <1>10, <1>11, <1>12, <1>13, <1>15, <1>17, <1>20, TwoFollow
<1> QED
  BY <1>21 DEF y

\* The run is handed to the cloud, or ends.
LEMMA HandoffGoes ==
    ASSUME NEW v, NEW t, Heeds(v, t), Handoff
    PROVE  Goes(v, t)
<1>1. w.at = "leave" /\ ~w.cancelled /\ run.policy \notin {"local_only", "local_critic_repair"}
  BY DEF Handoff, Working
<1>2. /\ Grounded(t, w) /\ w.r # NoRouter /\ Calls(t.run) = w.calls /\ ~w.unsettled /\ Leaving(t, w)
      /\ run.policy \in Policies /\ t.run.policy = run.policy
  BY <1>1 DEF Heeds, Meets, Busy
<1>3. /\ Solving(t, w) /\ Even(t) /\ w.r.state = "checkpoint" /\ Empty(t.run) /\ Unmoved(t.run)
      /\ ~w.r.handoffUsed /\ t.run.phase = "local_solver" /\ (Planned(t.run.policy) => t.run.plan)
      /\ Steered(w.r, t.run)
  BY <1>2 DEF Leaving, Solving, Grounded
<1> DEFINE y == [type |-> "handoff", src |-> w.r.src, chk |-> w.r.chk, patch |-> w.live]
<1>4. \E x : /\ \E late \in BOOLEAN : x = ConfirmHandoff(w.r, ~w.unsettled, w.cancelled, ModelCallsLeft, late)
             /\ pipe' = pipe \o (Recovers(w.live) \o <<y, Decides(x)>>
                                 \o (IF x.decision = "escalate" THEN <<PhaseStarts("cloud")>> ELSE <<>>))
             /\ w' = [w EXCEPT !.r = x, !.phase = IF x.decision = "escalate" THEN "cloud" ELSE @,
                               !.at = IF x.decision = "escalate" THEN "ask" ELSE "failing",
                               !.outcome = IF x.decision = "escalate" THEN @ ELSE "failed"]
  BY DEF Handoff, Emit
<1>5. PICK x : /\ \E late \in BOOLEAN : x = ConfirmHandoff(w.r, ~w.unsettled, w.cancelled, ModelCallsLeft, late)
               /\ pipe' = pipe \o (Recovers(w.live) \o <<y, Decides(x)>>
                                   \o (IF x.decision = "escalate" THEN <<PhaseStarts("cloud")>> ELSE <<>>))
               /\ w' = [w EXCEPT !.r = x, !.phase = IF x.decision = "escalate" THEN "cloud" ELSE @,
                                 !.at = IF x.decision = "escalate" THEN "ask" ELSE "failing",
                                 !.outcome = IF x.decision = "escalate" THEN @ ELSE "failed"]
  BY <1>4
<1>6. /\ w'.r = x /\ w'.calls = w.calls /\ w'.unsettled = w.unsettled
      /\ x.decision = "escalate" => w'.at = "ask" /\ w'.phase = "cloud"
      /\ x.decision # "escalate" => w'.at = "failing"
  BY <1>5 DEF Heeds, Shaped, WorkerFields
<1> DEFINE last == Record([w.r EXCEPT !.handoffUsed = TRUE, !.state = "cloud"], "escalate", "handoff_confirmed")
<1>7. x = last \/ \E reason \in Plainly : x = Stop(w.r, reason)
  <2>1. PICK late \in BOOLEAN : x = ConfirmHandoff(w.r, ~w.unsettled, w.cancelled, ModelCallsLeft, late)
    BY <1>5
  <2>2. x \in {last, Stop(w.r, "insufficient_model_calls"), Stop(w.r, "insufficient_handoff_time")}
    BY <1>1, <1>2, <2>1 DEF ConfirmHandoff
  <2> HIDE DEF last
  <2> QED
    BY <2>2 DEF Plainly
<1>8. last.decision = "escalate"
  BY <1>3 DEF Record, Steered, RouterFields
<1>9. \A reason : Stop(w.r, reason).decision = "stop"
  <2>1. DOMAIN w.r = RouterFields
    BY <1>3 DEF Steered
  <2> QED
    BY <2>1, StopTurns
<1>90. /\ x.decision = "escalate" => x = last
       /\ x.decision # "escalate" => \E reason \in Plainly : x = Stop(w.r, reason)
  <2> HIDE DEF last
  <2> QED
    BY <1>7, <1>8, <1>9
<1>10. PICK more : more = IF x.decision = "escalate" THEN <<PhaseStarts("cloud")>> ELSE <<>>
  OBVIOUS
<1>11. IsPipe(<<y, Decides(x)>>) /\ IsPipe(more) /\ pipe' = pipe \o ((Recovers(w.live) \o <<y, Decides(x)>>) \o more)
  BY <1>5, <1>10, Pairs, Single
<1>12. ASSUME NEW z, Grounded(z, w), z.host = t.host, Alters(t.run, z.run, {"patch", "checks"}),
              z.run.patch.kind # "submitted", z.run.patch.src = w.live
       PROVE  Arrives(v, z, <<y, Decides(x)>> \o more, w')
  <2>1. /\ z.run.policy = t.run.policy /\ z.run.phase = t.run.phase /\ z.run.handoff = t.run.handoff
        /\ z.run.recoveries = t.run.recoveries /\ z.run.plan = t.run.plan
        /\ z.run.used = t.run.used /\ z.run.receipts = t.run.receipts /\ z.run.last = t.run.last
    BY <1>12, PatchRest
  <2>2. Even(z) /\ Unmoved(z.run) /\ Calls(z.run) = Calls(t.run)
    BY <1>3, <1>12, <2>1 DEF Even, Unresolved, Unmoved, Calls
  <2>3. y = [type |-> "handoff", src |-> w.r.src, chk |-> w.r.chk, patch |-> z.run.patch.src]
    BY <1>12
  <2> HIDE DEF y
  <2>4. PICK s : s = After(v, z, y)
    OBVIOUS
  <2>5. /\ Accepts(z, y) /\ Grounded(s, w) /\ Even(s) /\ s.run.policy = z.run.policy /\ s.run.phase = z.run.phase
        /\ s.run.handoff = w.r.src /\ s.run.recoveries = 0 /\ s.run.plan = z.run.plan
        /\ s.run.patch = z.run.patch /\ Calls(s.run) = Calls(z.run)
        /\ z.run.policy = "local_first" \/ Planned(z.run.policy)
    BY <1>1, <1>2, <1>3, <1>12, <2>1, <2>2, <2>3, <2>4, HandedOver
  <2>6. CASE x.decision = "escalate"
    <3>1. Arrives(v, s, <<Decides(x), PhaseStarts("cloud")>>, w')
      <4>1. /\ Grounded(s, w) /\ w.r # NoRouter /\ Even(s) /\ s.run.phase = "local_solver"
            /\ s.run.policy = "local_first" \/ Planned(s.run.policy)
            /\ s.run.handoff = w.r.src /\ s.run.recoveries = 0 /\ (Planned(s.run.policy) => s.run.plan)
            /\ s.run.patch.kind # "submitted"
        BY <1>2, <1>3, <1>12, <2>1, <2>5
      <4>2. x = last
        BY <1>90, <2>6
      <4>3. /\ w'.r = x /\ w'.at = "ask" /\ w'.phase = "cloud" /\ ~w'.unsettled
            /\ Calls(s.run) = w'.calls
        BY <1>2, <1>6, <2>2, <2>5, <2>6
      <4> QED
        BY ONLY <4>1, <4>2, <4>3, CloudArrives
    <3>2. Arrives(v, z, <<y, Decides(x), PhaseStarts("cloud")>>, w')
      BY <2>4, <2>5, <3>1, ThreeFollow
    <3> QED
      BY <1>10, <2>6, <3>2, Triples
  <2>7. CASE x.decision # "escalate"
    <3>1. PICK reason \in Plainly : x = Stop(w.r, reason)
      BY <1>90, <2>7
    <3>2. Grounded(s, [r |-> w.r])
      BY <2>5, BaseKept
    <3>3. Arrives(v, s, <<Decides(w'.r)>>, w')
      BY <1>3, <1>6, <2>7, <3>1, <3>2, StopArrives
    <3>4. Arrives(v, z, <<y>> \o <<Decides(x)>>, w')
      BY <1>6, <2>4, <2>5, <3>3, Single, ThenFollows
    <3> QED
      BY <1>10, <1>11, <2>7, <3>4, Pairs, Silence
  <2> QED
    BY <2>6, <2>7
<1> HIDE DEF y
<1>13. Arrives(v, t, (Recovers(w.live) \o <<y, Decides(x)>>) \o more, w')
  <2>1. t.run.patch.kind # "submitted" /\ t.run.patch.src = Base
    BY <1>3 DEF Empty
  <2>2. \A z : /\ Grounded(z, w) /\ z.host = t.host /\ Alters(t.run, z.run, {"patch", "checks"})
               /\ z.run.patch.kind # "submitted" /\ z.run.patch.src = w.live
               => Arrives(v, z, <<y, Decides(x)>> \o more, w')
    BY <1>12
  <2> QED
    BY <1>2, <1>11, <2>1, <2>2, KeptArrives
<1>14. IsPipe((Recovers(w.live) \o <<y, Decides(x)>>) \o more)
  <2>1. IsPipe(Recovers(w.live))
    BY Single DEF Recovers
  <2>2. IsPipe(Recovers(w.live) \o <<y, Decides(x)>>)
    BY <1>11, <2>1, Joined DEF Joins
  <2> QED
    BY <1>11, <2>2, Joined DEF Joins
<1> QED
  BY <1>11, <1>13, <1>14 DEF Goes, Follows

\* The critic's request may be made.
LEMMA CriticStartsGoes ==
    ASSUME NEW v, NEW t, Heeds(v, t), CriticStarts
    PROVE  Goes(v, t)
<1> DEFINE y == PhaseStarts("critic")
<1>1. w.at = "context"
  BY DEF CriticStarts, Working
<1>2. /\ Grounded(t, w) /\ w.r # NoRouter /\ Calls(t.run) = w.calls /\ ~w.unsettled /\ Freezing(t, w)
  BY <1>1 DEF Heeds, Meets, Busy
<1>3. /\ Steered(w.r, t.run) /\ Formal(t) /\ Running(t.run) /\ t.run.cp = w.r /\ DOMAIN w.r = RouterFields
      /\ w.r.src \in Nat /\ w.r.fails \in Nat /\ w.r.dups \in Nat /\ w.r.seq \in Nat \ {0}
      /\ w.r.calls \in Nat /\ w.r.policy = t.run.policy
  BY <1>2 DEF Grounded, Steered, Counted
<1>4. /\ CriticPolicy(t.run) /\ w.r.state = "critic" /\ ~w.r.pending /\ w.r.half = "draft"
      /\ w.r.chk # NoSource /\ Sound(w.r, t.run) /\ w.live = w.r.src /\ t.host.action = "none"
      /\ Within(w.r) /\ ~t.host.granted /\ t.run.used["local"] = w.r.calls
      /\ Empty(t.run) /\ Unmoved(t.run) /\ ~t.host.final
      /\ Even(t) /\ t.run.phase = "local_solver" /\ t.run.verdict = "none"
      /\ ~w.r.criticUsed /\ w.r.reason = "critic_required" /\ t.run.used["critic"] = 0
      /\ t.run.draft = w.r.src /\ t.run.draftCalls = w.r.calls /\ t.host.context
      /\ ~Unresolved(t.run) /\ ~t.host.pending
  BY <1>1, <1>2 DEF Freezing, Drafted, Frozen, Even
<1> DEFINE o == [w.r EXCEPT !.criticUsed = TRUE]
<1>5. PICK x : x = Record(o, "continue", "critic_request_started")
  OBVIOUS
<1>6. /\ pipe' = pipe \o <<Decides(x), y>> /\ w'.r = x /\ w'.at = "ask" /\ w'.phase = "critic"
      /\ w'.calls = w.calls /\ w'.unsettled = w.unsettled /\ w'.live = w.live
  BY <1>5 DEF CriticStarts, MarkCriticStarted, Emit, Heeds, Shaped, WorkerFields
<1>7. /\ DOMAIN o = RouterFields /\ o.criticUsed = TRUE
      /\ \A f \in RouterFields \ {"criticUsed"} : o[f] = w.r[f]
  BY <1>3 DEF RouterFields
<1> HIDE DEF o, y
<1>8. Turns(o, x, Marks) /\ x.seq = o.seq + 1 /\ x.decision = "continue" /\ x.reason = "critic_request_started"
  BY <1>5, <1>7, RecordTurns
<1>9. /\ DOMAIN x = RouterFields /\ x.seq = w.r.seq + 1 /\ x.policy = w.r.policy /\ x.state = w.r.state
      /\ x.pending = w.r.pending /\ x.calls = w.r.calls /\ x.half = w.r.half /\ x.start = w.r.start
      /\ x.src = w.r.src /\ x.chk = w.r.chk /\ x.fails = w.r.fails /\ x.dups = w.r.dups
      /\ x.criticUsed = TRUE /\ x.handoffUsed = w.r.handoffUsed
  BY <1>7, <1>8 DEF Turns, Marks, RouterFields
<1>10. Steered(x, t.run)
  <2>1. w.r.policy = "local_critic_repair" => ~w.r.handoffUsed
    BY <1>3 DEF Steered, Counted
  <2>2. x.criticUsed \in BOOLEAN
    BY <1>9
  <2> QED
    BY <1>3, <1>4, <1>9, <2>1, <2>2, SameCount
<1>11. RouteOk(t.run, t.host, x)
  <2>1. AdmitsSubmission(t.run, x)
    BY <1>8 DEF AdmitsSubmission
  <2>2. OrderOk(t.run, t.host, x)
    BY <1>3, <1>4, <1>8, <1>9 DEF OrderOk
  <2>3. CriticCounters(t.run, x)
    <3>1. x.calls = w.r.calls + 0
      BY <1>3, <1>9
    <3>2. x.criticUsed = (w.r.criticUsed \/ x.reason = "critic_request_started")
      BY <1>8, <1>9
    <3>3. x.reason # "local_request_started" /\ x.reason # "critic_repair_required"
      BY <1>8
    <3> QED
      BY <1>3, <1>4, <1>9, <3>1, <3>2, <3>3 DEF CriticCounters
  <2>4. CriticSteps(t.run, x)
    BY <1>3, <1>4, <1>8, <1>9 DEF CriticSteps
  <2>5. Allows(x)
    <3>1. Remaining(x) \in Int
      BY <1>10, RemainingInt
    <3> QED
      BY <1>4, <1>9, <3>1, IdleAllows
  <2> QED
    BY <1>3, <1>4, <1>8, <1>9, <1>10, <2>1, <2>2, <2>3, <2>4, <2>5, CriticRoutes
<1>12. PICK u : u = After(v, t, Decides(x))
  OBVIOUS
<1>13. /\ Accepts(t, Decides(x)) /\ Rerouted(t, u, x) /\ Grounded(u, w')
       /\ Calls(u.run) = Calls(t.run) /\ Even(u)
  BY <1>3, <1>4, <1>6, <1>10, <1>11, <1>12, RouteTaken
<1>14. /\ u.run.policy = t.run.policy /\ u.run.phase = "local_solver" /\ u.run.cp = x /\ Running(u.run)
       /\ u.run.draft = w.r.src /\ u.run.draftCalls = w.r.calls /\ u.run.verdict = "none" /\ u.host.context
       /\ ~u.host.granted /\ ~u.host.final /\ u.host.action = "none" /\ u.run.used = t.run.used
       /\ u.run.patch = t.run.patch /\ u.run.checks = t.run.checks /\ u.run.recoveries = t.run.recoveries
       /\ u.run.handoff = t.run.handoff /\ ~u.host.pending /\ ~Unresolved(u.run)
       /\ u.run.check.src = t.run.check.src /\ u.run.check.after = t.run.check.after
       /\ u.run.check.passed = t.run.check.passed
  BY <1>4, <1>13 DEF Rerouted, Grounded, Even
<1>15. PhaseOk(u.run, u.host, "critic")
  <2>1. w.r.src # NoSource
    BY <1>3 DEF NoSource
  <2>2. CanSetPhase(u.run, "cloud_critic")
    BY <1>8, <1>14, <2>1 DEF CanSetPhase
  <2> QED
    BY <1>14, <2>2 DEF PhaseOk
<1>16. PICK z : z = After(v, u, PhaseStarts("critic"))
  OBVIOUS
<1>17. /\ Accepts(u, PhaseStarts("critic")) /\ Grounded(z, w')
       /\ Alters(u.run, z.run, {"phase"}) /\ Tunes(u.host, z.host, {"granted"})
       /\ z.run.phase = StorePhase["critic"] /\ ~z.host.granted
       /\ Calls(z.run) = Calls(u.run) /\ Even(z)
  <2>1. /\ Accepts(u, PhaseStarts("critic")) /\ Grounded(z, w')
        /\ Alters(u.run, z.run, {"phase"}) /\ Tunes(u.host, z.host, {"granted"})
        /\ z.run.phase = StorePhase["critic"]
        /\ z.host.granted = (u.host.granted \/ ("critic" = "local" /\ RepairOk(u.run, u.host)))
        /\ Calls(z.run) = Calls(u.run) /\ (Even(u) => Even(z))
    BY <1>13, <1>15, <1>16, PhaseTaken
  <2> QED
    BY <1>13, <1>14, <2>1
<1>18. /\ z.run.policy = u.run.policy /\ z.run.cp = u.run.cp /\ z.run.check = u.run.check
       /\ z.run.handoff = u.run.handoff /\ z.run.recoveries = u.run.recoveries
       /\ z.run.draft = u.run.draft /\ z.run.draftCalls = u.run.draftCalls /\ z.run.verdict = u.run.verdict
       /\ z.run.patch = u.run.patch /\ z.run.checks = u.run.checks /\ z.run.used = u.run.used
       /\ z.host.action = u.host.action /\ z.host.context = u.host.context /\ z.host.final = u.host.final
  BY <1>17, PhaseRest
<1>19. Drafted(z, w')
  <2>1. Sound(x, z.run)
    BY <1>4, <1>9, <1>14, <1>18 DEF Sound
  <2>2. CriticPolicy(z.run) /\ Empty(z.run) /\ Unmoved(z.run) /\ z.run.used["local"] = x.calls /\ Within(x)
    BY <1>4, <1>9, <1>14, <1>18 DEF CriticPolicy, Empty, Unmoved, Within
  <2> QED
    BY <1>4, <1>6, <1>9, <1>14, <1>17, <1>18, <2>1, <2>2 DEF Drafted
<1>20. Reviewing(z, w') /\ z.run.verdict = "none"
  BY <1>4, <1>6, <1>8, <1>9, <1>14, <1>17, <1>18, <1>19 DEF Reviewing, Frozen, StorePhase
<1>21. Requesting(z, w')
  BY <1>6, <1>17, <1>20 DEF Requesting, RequestPhases
<1>22. Meets(z, v, w')
  <2>1. x # NoRouter
    BY <1>4, <1>9 DEF NoRouter
  <2> QED
    BY <1>2, <1>6, <1>13, <1>17, <1>21, <2>1 DEF Meets, Busy
<1>23. Arrives(v, t, <<Decides(x), PhaseStarts("critic")>>, w')
  <2>1. u.run.policy = t.run.policy /\ z.run.policy = u.run.policy
    BY <1>14, <1>18
  <2> QED
    BY <1>12, <1>13, <1>16, <1>17, <1>22, <2>1, TwoFollow
<1> QED
  BY <1>6, <1>23, PairGoes DEF y

\* What the router makes of the critic's verdict.
Reviews(r, x, v) ==
    /\ DOMAIN x = RouterFields /\ x.seq = r.seq + 1 /\ x.policy = r.policy /\ ~x.pending /\ x.calls = r.calls
    /\ x.src = r.src /\ x.fails = r.fails /\ x.criticUsed = r.criticUsed /\ x.handoffUsed = r.handoffUsed
    /\ x.reason = VerdictReason[v]
    /\ v # "repair_required" => x.half = r.half /\ x.start = r.start /\ x.dups = r.dups
    /\ v = "insufficient_context" => x.state = "stopped" /\ x.decision = "stop" /\ x.chk = NoSource
    /\ v = "acceptable" => x.state = "submitted" /\ x.decision = "submit" /\ x.chk = r.chk
    /\ v = "repair_required" =>
         /\ x.state = "local" /\ x.decision = "continue" /\ x.chk = NoSource
         /\ x.half = "repair" /\ x.start = r.calls /\ x.dups = 0

\* The critic's verdict ends the review as the router reads it.
LEMMA VerdictJudges ==
    ASSUME NEW r, NEW c, NEW x, NEW v \in Verdicts, NEW q, Steered(r, c), CriticPolicy(c),
           ~r.pending, ~q.unsettled, ~q.cancelled, x = MarkCriticComplete(r, v, ~q.unsettled, q.cancelled)
    PROVE  Reviews(r, x, v)
<1> DEFINE known == [r EXCEPT !.receipt = TRUE]
           submitted == [known EXCEPT !.state = "submitted"]
           repair == [known EXCEPT !.half = "repair", !.start = r.calls, !.chk = NoSource,
                                   !.dups = 0, !.state = "local"]
<1>1. DOMAIN r = RouterFields /\ r.policy = "local_critic_repair"
  BY DEF Steered, CriticPolicy
<1>2. /\ v = "insufficient_context" => x = Stop(known, "critic_insufficient_context")
      /\ v = "acceptable" => x = Record(submitted, "submit", "critic_acceptable")
      /\ v = "repair_required" => x = Record(repair, "continue", "critic_repair_required")
  BY DEF MarkCriticComplete
<1>3. /\ DOMAIN known = RouterFields /\ \A f \in RouterFields \ {"receipt"} : known[f] = r[f]
  BY <1>1 DEF RouterFields
<1>4. /\ DOMAIN submitted = RouterFields /\ submitted.state = "submitted"
      /\ \A f \in RouterFields \ {"receipt", "state"} : submitted[f] = r[f]
  BY <1>1 DEF RouterFields
<1>5. /\ DOMAIN repair = RouterFields /\ repair.state = "local" /\ repair.half = "repair" /\ repair.start = r.calls
      /\ repair.chk = NoSource /\ repair.dups = 0
      /\ \A f \in RouterFields \ {"receipt", "state", "half", "start", "chk", "dups"} : repair[f] = r[f]
  BY <1>1 DEF RouterFields
<1>6. VerdictReason["acceptable"] = "critic_acceptable" /\ VerdictReason["repair_required"] = "critic_repair_required"
      /\ VerdictReason["insufficient_context"] = "critic_insufficient_context"
  BY DEF VerdictReason
<1> HIDE DEF known, submitted, repair
<1>7. CASE v = "insufficient_context"
  <2>1. /\ Turns(known, x, Halt) /\ x.seq = known.seq + 1
        /\ x.decision = "stop" /\ x.reason = "critic_insufficient_context"
        /\ x.state = "stopped" /\ ~x.pending
        /\ x.chk = IF known.policy = "local_critic_repair" THEN NoSource ELSE known.chk
    <3>1. DOMAIN known = RouterFields /\ x = Stop(known, "critic_insufficient_context")
      BY <1>2, <1>3, <1>7
    <3> QED
      BY ONLY <3>1, StopTurns
  <2> QED
    BY <1>1, <1>3, <1>6, <1>7, <2>1 DEF Reviews, Turns, Halt, RouterFields
<1>8. CASE v = "acceptable"
  <2>1. Turns(submitted, x, Marks) /\ x.seq = submitted.seq + 1 /\ x.decision = "submit" /\ x.reason = "critic_acceptable"
    <3>1. DOMAIN submitted = RouterFields /\ x = Record(submitted, "submit", "critic_acceptable")
      BY <1>2, <1>4, <1>8
    <3> QED
      BY ONLY <3>1, RecordTurns
  <2>2. /\ x.pending = r.pending /\ x.policy = r.policy /\ x.calls = r.calls /\ x.src = r.src /\ x.fails = r.fails
        /\ x.criticUsed = r.criticUsed /\ x.handoffUsed = r.handoffUsed /\ x.half = r.half /\ x.start = r.start
        /\ x.dups = r.dups /\ x.chk = r.chk /\ x.state = "submitted" /\ x.seq = r.seq + 1 /\ DOMAIN x = RouterFields
    BY <1>4, <2>1 DEF Turns, Marks, RouterFields
  <2> QED
    BY <1>6, <1>8, <2>1, <2>2 DEF Reviews
<1>9. CASE v = "repair_required"
  <2>1. Turns(repair, x, Marks) /\ x.seq = repair.seq + 1 /\ x.decision = "continue" /\ x.reason = "critic_repair_required"
    <3>1. DOMAIN repair = RouterFields /\ x = Record(repair, "continue", "critic_repair_required")
      BY <1>2, <1>5, <1>9
    <3> QED
      BY ONLY <3>1, RecordTurns
  <2>2. /\ x.pending = r.pending /\ x.policy = r.policy /\ x.calls = r.calls /\ x.src = r.src /\ x.fails = r.fails
        /\ x.criticUsed = r.criticUsed /\ x.handoffUsed = r.handoffUsed /\ x.half = "repair" /\ x.start = r.calls
        /\ x.dups = 0 /\ x.chk = NoSource /\ x.state = "local" /\ x.seq = r.seq + 1 /\ DOMAIN x = RouterFields
    BY <1>5, <2>1 DEF Turns, Marks, RouterFields
  <2> QED
    BY <1>6, <1>9, <2>1, <2>2 DEF Reviews
<1> QED
  BY <1>7, <1>8, <1>9 DEF Verdicts

\* The checkpoint behind the verdict is one the host accepts.
LEMMA VerdictRoutes ==
    ASSUME NEW v \in Verdicts, NEW t, NEW x, Grounded(t, w), w.r # NoRouter, Judging(t, v, w), Reviews(w.r, x, v)
    PROVE  RouteOk(t.run, t.host, x) /\ Steered(x, t.run)
<1>1. /\ Steered(w.r, t.run) /\ Formal(t) /\ Running(t.run) /\ t.run.cp = w.r /\ DOMAIN w.r = RouterFields
      /\ w.r.src \in Nat /\ w.r.fails \in Nat /\ w.r.dups \in Nat /\ w.r.seq \in Nat \ {0}
      /\ w.r.calls \in Nat /\ w.r.policy = t.run.policy /\ w.r.criticUsed \in BOOLEAN
  BY DEF Grounded, Steered, Counted
<1>2. /\ CriticPolicy(t.run) /\ w.r.state = "critic" /\ w.r.half = "draft"
      /\ w.r.chk # NoSource /\ Sound(w.r, t.run) /\ t.run.phase = "cloud_critic"
      /\ t.run.draft = w.r.src /\ w.r.criticUsed /\ w.r.reason = "critic_request_started"
      /\ t.run.verdict = v /\ ~Unresolved(t.run)
  BY DEF Judging, Reviewing, Drafted, Frozen, Even
<1>3. /\ DOMAIN x = RouterFields /\ x.seq = w.r.seq + 1 /\ x.policy = w.r.policy /\ ~x.pending /\ x.calls = w.r.calls
      /\ x.src = w.r.src /\ x.fails = w.r.fails /\ x.criticUsed = w.r.criticUsed /\ x.handoffUsed = w.r.handoffUsed
      /\ x.reason = VerdictReason[v]
      /\ v # "repair_required" => x.half = w.r.half /\ x.start = w.r.start /\ x.dups = w.r.dups
      /\ v = "insufficient_context" => x.state = "stopped" /\ x.decision = "stop" /\ x.chk = NoSource
      /\ v = "acceptable" => x.state = "submitted" /\ x.decision = "submit" /\ x.chk = w.r.chk
      /\ v = "repair_required" =>
           /\ x.state = "local" /\ x.decision = "continue" /\ x.chk = NoSource
           /\ x.half = "repair" /\ x.start = w.r.calls /\ x.dups = 0
  BY DEF Reviews
<1>4. /\ v = "acceptable" \/ v = "repair_required" \/ v = "insufficient_context"
      /\ v = "acceptable" => x.reason = "critic_acceptable"
      /\ v = "repair_required" => x.reason = "critic_repair_required"
      /\ v = "insufficient_context" => x.reason = "critic_insufficient_context"
  BY <1>3 DEF Verdicts, VerdictReason
<1>5. w.r.policy = "local_critic_repair" /\ ~w.r.handoffUsed
  BY <1>1, <1>2 DEF CriticPolicy, Steered, Counted
<1>6. Steered(x, t.run)
  <2>1. CASE v # "repair_required"
    <3>1. x.state \notin {"planner", "cloud"} /\ x.half = w.r.half /\ x.start = w.r.start /\ x.dups = w.r.dups
      BY <1>3, <1>4, <2>1
    <3> QED
      BY <1>1, <1>3, <1>5, <3>1, SameCount
  <2>2. CASE v = "repair_required"
    <3>1. /\ x.state = "local" /\ x.chk = NoSource /\ x.half = "repair" /\ x.start = w.r.calls /\ x.dups = 0
      BY <1>3, <2>2
    <3>2. w.r.calls <= DraftLimit
      <4>1. CallLimit(w.r) = DraftLimit
        BY <1>2, <1>5 DEF CallLimit
      <4>2. w.r.start = 0 /\ Remaining(w.r) >= 0
        BY <1>1, <1>2 DEF Steered, Counted
      <4> QED
        BY <1>1, <4>1, <4>2, RouterAssumption DEF Remaining, PhaseCalls
    <3>3. Remaining(x) >= 0
      <4>1. CallLimit(x) = RepairLimit
        BY <1>3, <1>5, <3>1 DEF CallLimit
      <4> QED
        BY <1>1, <1>3, <3>1, <4>1, RouterAssumption DEF Remaining, PhaseCalls
    <3>4. /\ x.calls \in Nat /\ x.start \in Nat /\ x.src \in Nat /\ x.fails \in Nat /\ x.dups \in Nat
          /\ x.start <= x.calls /\ x.start <= DraftLimit /\ x.seq \in Nat \ {0}
      BY <1>1, <1>3, <3>1, <3>2
    <3>5. Counted(x)
      BY <1>1, <1>2, <1>3, <1>5, <3>1, <3>3, <3>4 DEF Counted
    <3> QED
      BY <1>1, <1>3, <3>4, <3>5 DEF Steered
  <2> QED
    BY <2>1, <2>2
<1>7. AdmitsSubmission(t.run, x)
  <2>1. ASSUME x.decision = "submit" PROVE v = "acceptable"
    BY <1>3, <1>4, <2>1
  <2> QED
    BY <1>1, <1>2, <1>3, <2>1 DEF AdmitsSubmission, Sound
<1>8. OrderOk(t.run, t.host, x)
  <2>1. t.run.phase # "local_solver" /\ x.reason # "finish_required"
    BY <1>2, <1>4
  <2> QED
    BY <1>3, <1>4, <2>1 DEF OrderOk
<1>9. CriticCounters(t.run, x)
  <2>1. x.calls = w.r.calls + 0
    BY <1>1, <1>3
  <2>2. x.reason # "local_request_started" /\ x.reason # "critic_request_started"
    BY <1>4
  <2>3. x.criticUsed = (w.r.criticUsed \/ x.reason = "critic_request_started")
    BY <1>1, <1>3, <2>2
  <2>4. x.chk \in {NoSource, w.r.chk}
    BY <1>3, <1>4
  <2>5. x.reason # "critic_repair_required" => x.half = w.r.half /\ x.start = w.r.start
    BY <1>3, <1>4
  <2> QED
    BY <1>1, <1>2, <1>3, <2>1, <2>2, <2>3, <2>4, <2>5 DEF CriticCounters
<1>10. CriticSteps(t.run, x)
  <2>1. x.reason = VerdictReason[t.run.verdict]
    BY <1>2, <1>3
  <2>2. x.reason = "critic_repair_required" =>
          x.half = "repair" /\ PhaseCalls(x) = 0 /\ x.chk = NoSource /\ x.state = "local"
    <3>1. ASSUME x.reason = "critic_repair_required" PROVE v = "repair_required"
      BY <1>4, <3>1
    <3>2. v = "repair_required" => x.calls - x.start = 0
      BY <1>1, <1>3
    <3> QED
      BY <1>3, <3>1, <3>2 DEF PhaseCalls
  <2>3. x.reason \in {"critic_acceptable", "critic_repair_required", "critic_insufficient_context"}
    BY <1>4
  <2> QED
    BY <1>1, <1>2, <1>3, <2>1, <2>2, <2>3 DEF CriticSteps
<1>11. Allows(x)
  <2>1. Remaining(x) \in Int
    BY <1>6, RemainingInt
  <2>2. x.reason # "local_request_started"
    BY <1>4
  <2> QED
    BY <1>3, <2>1, <2>2, IdleAllows
<1>12. x.decision = "submit" => x.reason = "critic_acceptable" /\ t.run.verdict = "acceptable"
  BY <1>2, <1>3, <1>4
<1>13. x.decision # "escalate" /\ x.reason \notin {"review_required", "review_time_reserve"}
  BY <1>3, <1>4
<1> QED
  BY <1>1, <1>2, <1>3, <1>6, <1>7, <1>8, <1>9, <1>10, <1>11, <1>12, <1>13, CriticRoutes

\* The verdict is read.
LEMMA VerdictGoes ==
    ASSUME NEW v \in Verdicts, NEW t, Heeds(v, t), VerdictRead, Head(inbox).verdict = v
    PROVE  Goes(v, t)
<1> DEFINE y == PhaseStarts("local")
<1>1. w.at = "verdict" /\ ~w.cancelled
  BY DEF VerdictRead, Working
<1>2. /\ Grounded(t, w) /\ w.r # NoRouter /\ Calls(t.run) = w.calls /\ ~w.unsettled /\ Judging(t, v, w)
  BY <1>1 DEF Heeds, Meets, Busy
<1>3. /\ Steered(w.r, t.run) /\ Formal(t) /\ Running(t.run) /\ t.run.cp = w.r /\ DOMAIN w.r = RouterFields
      /\ w.r.src \in Nat /\ w.r.calls \in Nat /\ w.r.policy = t.run.policy
  BY <1>2 DEF Grounded, Steered, Counted
<1>4. /\ CriticPolicy(t.run) /\ w.r.state = "critic" /\ ~w.r.pending /\ w.r.half = "draft"
      /\ Sound(w.r, t.run) /\ w.live = w.r.src /\ t.host.action = "none"
      /\ Within(w.r) /\ ~t.host.granted /\ t.run.used["local"] = w.r.calls
      /\ Empty(t.run) /\ Unmoved(t.run) /\ ~t.host.final
      /\ Even(t) /\ t.run.phase = "cloud_critic" /\ t.run.verdict = v /\ t.run.criticCurrent
      /\ t.run.draft = w.r.src /\ t.run.draftCalls = w.r.calls /\ w.r.criticUsed
      /\ ~Unresolved(t.run) /\ ~t.host.pending
  BY <1>2 DEF Judging, Reviewing, Drafted, Frozen, Even
<1>5. PICK x : x = MarkCriticComplete(w.r, v, ~w.unsettled, w.cancelled)
  OBVIOUS
<1>6. Reviews(w.r, x, v)
  <2>1. /\ v \in Verdicts /\ Steered(w.r, t.run) /\ CriticPolicy(t.run) /\ ~w.r.pending /\ ~w.unsettled
        /\ ~w.cancelled /\ x = MarkCriticComplete(w.r, v, ~w.unsettled, w.cancelled)
    BY <1>1, <1>2, <1>3, <1>4, <1>5
  <2> QED
    BY ONLY <2>1, VerdictJudges
<1>7. /\ pipe' = pipe \o (<<Decides(x)>> \o (IF x.decision = "continue" THEN <<y>> ELSE <<>>))
      /\ w' = [w EXCEPT !.r = x, !.phase = IF x.decision = "continue" THEN "local" ELSE @,
                        !.at = CASE x.decision = "continue" -> "loop"
                                 [] x.decision = "submit" -> "finish"
                                 [] OTHER -> "failing",
                        !.outcome = IF x.decision = "stop" THEN "failed" ELSE @]
  BY <1>5 DEF VerdictRead, Emit
<1> HIDE DEF y
<1>8. /\ w'.r = x /\ w'.calls = w.calls /\ w'.unsettled = w.unsettled /\ w'.live = w.live
      /\ x.decision = "continue" => w'.at = "loop" /\ w'.phase = "local"
      /\ x.decision = "submit" => w'.at = "finish"
      /\ x.decision = "stop" => w'.at = "failing"
  BY <1>7 DEF Heeds, Shaped, WorkerFields
<1>9. RouteOk(t.run, t.host, x) /\ Steered(x, t.run)
  BY <1>2, <1>6, VerdictRoutes
<1>10. PICK u : u = After(v, t, Decides(x))
  OBVIOUS
<1>11. /\ Accepts(t, Decides(x)) /\ Rerouted(t, u, x) /\ Grounded(u, w')
       /\ Calls(u.run) = Calls(t.run) /\ Even(u)
  BY <1>3, <1>4, <1>8, <1>9, <1>10, RouteTaken
<1>12. /\ u.run.policy = t.run.policy /\ u.run.phase = "cloud_critic" /\ u.run.cp = x
       /\ u.run.draft = w.r.src /\ u.run.draftCalls = w.r.calls /\ u.run.verdict = v
       /\ ~u.host.granted /\ ~u.host.final /\ u.host.action = "none" /\ u.run.used = t.run.used
       /\ Empty(u.run) /\ Unmoved(u.run) /\ ~u.host.pending /\ ~Unresolved(u.run)
       /\ u.run.criticCurrent <=> CurrentBy(t.run, x)
  BY <1>4, <1>11 DEF Rerouted, Even, Empty, Unmoved
<1>13. Running(u.run) /\ CriticPolicy(u.run)
  BY <1>4, <1>11, <1>12 DEF Grounded, CriticPolicy
<1>14. CASE v = "insufficient_context"
  <2>1. x.decision = "stop"
    BY <1>6, <1>14 DEF Reviews
  <2>2. Meets(u, v, w')
    BY <1>8, <1>11, <2>1, MeetsFailing
  <2>3. Arrives(v, t, <<Decides(x)>>, w')
    BY <1>10, <1>11, <1>12, <2>2, OneFollows
  <2>4. pipe' = pipe \o <<Decides(x)>>
    BY <1>7, <2>1, Single, Silence
  <2> QED
    BY <2>3, <2>4, WordGoes
<1>15. CASE v = "acceptable"
  <2>1. x.decision = "submit" /\ x.reason = "critic_acceptable" /\ x.src = w.r.src
    BY <1>6, <1>15 DEF Reviews, VerdictReason
  <2>2. u.run.criticCurrent
    BY <1>4, <1>12, <2>1 DEF CurrentBy
  <2>3. Finishing(u, w')
    BY <1>4, <1>8, <1>11, <1>12, <1>13, <1>15, <2>1, <2>2 DEF Finishing, Empty
  <2>4. Meets(u, v, w')
    BY <1>8, <1>11, <2>1, <2>3 DEF Meets, Busy
  <2>5. Arrives(v, t, <<Decides(x)>>, w')
    BY <1>10, <1>11, <1>12, <2>4, OneFollows
  <2>6. pipe' = pipe \o <<Decides(x)>>
    BY <1>7, <2>1, Single, Silence
  <2> QED
    BY <2>5, <2>6, WordGoes
<1>16. CASE v = "repair_required"
  <2>1. /\ x.decision = "continue" /\ x.reason = "critic_repair_required" /\ x.src = w.r.src /\ x.state = "local"
        /\ x.chk = NoSource /\ x.half = "repair" /\ x.start = w.r.calls /\ x.dups = 0 /\ ~x.pending
        /\ x.calls = w.r.calls /\ x.fails = w.r.fails
    BY <1>6, <1>16 DEF Reviews, VerdictReason
  <2>2. ~u.run.criticCurrent
    BY <1>12, <2>1 DEF CurrentBy
  <2>3. RepairOk(u.run, u.host)
    BY <1>12, <1>13, <1>16, <2>1 DEF RepairOk
  <2>4. PhaseOk(u.run, u.host, "local")
    <3>1. CanSetPhase(u.run, "local_solver")
      BY <1>12, <1>13, <1>16, <2>1 DEF CanSetPhase
    <3>2. ~Planned(u.run.policy)
      BY <1>13 DEF CriticPolicy, Planned
    <3> QED
      BY <1>12, <2>3, <3>1, <3>2 DEF PhaseOk
  <2>5. PICK z : z = After(v, u, PhaseStarts("local"))
    OBVIOUS
  <2>6. /\ Accepts(u, PhaseStarts("local")) /\ Grounded(z, w')
        /\ Alters(u.run, z.run, {"phase"}) /\ Tunes(u.host, z.host, {"granted"})
        /\ z.run.phase = StorePhase["local"] /\ z.host.granted
        /\ Calls(z.run) = Calls(u.run) /\ Even(z)
    <3>1. /\ Accepts(u, PhaseStarts("local")) /\ Grounded(z, w')
          /\ Alters(u.run, z.run, {"phase"}) /\ Tunes(u.host, z.host, {"granted"})
          /\ z.run.phase = StorePhase["local"]
          /\ z.host.granted = (u.host.granted \/ ("local" = "local" /\ RepairOk(u.run, u.host)))
          /\ Calls(z.run) = Calls(u.run) /\ (Even(u) => Even(z))
      BY <1>11, <2>4, <2>5, PhaseTaken
    <3> QED
      BY <1>11, <2>3, <3>1
  <2>7. /\ z.run.policy = u.run.policy /\ z.run.criticCurrent = u.run.criticCurrent
        /\ z.run.handoff = u.run.handoff /\ z.run.recoveries = u.run.recoveries
        /\ z.run.draft = u.run.draft /\ z.run.draftCalls = u.run.draftCalls /\ z.run.verdict = u.run.verdict
        /\ z.run.patch = u.run.patch /\ z.run.checks = u.run.checks /\ z.run.used = u.run.used
        /\ z.host.action = u.host.action /\ z.host.final = u.host.final
    BY <2>6, PhaseRest
  <2>8. w.r.src # NoSource
    BY <1>3 DEF NoSource
  <2>9. Halved(x, z.run, z.host)
    BY <1>12, <1>16, <2>1, <2>2, <2>6, <2>7, <2>8 DEF Halved
  <2>10. Solving(z, w')
    <3>1. Empty(z.run) /\ Unmoved(z.run) /\ ~z.host.final /\ ~Planned(z.run.policy) /\ z.run.phase = "local_solver"
      BY <1>12, <1>13, <2>6, <2>7 DEF Empty, Unmoved, CriticPolicy, Planned, StorePhase
    <3>2. ~x.handoffUsed
      BY <1>9, <1>13, <1>12 DEF Steered, Counted, CriticPolicy
    <3> QED
      BY <1>8, <2>1, <2>9, <3>1, <3>2 DEF Solving
  <2>11. Looping(z, w')
    <3>1. Valid(x, z.run)
      BY <2>1 DEF Valid, Sound
    <3>2. Within(x)
      BY <1>4, <2>1, RouterAssumption DEF Within
    <3> QED
      BY <1>4, <1>8, <1>12, <2>1, <2>6, <2>7, <2>10, <3>1, <3>2 DEF Looping
  <2>12. Meets(z, v, w')
    <3>1. x # NoRouter
      BY <2>1 DEF NoRouter
    <3> QED
      BY <1>2, <1>8, <1>11, <2>1, <2>6, <2>11, <3>1 DEF Meets, Busy
  <2>13. Arrives(v, t, <<Decides(x), PhaseStarts("local")>>, w')
    BY <1>10, <1>11, <1>12, <2>5, <2>6, <2>7, <2>12, TwoFollow
  <2>14. pipe' = pipe \o <<Decides(x), PhaseStarts("local")>>
    <3>1. y = PhaseStarts("local")
      BY DEF y
    <3> QED
      BY <1>7, <2>1, <3>1, Pairs
  <2> QED
    BY <2>13, <2>14, PairGoes
<1> QED
  BY <1>14, <1>15, <1>16 DEF Verdicts

\* What the host remembers of a run whose worker was just launched.
LEMMA BootedRun ==
    ASSUME NEW s, NEW q, Booting(s, q)
    PROVE  /\ q.r = NoRouter /\ q.live = Base /\ q.calls = 0 /\ s.run.cp = NoRouter /\ s.run.phase = "preparing"
           /\ s.run.plan = FALSE /\ Unmoved(s.run) /\ s.run.draft = NoSource /\ s.run.verdict = "none"
           /\ Empty(s.run) /\ s.run.used = [p \in RequestPhases |-> 0] /\ s.run.receipts = s.run.used
           /\ ~Unresolved(s.run) /\ Calls(s.run) = 0
           /\ s.host.pending = FALSE /\ s.host.action = "none" /\ s.host.granted = FALSE
           /\ s.host.context = FALSE /\ s.host.final = FALSE
<1> DEFINE c == NewRun(s.run.policy)
<1>1. /\ DOMAIN c = RowFields /\ c.cp = NoRouter /\ c.plan = FALSE /\ c.handoff = NoSource /\ c.recoveries = 0
      /\ c.draft = NoSource /\ c.verdict = "none" /\ c.patch = [kind |-> "none", src |-> Base]
      /\ c.checks.status = "not_run" /\ c.used = [p \in RequestPhases |-> 0] /\ c.receipts = c.used
      /\ c.last.state = "none"
  BY DEF NewRun, RowFields
<1>2. s.run = SetPhase(Start(c), "preparing") /\ q.r = NoRouter /\ q.live = Base /\ q.calls = 0
      /\ s.host = [NewHost EXCEPT !.place = "working"]
  BY DEF Booting
<1> HIDE DEF c
<1>3. s.run.phase = "preparing" /\ \A f \in RowFields \ {"status", "phase"} : s.run[f] = c[f]
  BY <1>1, <1>2 DEF SetPhase, Start, RowFields
<1>4. /\ s.run.cp = NoRouter /\ s.run.plan = FALSE /\ s.run.handoff = NoSource /\ s.run.recoveries = 0
      /\ s.run.draft = NoSource /\ s.run.verdict = "none" /\ s.run.patch = [kind |-> "none", src |-> Base]
      /\ s.run.checks.status = "not_run" /\ s.run.used = [p \in RequestPhases |-> 0]
      /\ s.run.receipts = s.run.used /\ s.run.last.state = "none"
  BY <1>1, <1>3 DEF RowFields
<1>5. /\ s.host.pending = FALSE /\ s.host.action = "none" /\ s.host.granted = FALSE
      /\ s.host.context = FALSE /\ s.host.final = FALSE
  BY <1>2 DEF NewHost
<1>6. Calls(s.run) = 0
  BY <1>4 DEF Calls, RequestPhases
<1> QED
  BY <1>2, <1>3, <1>4, <1>5, <1>6 DEF Unmoved, Empty, Unresolved

\* The first checkpoint is one the host accepts.
LEMMA FirstRoutes ==
    ASSUME NEW s, NEW x, Formal(s), Running(s.run), Booting(s, w), x = NewRouter(s.run.policy, Base)
    PROVE  RouteOk(s.run, s.host, x) /\ Steered(x, s.run) /\ Initial(x, s.run.policy)
<1>1. Initial(x, s.run.policy) /\ x.seq = 1 /\ Steered(x, s.run) /\ Allows(x)
  BY NewRouterIs, FreshSteered
<1>2. s.run.cp = NoRouter /\ ~Unresolved(s.run)
  BY BootedRun
<1>3. NoRouter.seq = 0
  BY DEF NoRouter
<1>4. x.decision = "continue" /\ x.policy = s.run.policy /\ x.calls = 0 /\ ~x.criticUsed /\ x.half = "draft"
      /\ x.reason \in {"cloud_plan_required", "initialized"} /\ x.state # "submitted"
  BY <1>1 DEF Initial
<1>5. AdmitsReview(s.run, x) /\ AdmitsSubmission(s.run, x) /\ AdmitsEscalation(s.run, x)
  BY <1>4 DEF AdmitsReview, AdmitsSubmission, AdmitsEscalation
<1>6. BudgetOk(s.run, x)
  BY <1>1, BudgetFits
<1>7. CriticPolicy(s.run) => OrderOk(s.run, s.host, x)
  BY <1>2, <1>3, <1>4 DEF OrderOk
<1>8. Ordered(s.run, x)
  BY <1>1, <1>2, <1>3, <1>4 DEF Ordered
<1>9. AdmitsCriticStep(s.run, x)
  <2>1. CASE CriticPolicy(s.run)
    <3>1. CriticBudget(x)
      BY <1>1, <1>4, <2>1, CountedBudget
    <3>2. x.reason = "initialized"
      BY <1>1, <2>1 DEF Initial, CriticPolicy, Planned
    <3> QED
      BY <1>2, <1>3, <1>4, <3>1, <3>2 DEF AdmitsCriticStep
  <2>2. CASE ~CriticPolicy(s.run)
    BY <2>2 DEF AdmitsCriticStep
  <2> QED
    BY <2>1, <2>2
<1> QED
  BY <1>1, <1>5, <1>6, <1>7, <1>8, <1>9 DEF RouteOk, CanRecordCheckpoint

\* The worker sets out.
LEMMA StartGoes ==
    ASSUME NEW v, NEW t, Heeds(v, t), WorkerStarts
    PROVE  Goes(v, t)
<1>1. w.at = "boot"
  BY DEF WorkerStarts, Working
<1>2. Grounded(t, w) /\ Booting(t, w) /\ ~w.unsettled /\ t.run.policy = run.policy
  BY <1>1 DEF Heeds, Meets, Busy
<1>3. Formal(t) /\ Running(t.run)
  BY <1>2 DEF Grounded
<1>4. /\ w.live = Base /\ w.calls = 0 /\ t.run.phase = "preparing"
      /\ t.run.plan = FALSE /\ Unmoved(t.run) /\ t.run.draft = NoSource /\ t.run.verdict = "none"
      /\ Empty(t.run) /\ t.run.used = [p \in RequestPhases |-> 0] /\ t.run.receipts = t.run.used
      /\ ~Unresolved(t.run) /\ Calls(t.run) = 0
      /\ t.host.pending = FALSE /\ t.host.action = "none" /\ t.host.granted = FALSE
      /\ t.host.context = FALSE /\ t.host.final = FALSE
  BY <1>2, BootedRun
<1>5. PICK x : x = NewRouter(t.run.policy, Base)
  OBVIOUS
<1>6. RouteOk(t.run, t.host, x) /\ Steered(x, t.run) /\ Initial(x, t.run.policy) /\ Within(x) /\ x # NoRouter
      /\ x = [NewRouter(t.run.policy, Base) EXCEPT !.seq = x.seq]
  BY <1>2, <1>3, <1>5, FirstRoutes, FreshSteered, NewRouterIs
<1>7. PICK planner : planner = (x.state = "planner")
  OBVIOUS
<1>8. /\ pipe' = pipe \o <<Decides(x), PhaseStarts(IF x.state = "planner" THEN "planner" ELSE "local")>>
      /\ w' = [w EXCEPT !.r = x, !.phase = IF x.state = "planner" THEN "planner" ELSE "local",
                        !.at = IF x.state = "planner" THEN "ask" ELSE "loop"]
  BY <1>2, <1>5 DEF WorkerStarts, Emit
<1>9. /\ w'.r = x /\ w'.live = Base /\ w'.calls = 0 /\ ~w'.unsettled
      /\ w'.phase = (IF x.state = "planner" THEN "planner" ELSE "local")
      /\ w'.at = (IF x.state = "planner" THEN "ask" ELSE "loop")
  BY <1>2, <1>4, <1>8 DEF Heeds, Shaped, WorkerFields
<1>10. Even(t)
  BY <1>4 DEF Even
<1>11. PICK u : u = After(v, t, Decides(x))
  OBVIOUS
<1>12. /\ Accepts(t, Decides(x)) /\ Rerouted(t, u, x) /\ Grounded(u, w')
       /\ Calls(u.run) = 0 /\ Even(u)
  BY <1>3, <1>4, <1>6, <1>9, <1>10, <1>11, RouteTaken
<1>13. /\ u.run.policy = t.run.policy /\ u.run.phase = "preparing" /\ u.run.cp = x /\ Running(u.run)
       /\ Unjudged(u.run, u.host) /\ u.run.draft = NoSource /\ ~u.host.context /\ ~u.host.final
       /\ u.host.action = "none" /\ u.run.used = [p \in RequestPhases |-> 0]
       /\ Empty(u.run) /\ Unmoved(u.run) /\ ~u.host.pending /\ ~Unresolved(u.run) /\ ~u.run.plan
  BY <1>4, <1>12 DEF Rerouted, Even, Empty, Unmoved, Unjudged, Grounded
<1>14. u.run.used["planner"] = 0 /\ u.run.used["local"] = 0 /\ u.run.used["critic"] = 0
  BY <1>13 DEF RequestPhases
<1>15. CASE Planned(t.run.policy)
  <2>1. x.state = "planner"
    BY <1>6, <1>15 DEF Initial
  <2>2. PhaseOk(u.run, u.host, "planner")
    BY <1>13, <1>15 DEF PhaseOk
  <2>3. PICK z : z = After(v, u, PhaseStarts("planner"))
    OBVIOUS
  <2>4. /\ Accepts(u, PhaseStarts("planner")) /\ Grounded(z, w')
        /\ Alters(u.run, z.run, {"phase"}) /\ Tunes(u.host, z.host, {"granted"})
        /\ z.run.phase = StorePhase["planner"] /\ ~z.host.granted
        /\ Calls(z.run) = Calls(u.run) /\ Even(z)
    <3>1. /\ Accepts(u, PhaseStarts("planner")) /\ Grounded(z, w')
          /\ Alters(u.run, z.run, {"phase"}) /\ Tunes(u.host, z.host, {"granted"})
          /\ z.run.phase = StorePhase["planner"]
          /\ z.host.granted = (u.host.granted \/ ("planner" = "local" /\ RepairOk(u.run, u.host)))
          /\ Calls(z.run) = Calls(u.run) /\ (Even(u) => Even(z))
      BY <1>12, <2>2, <2>3, PhaseTaken
    <3> QED
      BY <1>12, <1>13, <3>1 DEF Unjudged
  <2>5. /\ z.run.policy = u.run.policy /\ z.run.plan = u.run.plan
        /\ z.run.handoff = u.run.handoff /\ z.run.recoveries = u.run.recoveries
        /\ z.run.draft = u.run.draft /\ z.run.verdict = u.run.verdict
        /\ z.run.patch = u.run.patch /\ z.run.checks = u.run.checks /\ z.run.used = u.run.used
        /\ z.host.action = u.host.action /\ z.host.context = u.host.context /\ z.host.final = u.host.final
    BY <2>4, PhaseRest
  <2>6. w'.at = "ask" /\ w'.phase = "planner"
    BY <1>9, <2>1
  <2>7. Planning(z, w')
    <3>1. w'.r = [NewRouter(z.run.policy, Base) EXCEPT !.seq = w'.r.seq]
      BY <1>6, <1>9, <1>13, <2>5
    <3>2. z.run.phase = "cloud_planner"
      BY <2>4 DEF StorePhase
    <3>3. Planned(z.run.policy) /\ ~z.run.plan /\ Empty(z.run) /\ Unmoved(z.run) /\ Unjudged(z.run, z.host)
      BY <1>13, <1>15, <2>4, <2>5 DEF Empty, Unmoved, Unjudged
    <3> QED
      BY <1>9, <1>13, <1>14, <2>5, <2>6, <3>1, <3>2, <3>3 DEF Planning
  <2>8. Requesting(z, w')
    BY <2>4, <2>6, <2>7 DEF Requesting, RequestPhases
  <2>9. Meets(z, v, w')
    BY <1>6, <1>9, <1>12, <2>4, <2>6, <2>8 DEF Meets, Busy
  <2>10. Arrives(v, t, <<Decides(x), PhaseStarts("planner")>>, w')
    BY <1>11, <1>12, <1>13, <2>3, <2>4, <2>5, <2>9, TwoFollow
  <2> QED
    BY <1>8, <2>1, <2>10, PairGoes
<1>16. CASE ~Planned(t.run.policy)
  <2>1. /\ x.state = "local" /\ x.decision = "continue" /\ x.reason # "local_request_started"
        /\ x.src = Base /\ x.chk = NoSource /\ x.half = "draft" /\ x.calls = 0 /\ ~x.criticUsed
        /\ ~x.handoffUsed /\ ~x.pending
    BY <1>6, <1>16 DEF Initial
  <2>2. PhaseOk(u.run, u.host, "local")
    <3>1. CanSetPhase(u.run, "local_solver")
      BY <1>13 DEF CanSetPhase
    <3> QED
      BY <1>13, <1>16, <3>1 DEF PhaseOk
  <2>3. PICK z : z = After(v, u, PhaseStarts("local"))
    OBVIOUS
  <2>4. w'.at = "loop" /\ w'.phase = "local"
    BY <1>9, <2>1
  <2>5. Accepts(u, PhaseStarts("local")) /\ z.run.policy = u.run.policy /\ Meets(z, v, w')
    <3>1. /\ Grounded(u, w') /\ w'.r = x /\ w'.at = "loop" /\ w'.phase = "local"
          /\ PhaseOk(u.run, u.host, "local") /\ z = After(v, u, PhaseStarts("local"))
          /\ Unjudged(u.run, u.host) /\ u.run.draft = NoSource /\ ~u.host.context /\ u.run.used["critic"] = 0
          /\ Empty(u.run) /\ Unmoved(u.run) /\ ~u.host.final /\ (Planned(u.run.policy) => u.run.plan)
          /\ Even(u) /\ u.run.used["local"] = 0 /\ u.host.action = "none" /\ Calls(u.run) = w'.calls
          /\ ~w'.unsettled /\ w'.live = Base /\ x.src = Base /\ x.chk = NoSource /\ x.half = "draft"
          /\ x.calls = 0 /\ ~x.criticUsed /\ ~x.handoffUsed /\ x.state = "local" /\ ~x.pending
          /\ x.decision = "continue" /\ x.reason # "local_request_started" /\ Within(x) /\ x # NoRouter
      BY <1>6, <1>9, <1>12, <1>13, <1>14, <1>16, <2>1, <2>2, <2>3, <2>4
    <3> QED
      BY ONLY <3>1, FirstLoop
  <2>6. Arrives(v, t, <<Decides(x), PhaseStarts("local")>>, w')
    BY <1>11, <1>12, <1>13, <2>3, <2>5, TwoFollow
  <2>7. pipe' = pipe \o <<Decides(x), PhaseStarts("local")>>
    BY <1>8, <2>1
  <2> QED
    BY <2>6, <2>7, PairGoes
<1> QED
  BY <1>15, <1>16

-----------------------------------------------------------------------------
(* Every step of the worker keeps the host in step with it. *)

\* A refusal may be ahead of what is accepted first.
LEMMA BalkedAfter ==
    ASSUME NEW v, NEW s, NEW t, NEW es, NEW ev, IsPipe(es), IsPipe(ev), Replayed(v, s, es, t), Balked(v, t, ev)
    PROVE  Balked(v, s, es \o ev)
<1>1. PICK f : f[1] = s /\ f[Len(es) + 1] = t /\ Course(v, f, es, Len(es))
  BY DEF Replayed
<1>2. PICK g : \E m \in 1..Len(ev) : g[1] = t /\ Course(v, g, ev, m - 1) /\ Contested(g[m], ev[m])
  BY DEF Balked
<1>3. PICK m \in 1..Len(ev) : g[1] = t /\ Course(v, g, ev, m - 1) /\ Contested(g[m], ev[m])
  BY <1>2
<1> DEFINE n == Len(es)
           h == [i \in 1..(n + m) |-> IF i <= n THEN f[i] ELSE g[i - n]]
           all == es \o ev
<1>4. Joins(es, ev, all)
  BY Joined
<1>5. /\ n \in Nat /\ Len(ev) \in Nat /\ m \in Nat \ {0} /\ Len(all) = n + Len(ev)
      /\ \A i \in 1..n : all[i] = es[i]
      /\ \A k \in 1..Len(ev) : all[n + k] = ev[k]
  BY <1>4 DEF Joins
<1>6. /\ \A i \in 1..n : h[i] = f[i]
      /\ \A k \in 1..m : h[n + k] = g[k]
  <2>1. ASSUME NEW i \in 1..n PROVE h[i] = f[i]
    BY <1>5, <2>1
  <2>2. ASSUME NEW k \in 1..m PROVE h[n + k] = g[k]
    <3>1. n + k \in 1..(n + m) /\ ~(n + k <= n) /\ (n + k) - n = k
      BY <1>5, <2>2
    <3> QED
      BY <3>1
  <2> QED
    BY <2>1, <2>2
<1>7. h[n + 1] = t
  BY <1>3, <1>5, <1>6
<1> HIDE DEF h, all
<1>8. h[1] = s
  <2>1. CASE n = 0
    BY <1>1, <1>7, <2>1
  <2>2. CASE n # 0
    BY <1>1, <1>5, <1>6, <2>2
  <2> QED
    BY <2>1, <2>2
<1>9. n + m \in 1..Len(all) /\ Contested(h[n + m], all[n + m])
  BY <1>3, <1>5, <1>6
<1>10. ASSUME NEW i \in 1..((n + m) - 1)
       PROVE  Accepts(h[i], all[i]) /\ h[i + 1] = After(v, h[i], all[i])
  <2>1. CASE i \in 1..n
    <3>1. h[i] = f[i] /\ all[i] = es[i]
      BY <1>5, <1>6, <2>1
    <3>2. h[i + 1] = f[i + 1]
      <4>1. CASE i = n
        BY <1>1, <1>7, <4>1
      <4>2. CASE i # n
        <5>1. i + 1 \in 1..n
          BY <1>5, <2>1, <4>2
        <5> QED
          BY <1>6, <5>1
      <4> QED
        BY <4>1, <4>2
    <3> QED
      BY <1>1, <2>1, <3>1, <3>2 DEF Course
  <2>2. CASE i \notin 1..n
    <3>1. PICK k \in 1..(m - 1) : i = n + k
      <4>1. i - n \in 1..(m - 1) /\ i = n + (i - n)
        BY <1>5, <2>2
      <4> QED
        BY <4>1
    <3>2. k \in 1..m /\ k + 1 \in 1..m /\ i + 1 = n + (k + 1) /\ k \in 1..Len(ev)
      BY <1>5, <3>1
    <3>3. h[i] = g[k] /\ h[i + 1] = g[k + 1] /\ all[i] = ev[k]
      BY <1>5, <1>6, <3>1, <3>2
    <3> QED
      BY <1>3, <3>1, <3>3 DEF Course
  <2> QED
    BY <2>1, <2>2
<1>11. Course(v, h, all, (n + m) - 1)
  BY <1>10 DEF Course
<1>12. Balked(v, s, all)
  BY <1>8, <1>9, <1>11 DEF Balked
<1> QED
  BY <1>12 DEF all

\* Every step of the worker adds to what it has said.
LEMMA WorkerAdds ==
    ASSUME Inv, Filing, WorkerNext
    PROVE  \E ev : pipe' = pipe \o ev /\ IsPipe(ev)
<1>1. Shaped /\ Paced(w) /\ IsPipe(pipe)
  BY DEF Filing, Shaped
<1>2. /\ Works \/ Asks \/ Sends \/ Hears \/ Submits \/ CloudSubmits \/ Exports
         \/ Verifies \/ Quits \/ Notices
  BY <1>1, WorkerSays
<1>3. CASE Works \/ Quits
  BY <1>3 DEF Works, Quits, Adds
<1>4. CASE Sends \/ CloudSubmits \/ Notices
  <2>1. pipe' = pipe
    BY <1>4 DEF Sends, CloudSubmits, Notices
  <2> QED
    BY <1>1, <2>1, Unsaid DEF Adds
<1>5. CASE Asks \/ Hears \/ Submits \/ Verifies
  <2>1. \E x : pipe' = pipe \o <<x>>
    BY <1>5 DEF Asks, Hears, Submits, Verifies
  <2> QED
    BY <2>1, Single
<1>6. CASE Exports
  BY <1>6, Pairs DEF Exports, Exported
<1> QED
  BY <1>2, <1>3, <1>4, <1>5, <1>6

\* The verdict that was read is the one that was given.
LEMMA VerdictHeard ==
    ASSUME Inv, Judged, VerdictRead, NEW v \in Verdicts, run.verdict \in {"none", v}
    PROVE  Head(inbox).verdict = v
<1>1. inbox # <<>> /\ Head(inbox).type = "verdict" /\ inbox \in Seq(Answers)
  BY DEF VerdictRead, Inbox, Inv
<1>2. 1 \in DOMAIN inbox /\ Head(inbox) = inbox[1]
  BY <1>1
<1>3. inbox[1].verdict \in Verdicts /\ inbox[1].verdict = run.verdict
  BY <1>1, <1>2 DEF Judged
<1> QED
  BY <1>2, <1>3 DEF Verdicts

\* Whatever the worker does, the host can follow.
LEMMA StepGoes ==
    ASSUME Inv, Filing, Judged, WorkerNext, ~host.stopped, ~w.cancelled, ~w.orphan,
           NEW v \in Verdicts, run.verdict \in {"none", v}, NEW t, Heeds(v, t)
    PROVE  Goes(v, t)
<1>1. Paced(w)
  BY DEF Filing
<1>2. ~WorkerCancelled /\ ~WorkerKilled /\ ~OrphanEnds
  BY DEF WorkerCancelled, WorkerKilled, OrphanEnds
<1>3. CASE WorkerStarts \/ WorkerRaises \/ LocalRequest \/ Ask \/ Send
  BY <1>3, StartGoes, RaiseGoes, LocalRequestGoes, AskGoes, SendGoes
<1>4. CASE AdmittedTooLate \/ Unanswered \/ Answered \/ PlanReady \/ ActionDenied \/ RunCommand
  BY <1>4, UnsettledGoes, AnswerGoes, PlanGoes, DeniedGoes, CommandGoes
<1>5. CASE CommandRan \/ CommandObserved \/ VisibleCheck \/ Help \/ SubmitTask \/ NoSubmission
  BY <1>5, RanGoes, ObservedGoes, VisibleCheckGoes, HelpGoes, SubmitGoes, NoSubmissionGoes
<1>6. CASE Handoff \/ CloudCommand \/ CloudSubmit \/ FreezeDraft \/ CriticStarts \/ CriticAnswer
  BY <1>1, <1>6, HandoffGoes, CloudCommandGoes, CloudSubmitGoes, FreezeGoes, CriticStartsGoes, ResponseGoes
<1>7. CASE VerdictRead
  BY <1>7, VerdictHeard, VerdictGoes
<1>8. CASE Export \/ Verify \/ StopRouter \/ Salvage \/ End
  BY <1>8, ExportGoes, VerifyGoes, StopGoes, SalvageGoes, EndGoes
<1> QED
  BY <1>2, <1>3, <1>4, <1>5, <1>6, <1>7, <1>8 DEF WorkerNext

\* A worker that is neither stopped nor orphaned stays so.
LEMMA WorkerFree ==
    ASSUME Shaped, WorkerNext, ~host.stopped, ~w.cancelled, ~w.orphan, w.at # "none"
    PROVE  ~w'.cancelled /\ ~w'.orphan /\ w'.at # "none"
<1>1. DOMAIN w = WorkerFields
  BY DEF Shaped
<1>2. ~WorkerCancelled /\ ~WorkerKilled /\ ~OrphanEnds
  BY DEF WorkerCancelled, WorkerKilled, OrphanEnds
<1>3. CASE WorkerStarts \/ WorkerRaises \/ LocalRequest \/ Ask \/ Send
  BY <1>1, <1>3 DEF WorkerStarts, WorkerRaises, LocalRequest, Ask, Send, WorkerFields
<1>4. CASE AdmittedTooLate \/ Unanswered \/ Answered \/ PlanReady \/ ActionDenied \/ RunCommand
  BY <1>1, <1>4 DEF AdmittedTooLate, Unanswered, Unsettle, Answered, PlanReady, ActionDenied, RunCommand, WorkerFields
<1>5. CASE CommandRan \/ CommandObserved \/ VisibleCheck \/ Help \/ NoSubmission
  BY <1>1, <1>5 DEF CommandRan, CommandObserved, VisibleCheck, Help, NoSubmission, ToLoop, WorkerFields
<1>6. CASE SubmitTask
  BY <1>1, <1>6 DEF SubmitTask, WorkerFields
<1>7. CASE Handoff \/ CloudCommand \/ CloudSubmit \/ FreezeDraft \/ CriticStarts \/ CriticAnswer
  BY <1>1, <1>7 DEF Handoff, CloudCommand, CloudSubmit, FreezeDraft, CriticStarts, CriticAnswer, WorkerFields
<1>8. CASE VerdictRead
  BY <1>1, <1>8 DEF VerdictRead, WorkerFields
<1>9. CASE Export \/ Verify \/ StopRouter \/ Salvage
  BY <1>1, <1>9 DEF Export, Verify, StopRouter, Salvage, WorkerFields
<1>10. CASE End
  BY <1>1, <1>10 DEF End, Gone, NoWorker, WorkerFields
<1> QED
  BY <1>2, <1>3, <1>4, <1>5, <1>6, <1>7, <1>8, <1>9, <1>10 DEF WorkerNext

\* The two stay in step.
LEMMA WorkerInStep ==
    ASSUME Inv, Filing, Harmony, WorkerNext, Live, run' = run, host' = host
    PROVE  InStep'
<1>1. /\ ~host.stopped /\ ~w.cancelled /\ ~w.orphan /\ InStep /\ Judged /\ run.policy \in Policies
      /\ Shaped /\ IsPipe(pipe)
  BY DEF Harmony, Going, Live, Untouched, Filing, Shaped
<1>2. Seen' = Seen
  BY DEF Seen
<1>3. ASSUME NEW v \in Verdicts, run'.verdict \in {"none", v}
      PROVE  \/ \E t : Replayed(v, Seen', pipe', t) /\ t.run.policy = run'.policy /\ Meets(t, v, w')
             \/ Balked(v, Seen', pipe')
  <2>1. run.verdict \in {"none", v}
    BY <1>3
  <2>2. CASE Balked(v, Seen, pipe)
    <3>1. PICK ev : pipe' = pipe \o ev /\ IsPipe(ev)
      BY WorkerAdds
    <3> QED
      BY <1>1, <1>2, <2>2, <3>1, BalkedOn
  <2>3. CASE \E t : Replayed(v, Seen, pipe, t) /\ t.run.policy = run.policy /\ Meets(t, v, w)
    <3>1. PICK t : Replayed(v, Seen, pipe, t) /\ t.run.policy = run.policy /\ Meets(t, v, w)
      BY <2>3
    <3>2. Heeds(v, t)
      BY <1>1, <3>1 DEF Heeds
    <3>3. Goes(v, t)
      BY <1>1, <2>1, <3>2, StepGoes
    <3>4. PICK ev : IsPipe(ev) /\ pipe' = pipe \o ev /\ Follows(v, t, ev, w')
      BY <3>3 DEF Goes
    <3>5. CASE Arrives(v, t, ev, w')
      <4>1. PICK u : Replayed(v, t, ev, u) /\ u.run.policy = t.run.policy /\ Meets(u, v, w')
        BY <3>5 DEF Arrives
      <4>2. Replayed(v, Seen, pipe \o ev, u)
        BY <1>1, <3>1, <3>4, <4>1, ReplayedOn
      <4> QED
        BY <1>2, <3>1, <3>4, <4>1, <4>2
    <3>6. CASE Balked(v, t, ev)
      BY <1>1, <1>2, <3>1, <3>4, <3>6, BalkedAfter
    <3> QED
      BY <3>4, <3>5, <3>6 DEF Follows
  <2> QED
    BY <1>1, <2>1, <2>2, <2>3 DEF InStep
<1> QED
  BY <1>3 DEF InStep

\* What the worker reads next it has not read before.
LEMMA JudgedRead ==
    ASSUME Inv, Judged, Reading, run' = run
    PROVE  Judged'
<1>1. inbox \in Seq(Answers)
  BY DEF Inv
<1>2. CASE inbox' = inbox
  BY <1>2 DEF Judged
<1>3. CASE inbox # <<>> /\ inbox' = Tail(inbox)
  <2>1. \A i \in DOMAIN inbox' : i + 1 \in DOMAIN inbox /\ inbox'[i] = inbox[i + 1]
    BY <1>1, <1>3
  <2> QED
    BY <2>1 DEF Judged
<1> QED
  BY <1>2, <1>3 DEF Reading

\* The worker leaves the two in step.
LEMMA WorkerHarmony ==
    ASSUME Inv, Filing, Harmony, WorkerNext
    PROVE  Harmony'
<1>1. Shaped /\ Paced(w)
  BY DEF Filing
<1>2. /\ run' = run /\ host' = host
      /\ Works \/ Asks \/ Sends \/ Hears \/ Submits \/ CloudSubmits \/ Exports
         \/ Verifies \/ Quits \/ Notices
  BY <1>1, WorkerSays
<1>3. Reading
  BY <1>2 DEF Works, Asks, Sends, Hears, Submits, CloudSubmits, Exports, Verifies, Quits, Notices, Reading, Listens
<1>4. Judged'
  BY <1>2, <1>3, JudgedRead DEF Harmony
<1>5. Untouched' /\ (host.stopped => host.failure # "none" \/ host.cancelled)' /\ HostAcceptsWorker'
  BY <1>2 DEF Harmony, Untouched, HostAcceptsWorker
<1>6. ASSUME Live PROVE Going'
  <2>1. /\ host.up /\ Running(run) /\ host.failure = "none" /\ ~host.cancelled
        /\ ~w.orphan /\ ~w.cancelled /\ w.at # "none"
        /\ host.await = "candidate" => CriticPolicy(run) /\ CanRecordPatch(run, "submitted", run.cp.src)
    BY <1>6 DEF Harmony, Going
  <2>2. ~w'.orphan /\ ~w'.cancelled /\ w'.at # "none"
    BY <1>1, <1>6, <2>1, WorkerFree DEF Live
  <2>3. InStep'
    BY <1>2, <1>6, WorkerInStep
  <2> QED
    BY <1>2, <2>1, <2>2, <2>3 DEF Going
<1>7. ASSUME ~Live PROVE Going'
  BY <1>2, <1>7 DEF Going, Live
<1> QED
  BY <1>4, <1>5, <1>6, <1>7 DEF Harmony

-----------------------------------------------------------------------------
(* What the host does with the next event, in the terms of a snapshot. *)

Snap == [run |-> run, host |-> host]
\* Where the host would be led by es, from s.
Led(v, s, es) ==
    \/ \E t : Replayed(v, s, es, t) /\ t.run.policy = run.policy /\ Meets(t, v, w)
    \/ Balked(v, s, es)

\* What is kept of the row and of the answers by all but the critic's verdict.
Mild ==
    /\ run'.policy = run.policy /\ run'.status = run.status /\ run'.verdict = run.verdict
    /\ inbox' = inbox \/ \E x : x.type # "verdict" /\ inbox' = Append(inbox, x)
    /\ host.stopped => run'.check.src = run.check.src /\ run'.check.after = run.check.after
\* The host's resolve.
Resolved ==
    /\ host'.up = host.up /\ host'.place = host.place /\ host'.cancelled = host.cancelled
    /\ host'.stopped = host.stopped /\ host'.failure = host.failure

\* The event is accepted, and the run goes on; it gives up for another reason; or it is refused.
Agrees ==
    /\ Takes /\ Mild /\ Resolved
    /\ ~host.stopped =>
         /\ Accepts(Snap, Event) /\ \A v \in Verdicts : Seen' = After(v, Snap, Event)
         /\ host'.await = "candidate" => CriticPolicy(run') /\ CanRecordPatch(run', "submitted", run'.cp.src)
GivesUp ==
    /\ w' = w /\ host.place = "working" /\ Mild /\ host'.place = host.place /\ host'.cancelled = host.cancelled /\ host'.stopped
    /\ host'.failure = IF host.failure = "none" THEN "ended" ELSE host.failure
Denies ==
    /\ Takes /\ run' = run /\ inbox' = inbox /\ host'.place = host.place
    /\ host'.cancelled = host.cancelled /\ host'.stopped
    /\ host'.failure = IF host.failure = "none" THEN "refused" ELSE host.failure
    /\ host.stopped \/ ~Accepts(Snap, Event)

\* What is next in the stream is accepted, or contested.
LEMMA HeadHeard ==
    ASSUME Inv, Filing, Harmony, Takes, ~host.stopped, NEW v \in Verdicts, run.verdict \in {"none", v}
    PROVE  \/ Contested(Snap, Event)
           \/ Accepts(Snap, Event) /\ Led(v, After(v, Snap, Event), Tail(pipe))
<1>1. InStep /\ IsPipe(pipe) /\ pipe # <<>> /\ host.await = "none"
  BY DEF Harmony, Going, Live, Takes, Filing, Shaped
<1>2. Seen = Snap
  BY <1>1 DEF Seen, Snap
<1>3. CASE Balked(v, Snap, pipe)
  BY <1>1, <1>3, FirstBalked DEF Led, Event
<1>4. CASE \E t : Replayed(v, Snap, pipe, t) /\ t.run.policy = run.policy /\ Meets(t, v, w)
  <2>1. PICK t : Replayed(v, Snap, pipe, t) /\ t.run.policy = run.policy /\ Meets(t, v, w)
    BY <1>4
  <2> QED
    BY <1>1, <2>1, FirstReplayed DEF Led, Event
<1> QED
  BY <1>1, <1>2, <1>3, <1>4 DEF InStep

\* A verdict that may still come.
LEMMA SomeVerdict ==
    ASSUME Judged
    PROVE  \E v \in Verdicts : run.verdict \in {"none", v}
<1>1. "acceptable" \in Verdicts
  BY DEF Verdicts
<1> QED
  BY <1>1 DEF Judged

\* While it works the host has a run that is neither created nor being prepared.
LEMMA WorkingUntouched ==
    ASSUME Filing, Harmony, host.place = "working", host'.place = "working",
           run'.policy = run.policy, run'.status = run.status
    PROVE  Untouched'
<1>1. run.status = "running" /\ run.policy \in Policies
  BY DEF Filing, Placed, Running, Harmony, Untouched
<1> QED
  BY <1>1 DEF Untouched

\* What is appended to the answers is no verdict.
LEMMA MildJudged ==
    ASSUME Inv, Judged, Mild
    PROVE  Judged'
<1>1. inbox \in Seq(Answers)
  BY DEF Inv
<1>2. CASE inbox' = inbox
  BY <1>2 DEF Judged, Mild
<1>3. CASE \E x : x.type # "verdict" /\ inbox' = Append(inbox, x)
  <2>1. PICK x : x.type # "verdict" /\ inbox' = Append(inbox, x)
    BY <1>3
  <2>2. \A i \in DOMAIN inbox' : (i \in DOMAIN inbox /\ inbox'[i] = inbox[i]) \/ inbox'[i] = x
    BY <1>1, <2>1
  <2> QED
    BY <2>1, <2>2 DEF Judged, Mild
<1> QED
  BY <1>2, <1>3 DEF Mild

\* The host goes on.
LEMMA AgreesHarmony ==
    ASSUME Inv, Filing, Harmony, Agrees
    PROVE  Harmony'
<1>1. /\ Takes /\ Mild /\ Resolved /\ host.place = "working" /\ host'.place = "working" /\ w' = w
      /\ pipe' = Tail(pipe) /\ run'.policy = run.policy /\ run'.status = run.status /\ run'.verdict = run.verdict
  BY DEF Agrees, Takes, Mild, Resolved
<1>2. Untouched' /\ Judged'
  BY <1>1, WorkingUntouched, MildJudged DEF Harmony
<1>3. CASE host.stopped
  <2>1. ~Live'
    BY <1>1, <1>3 DEF Live, Resolved
  <2>2. (host.stopped => host.failure # "none" \/ host.cancelled)' /\ HostAcceptsWorker'
    BY <1>1, <1>3 DEF Resolved, Mild, Harmony, HostAcceptsWorker, CriticPolicy
  <2> QED
    BY <1>2, <2>1, <2>2 DEF Harmony, Going
<1>4. CASE ~host.stopped
  <2>1. /\ host.up /\ Running(run) /\ host.failure = "none" /\ ~host.cancelled
        /\ ~w.orphan /\ ~w.cancelled /\ w.at # "none"
    BY <1>1, <1>4 DEF Harmony, Going, Live
  <2>2. /\ Accepts(Snap, Event) /\ \A v \in Verdicts : Seen' = After(v, Snap, Event)
        /\ host'.await = "candidate" => CriticPolicy(run') /\ CanRecordPatch(run', "submitted", run'.cp.src)
    BY <1>4 DEF Agrees
  <2>3. ~Contested(Snap, Event)
    BY <2>2 DEF Contested, Accepts
  <2>4. ASSUME NEW v \in Verdicts, run'.verdict \in {"none", v}
        PROVE  Led(v, Seen', pipe')
    BY <1>1, <1>4, <2>2, <2>3, <2>4, HeadHeard
  <2>5. InStep'
    BY <1>1, <2>4 DEF InStep, Led
  <2>6. Going'
    BY <1>1, <2>1, <2>2, <2>5 DEF Going, Resolved, Running
  <2>7. (host.stopped => host.failure # "none" \/ host.cancelled)' /\ HostAcceptsWorker'
    BY <1>1, <1>4, <2>1 DEF Resolved, HostAcceptsWorker
  <2> QED
    BY <1>2, <2>6, <2>7 DEF Harmony
<1> QED
  BY <1>3, <1>4

\* The host gives up.
LEMMA GivesUpHarmony ==
    ASSUME Inv, Filing, Harmony, GivesUp
    PROVE  Harmony'
<1>1. /\ Mild /\ host.place = "working" /\ host'.place = "working"
      /\ run'.policy = run.policy /\ run'.status = run.status /\ ~Live'
  BY DEF GivesUp, Mild, Live
<1>2. Untouched' /\ Judged' /\ Going'
  BY <1>1, WorkingUntouched, MildJudged DEF Harmony, Going
<1>3. (host.stopped => host.failure # "none" \/ host.cancelled)'
  BY DEF GivesUp
<1>4. ASSUME host'.failure = "refused"
      PROVE  host'.cancelled \/ (CriticPolicy(run') /\ run'.check.src # run'.check.after)
  <2>1. host.failure = "refused" /\ host'.cancelled = host.cancelled
    BY <1>4 DEF GivesUp
  <2>2. host.stopped
    BY <1>1, <2>1 DEF Harmony, Going, Live
  <2> QED
    BY <1>1, <2>1, <2>2 DEF Harmony, HostAcceptsWorker, Mild, CriticPolicy
<1> QED
  BY <1>2, <1>3, <1>4 DEF Harmony, HostAcceptsWorker

\* The host refuses what the worker says.
LEMMA DeniesHarmony ==
    ASSUME Inv, Filing, Harmony, Denies
    PROVE  Harmony'
<1>1. /\ Takes /\ host.place = "working" /\ host'.place = "working"
      /\ run' = run /\ inbox' = inbox /\ ~Live'
  BY DEF Denies, Takes, Live
<1>2. Untouched' /\ Judged' /\ Going'
  BY <1>1, WorkingUntouched DEF Harmony, Going, Judged
<1>3. (host.stopped => host.failure # "none" \/ host.cancelled)'
  BY DEF Denies
<1>4. ASSUME host'.failure = "refused"
      PROVE  host'.cancelled \/ (CriticPolicy(run') /\ run'.check.src # run'.check.after)
  <2>1. CASE host.stopped
    BY <1>1, <1>4, <2>1 DEF Denies, Harmony, HostAcceptsWorker
  <2>2. CASE ~host.stopped
    <3>1. ~Accepts(Snap, Event)
      BY <2>2 DEF Denies
    <3>2. PICK v \in Verdicts : run.verdict \in {"none", v}
      BY SomeVerdict DEF Harmony
    <3>3. Contested(Snap, Event)
      BY <1>1, <2>2, <3>1, <3>2, HeadHeard
    <3> QED
      BY <1>1, <3>3 DEF Contested, Snap
  <2> QED
    BY <2>1, <2>2
<1> QED
  BY <1>2, <1>3, <1>4 DEF Harmony, HostAcceptsWorker

\* What almost every operation of the store leaves as it is.
Alike(r) ==
    /\ r.policy = run.policy /\ r.status = run.status /\ r.verdict = run.verdict
    /\ r.check.src = run.check.src /\ r.check.after = run.check.after

\* What keeps the fields of the policy, the status and the check keeps the row alike.
LEMMA KeptAlike ==
    ASSUME NEW r, NEW F, Keeps(r, F), "policy" \in F, "status" \in F, r.verdict = run.verdict
    PROVE  Alike(r)
BY DEF Keeps, SameCheck, Alike

\* No operation of the store but the end of a run and the verdict does otherwise.
LEMMA RowAlike ==
    ASSUME Row(run)
    PROVE  /\ Alike(run) /\ Alike(RecordTool(run)) /\ Alike(InvalidateCheckpointCheck(run))
           /\ Alike([run EXCEPT !.plan = TRUE]) /\ Alike(BeginCloudRecovery(run))
           /\ \A x : /\ Alike(RecordCriticDraft(run, x)) /\ Alike([run EXCEPT !.decision = x])
                     /\ Alike(ReserveRequest(run, x)) /\ Alike(StartRequest(ReserveRequest(run, x)))
                     /\ Alike(SetPhase(run, x)) /\ Alike([run EXCEPT !.handoff = x])
                     /\ Alike(RecordChecks(run, x)) /\ Alike(RecordCheckpoint(run, x))
           /\ \A x, y : Alike(Settle(run, x, y)) /\ Alike(RecordPatch(run, x, y))
<1>1. /\ Alike(run) /\ Alike(RecordTool(run)) /\ Alike([run EXCEPT !.plan = TRUE])
  BY DEF Alike, Row, RowFields, RecordTool
<1>2. Alike(InvalidateCheckpointCheck(run))
  <2>1. InvalidateCheckpointCheck(run).verdict = run.verdict
    BY DEF InvalidateCheckpointCheck, Row, RowFields
  <2> QED
    BY <2>1, RowKeeps, KeptAlike DEF Told
<1>3. Alike(BeginCloudRecovery(run))
  BY DEF Alike, Row, RowFields, BeginCloudRecovery
<1>4. ASSUME NEW x
      PROVE  /\ Alike(RecordCriticDraft(run, x)) /\ Alike([run EXCEPT !.decision = x])
             /\ Alike(SetPhase(run, x)) /\ Alike([run EXCEPT !.handoff = x])
             /\ Alike(RecordChecks(run, x))
  BY DEF Alike, Row, RowFields, RecordCriticDraft, SetPhase, RecordChecks
<1>5. ASSUME NEW x
      PROVE  Alike(ReserveRequest(run, x)) /\ Alike(StartRequest(ReserveRequest(run, x)))
  <2> DEFINE q == ReserveRequest(run, x)
             t == StartRequest(q)
  <2>1. DOMAIN q = RowFields /\ q.verdict = run.verdict
    BY DEF Row, RowFields, ReserveRequest
  <2> HIDE DEF q
  <2>2. t.verdict = q.verdict
    BY <2>1 DEF StartRequest, RowFields
  <2> HIDE DEF t
  <2>3. Keeps(q, Told) /\ Keeps(t, Told)
    BY RowKeeps DEF q, t
  <2>4. Alike(q) /\ Alike(t)
    BY <2>1, <2>2, <2>3, KeptAlike DEF Told
  <2> QED
    BY <2>4 DEF q, t
<1>6. ASSUME NEW x
      PROVE  Alike(RecordCheckpoint(run, x))
  <2>1. RecordCheckpoint(run, x).verdict = run.verdict
    BY DEF RecordCheckpoint, Row, RowFields
  <2> QED
    BY <2>1, RowWrites, KeptAlike DEF Told
<1>7. ASSUME NEW x, NEW y
      PROVE  Alike(Settle(run, x, y))
  <2>1. Settle(run, x, y).verdict = run.verdict
    BY DEF Settle, Row, RowFields
  <2> QED
    BY <2>1, RowKeeps, KeptAlike DEF Told
<1>8. ASSUME NEW x, NEW y
      PROVE  Alike(RecordPatch(run, x, y))
  <2>1. \/ RecordPatch(run, x, y) = run \/ \E p : RecordPatch(run, x, y) = [run EXCEPT !.patch = p]
        \/ \E p, q : RecordPatch(run, x, y) = [run EXCEPT !.patch = p, !.checks = q]
    BY DEF RecordPatch
  <2> QED
    BY <2>1 DEF Alike, Row, RowFields
<1> QED
  BY <1>1, <1>2, <1>3, <1>4, <1>5, <1>6, <1>7, <1>8

\* A row that is alike, and no verdict among the answers.
LEMMA AlikeMild ==
    ASSUME Alike(run'), inbox' = inbox \/ \E x : x.type # "verdict" /\ inbox' = Append(inbox, x)
    PROVE  Mild
BY DEF Alike, Mild

\* What is memorised of an event is not the host's resolve.
LEMMA Tuned ==
    ASSUME Shaped
    PROVE  /\ host' = host => Resolved
           /\ \A x : /\ host' = [host EXCEPT !.pending = x] => Resolved
                     /\ host' = [host EXCEPT !.action = x] => Resolved
                     /\ host' = [host EXCEPT !.granted = x] => Resolved
                     /\ host' = [host EXCEPT !.final = x] => Resolved
                     /\ host' = [host EXCEPT !.await = x] => Resolved
                     /\ host' = [host EXCEPT !.terminal = x] => Resolved
BY DEF Shaped, Resolved, HostFields

\* Nothing is awaited.
LEMMA SeenPlain ==
    ASSUME host'.await = "none"
    PROVE  Seen' = [run |-> run', host |-> host']
BY DEF Seen

\* Giving up, and refusing.
LEMMA FailsEnds ==
    ASSUME Shaped, Takes, Fails("ended")
    PROVE  GivesUp
<1>1. /\ DOMAIN host = HostFields /\ host' = Failed(host, "ended") /\ run' = run /\ inbox' = inbox
  BY DEF Shaped, Fails
<1>2. Mild
  BY <1>1, RowAlike, AlikeMild DEF Shaped
<1> QED
  BY <1>1, <1>2 DEF GivesUp, Takes, Failed, HostFields

\* A refusal is one that the snapshot shows, or comes after the stop.
LEMMA FailsDenies ==
    ASSUME Shaped, Takes, Fails("refused"), host.stopped \/ ~Accepts(Snap, Event)
    PROVE  Denies
<1>1. /\ DOMAIN host = HostFields /\ host' = Failed(host, "refused") /\ run' = run /\ inbox' = inbox
  BY DEF Shaped, Fails
<1> QED
  BY <1>1 DEF Denies, Takes, Failed, HostFields

\* All but a checkpoint is accepted of a worker that the host is in step with.
LEMMA Honoured ==
    ASSUME Inv, Filing, Harmony, Takes, ~host.stopped, Event.type # "checkpoint"
    PROVE  Accepts(Snap, Event)
<1>1. PICK v \in Verdicts : run.verdict \in {"none", v}
  BY SomeVerdict DEF Harmony
<1> QED
  BY <1>1, HeadHeard DEF Contested

\* While the host has not told the worker to stop, the run is going on.
LEMMA RunsOn ==
    ASSUME Harmony, Takes
    PROVE  HostRuns <=> ~host.stopped
BY DEF Harmony, Going, Live, Takes, HostRuns

\* The worker is ready; it is gone; or it is late.
LEMMA PlainHandled ==
    ASSUME Inv, Filing, Harmony, Ready \/ Dropped \/ TerminalReceipt
    PROVE  Agrees \/ Denies
<1>0. Shaped /\ Row(run) /\ DOMAIN host = HostFields
  BY DEF Filing, Shaped
<1>1. CASE Ready
  <2>1. Takes /\ Event.type = "ready" /\ host.await = "none"
    BY <1>1, EventRead DEF Ready, Takes
  <2>2. CASE host.stopped
    BY <1>0, <1>1, <2>1, <2>2, FailsDenies DEF Ready
  <2>3. CASE ~host.stopped
    <3>1. run' = run /\ host' = host /\ inbox' = Append(inbox, [type |-> "start"])
      BY <1>1, <2>3 DEF Ready
    <3>2. Mild /\ Resolved
      BY <1>0, <3>1, RowAlike, AlikeMild, Tuned
    <3>3. Accepts(Snap, Event) /\ \A v \in Verdicts : Seen' = After(v, Snap, Event)
      BY <2>1, <3>1, SeenPlain DEF Accepts, After, Snap
    <3> QED
      BY <2>1, <3>1, <3>2, <3>3 DEF Agrees
  <2> QED
    BY <2>2, <2>3
<1>2. CASE Dropped
  <2>1. Takes /\ ~HostRuns /\ run' = run /\ host' = host /\ inbox' = inbox
    BY <1>2, EventRead DEF Dropped
  <2>2. Mild /\ Resolved
    BY <1>0, <2>1, RowAlike, AlikeMild, Tuned
  <2> QED
    BY <2>1, <2>2, RunsOn DEF Agrees
<1>3. CASE TerminalReceipt
  <2>1. Takes /\ Event.type = "terminal" /\ host.await = "none"
        /\ run' = run /\ inbox' = inbox /\ host' = [host EXCEPT !.terminal = Event.status]
    BY <1>3, EventRead DEF TerminalReceipt, Takes
  <2>2. Mild /\ Resolved
    BY <1>0, <2>1, RowAlike, AlikeMild, Tuned
  <2>3. host'.await = "none"
    BY <1>0, <2>1 DEF HostFields
  <2>4. Accepts(Snap, Event) /\ \A v \in Verdicts : Seen' = After(v, Snap, Event)
    BY <2>1, <2>3, SeenPlain DEF Accepts, After, Snap
  <2> QED
    BY <2>1, <2>2, <2>3, <2>4 DEF Agrees
<1> QED
  BY <1>1, <1>2, <1>3

\* An event that is admitted is handled.
LEMMA AdmittedRead ==
    ASSUME NEW type, Admitted(type), Handled
    PROVE  /\ Takes /\ Event.type = type /\ host.await = "none"
           /\ host.stopped /\ type \notin {"patch", "tool"} => type = "checkpoint"
BY EventRead DEF Admitted, Inert, HostRuns, Takes, Reads

\* A request is admitted, or comes too late.
LEMMA PrepareHandled ==
    ASSUME Inv, Filing, RequestPrepare
    PROVE  Agrees \/ GivesUp \/ Denies
<1>0. Shaped /\ Row(run) /\ DOMAIN host = HostFields
  BY DEF Filing, Shaped
<1>1. Takes /\ Event.type = "prepare" /\ host.await = "none"
  BY AdmittedRead DEF RequestPrepare
<1>2. Accepts(Snap, Event) <=> Authorized(Event.phase, Event.call)
  <2>1. Accepts(Snap, Event) <=> RequestOk(run, host, Event.phase, Event.call)
    BY <1>1 DEF Accepts, Snap
  <2>2. RequestOk(run, host, Event.phase, Event.call) <=> Authorized(Event.phase, Event.call)
    BY DEF RequestOk, Authorized, Strict, CallCap, CapOf, LocalCap, LocalCapOf
  <2> QED
    BY <2>1, <2>2
<1>3. CASE Fails("refused") /\ ~Authorized(Event.phase, Event.call)
  BY <1>0, <1>1, <1>2, <1>3, FailsDenies
<1>4. CASE Fails("ended")
  BY <1>0, <1>1, <1>4, FailsEnds
<1>5. CASE /\ Authorized(Event.phase, Event.call)
           /\ run' = StartRequest(ReserveRequest(run, Event.phase))
           /\ host' = [host EXCEPT !.pending = TRUE]
           /\ inbox' = Append(inbox, [type |-> "admitted"])
  <2>1. Mild /\ Resolved
    BY <1>0, <1>5, RowAlike, AlikeMild, Tuned
  <2>2. host'.await = "none"
    BY <1>0, <1>1, <1>5 DEF HostFields
  <2>3. \A v \in Verdicts : Seen' = After(v, Snap, Event)
    BY <1>1, <1>5, <2>2, SeenPlain DEF After, Snap
  <2> QED
    BY <1>1, <1>2, <1>5, <2>1, <2>2, <2>3 DEF Agrees
<1> QED
  BY <1>3, <1>4, <1>5 DEF RequestPrepare

\* A request is settled.
LEMMA FinishedHandled ==
    ASSUME Inv, Filing, RequestFinished
    PROVE  Agrees \/ GivesUp \/ Denies
<1>0. Shaped /\ Row(run) /\ DOMAIN host = HostFields
  BY DEF Filing, Shaped
<1>1. Takes /\ Event.type = "finished" /\ host.await = "none"
  BY AdmittedRead DEF RequestFinished
<1>2. Accepts(Snap, Event) <=> host.pending
  BY <1>1 DEF Accepts, Snap
<1>3. CASE ~host.pending
  BY <1>0, <1>1, <1>2, <1>3, FailsDenies DEF RequestFinished
<1>4. CASE host.pending
  <2>1. PICK settled : settled = [host EXCEPT !.pending = FALSE]
    OBVIOUS
  <2>2. /\ run' = Settle(run, "succeeded", Event.cost) /\ inbox' = inbox
        /\ host' = settled \/ host' = Failed(settled, "ended")
    BY <1>4, <2>1 DEF RequestFinished
  <2>3. Mild
    BY <1>0, <2>2, RowAlike, AlikeMild
  <2>4. CASE host' = settled
    <3>1. Resolved
      BY <1>0, <2>1, <2>4, Tuned
    <3>2. host'.await = "none"
      BY <1>0, <1>1, <2>1, <2>4 DEF HostFields
    <3>3. \A v \in Verdicts : Seen' = After(v, Snap, Event)
      BY <1>1, <2>1, <2>2, <2>4, <3>2, SeenPlain DEF After, Snap
    <3> QED
      BY <1>1, <1>2, <1>4, <2>3, <3>1, <3>2, <3>3 DEF Agrees
  <2>5. CASE host' = Failed(settled, "ended")
    <3>1. /\ DOMAIN settled = HostFields /\ settled.place = host.place /\ settled.cancelled = host.cancelled
          /\ settled.failure = host.failure
      BY <1>0, <2>1 DEF HostFields
    <3> QED
      BY <1>1, <2>3, <2>5, <3>1 DEF GivesUp, Takes, Failed, HostFields, Handled
  <2> QED
    BY <2>2, <2>4, <2>5
<1> QED
  BY <1>3, <1>4

\* A request has no usable answer.
LEMMA UnsettledHandled ==
    ASSUME Inv, Filing, RequestUnsettled
    PROVE  GivesUp \/ Denies
<1>0. Shaped /\ Row(run) /\ DOMAIN host = HostFields
  BY DEF Filing, Shaped
<1>1. Takes /\ Event.type = "unsettled" /\ host.await = "none"
  BY AdmittedRead DEF RequestUnsettled
<1>2. Accepts(Snap, Event) <=> host.pending
  BY <1>1 DEF Accepts, Snap
<1>3. CASE ~host.pending
  BY <1>0, <1>1, <1>2, <1>3, FailsDenies DEF RequestUnsettled
<1>4. CASE host.pending
  <2>1. PICK settled : settled = [host EXCEPT !.pending = FALSE]
    OBVIOUS
  <2>2. /\ run' = Settle(run, "unknown", 0) /\ inbox' = inbox /\ host' = Failed(settled, "ended")
    BY <1>4, <2>1 DEF RequestUnsettled
  <2>3. Mild
    BY <1>0, <2>2, RowAlike, AlikeMild
  <2>4. /\ DOMAIN settled = HostFields /\ settled.place = host.place /\ settled.cancelled = host.cancelled
        /\ settled.failure = host.failure
    BY <1>0, <2>1 DEF HostFields
  <2> QED
    BY <1>1, <2>2, <2>3, <2>4 DEF GivesUp, Takes, Failed, HostFields
<1> QED
  BY <1>3, <1>4

\* The draft is frozen once the context is built from it.
LEMMA ContextHandled ==
    ASSUME Inv, Filing, ContextPrepare
    PROVE  Agrees \/ Denies
<1>0. Shaped /\ Row(run) /\ DOMAIN host = HostFields
  BY DEF Filing, Shaped
<1>1. Takes /\ Event.type = "context" /\ host.await = "none"
  BY AdmittedRead DEF ContextPrepare
<1>2. Accepts(Snap, Event) <=> CanRecordCriticDraft(run, Event.src) /\ ~host.context /\ ~host.pending
  BY <1>1 DEF Accepts, Snap
<1>3. CASE ~(CanRecordCriticDraft(run, Event.src) /\ ~host.context /\ ~host.pending)
  BY <1>0, <1>1, <1>2, <1>3, FailsDenies DEF ContextPrepare
<1>4. CASE CanRecordCriticDraft(run, Event.src) /\ ~host.context /\ ~host.pending
  <2>1. run' = run /\ inbox' = inbox /\ host' = [host EXCEPT !.await = "context"]
    BY <1>4 DEF ContextPrepare
  <2>2. Mild /\ Resolved
    BY <1>0, <2>1, RowAlike, AlikeMild, Tuned
  <2>3. host'.await = "context" /\ run.cp.src = Event.src
    BY <1>0, <1>4, <2>1 DEF HostFields, CanRecordCriticDraft
  <2>4. [host' EXCEPT !.await = "none", !.context = TRUE] = [host EXCEPT !.context = TRUE]
    BY <1>0, <1>1, <2>1 DEF HostFields
  <2>5. Seen' = [run |-> RecordCriticDraft(run, Event.src), host |-> [host EXCEPT !.context = TRUE]]
    BY <2>1, <2>3, <2>4 DEF Seen
  <2>6. \A v \in Verdicts : Seen' = After(v, Snap, Event)
    BY <1>1, <2>5 DEF After, Snap
  <2> QED
    BY <1>1, <1>2, <1>4, <2>2, <2>3, <2>6 DEF Agrees
<1> QED
  BY <1>3, <1>4

\* The phases of the host's own work keep what it has seen.
Resumed ==
    /\ w' = w /\ pipe' = pipe /\ host.place = "working" /\ Mild /\ Resolved /\ ~host.stopped
    /\ Seen' = Seen /\ host'.await = "none"

\* What was awaited was seen already.
LEMMA ResumedHarmony ==
    ASSUME Inv, Filing, Harmony, Resumed
    PROVE  Harmony'
<1>1. /\ Mild /\ Resolved /\ host.place = "working" /\ host'.place = "working" /\ w' = w
      /\ pipe' = pipe /\ run'.policy = run.policy /\ run'.status = run.status /\ run'.verdict = run.verdict
      /\ Seen' = Seen /\ host'.await = "none" /\ ~host.stopped
  BY DEF Resumed, Mild, Resolved
<1>2. Untouched' /\ Judged'
  BY <1>1, WorkingUntouched, MildJudged DEF Harmony
<1>3. /\ host.up /\ Running(run) /\ host.failure = "none" /\ ~host.cancelled
      /\ ~w.orphan /\ ~w.cancelled /\ w.at # "none" /\ InStep
  BY <1>1 DEF Harmony, Going, Live
<1>4. InStep'
  BY <1>1, <1>3 DEF InStep
<1>5. Going'
  BY <1>1, <1>3, <1>4 DEF Going, Resolved, Running
<1> QED
  BY <1>1, <1>2, <1>3, <1>5 DEF Harmony, Resolved, HostAcceptsWorker

\* The critic's context is there, or is given up.
LEMMA PreparedHandled ==
    ASSUME Inv, Filing, Harmony, ContextPrepared
    PROVE  Resumed \/ GivesUp
<1>0. Shaped /\ Row(run) /\ DOMAIN host = HostFields /\ host.place = "working" /\ host.await = "context"
      /\ w' = w /\ pipe' = pipe
  BY DEF Filing, Shaped, Placed, ContextPrepared
<1>1. PICK resumed : resumed = [host EXCEPT !.await = "none"]
  OBVIOUS
<1>2. /\ DOMAIN resumed = HostFields /\ resumed.place = host.place /\ resumed.cancelled = host.cancelled
      /\ resumed.failure = host.failure
  BY <1>0, <1>1 DEF HostFields
<1>3. CASE /\ HostRuns /\ run' = RecordCriticDraft(run, run.cp.src) /\ host' = [resumed EXCEPT !.context = TRUE]
           /\ inbox' = Append(inbox, [type |-> "context"])
  <2>1. Mild
    BY <1>0, <1>3, RowAlike, AlikeMild
  <2>2. host' = [host EXCEPT !.await = "none", !.context = TRUE] /\ host'.await = "none" /\ Resolved
    BY <1>0, <1>1, <1>3 DEF HostFields, Resolved
  <2>3. Seen' = Seen
    BY <1>0, <1>3, <2>2, SeenPlain DEF Seen
  <2> QED
    BY <1>0, <1>3, <2>1, <2>2, <2>3 DEF Resumed, HostRuns
<1>4. CASE host' = Failed(resumed, "ended") /\ run' = run /\ inbox' = inbox
  <2>1. Mild
    BY <1>0, <1>4, RowAlike, AlikeMild
  <2> QED
    BY <1>0, <1>2, <1>4, <2>1 DEF GivesUp, Failed, HostFields
<1> QED
  BY <1>1, <1>3, <1>4 DEF ContextPrepared

\* The submitted candidate is recorded, or given up.
LEMMA CandidateHandled ==
    ASSUME Inv, Filing, Harmony, CandidateVerified
    PROVE  Resumed \/ GivesUp
<1>0. Shaped /\ Row(run) /\ DOMAIN host = HostFields /\ host.place = "working" /\ host.await = "candidate"
      /\ w' = w /\ pipe' = pipe /\ inbox' = inbox
  BY DEF Filing, Shaped, Placed, CandidateVerified
<1>1. PICK resumed : resumed = [host EXCEPT !.await = "none"]
  OBVIOUS
<1>2. /\ DOMAIN resumed = HostFields /\ resumed.place = host.place /\ resumed.cancelled = host.cancelled
      /\ resumed.failure = host.failure
  BY <1>0, <1>1 DEF HostFields
<1>3. HostRuns => CanRecordPatch(run, "submitted", run.cp.src)
  BY <1>0 DEF HostRuns, Harmony, Going, Live
<1>4. CASE HostRuns /\ run' = RecordPatch(run, "submitted", run.cp.src) /\ host' = resumed
  <2>1. Mild
    BY <1>0, <1>4, RowAlike, AlikeMild
  <2>2. host'.await = "none" /\ Resolved
    BY <1>0, <1>1, <1>4 DEF HostFields, Resolved
  <2>3. Seen' = Seen
    BY <1>0, <1>1, <1>4, <2>2, SeenPlain DEF Seen
  <2> QED
    BY <1>0, <1>4, <2>1, <2>2, <2>3 DEF Resumed, HostRuns
<1>5. CASE host' = Failed(resumed, "ended") /\ run' = run
  <2>1. Mild
    BY <1>0, <1>5, RowAlike, AlikeMild
  <2> QED
    BY <1>0, <1>2, <1>5, <2>1 DEF GivesUp, Failed, HostFields
<1> QED
  BY <1>1, <1>3, <1>4, <1>5 DEF CandidateVerified

\* The critic gives its verdict.
Gives(verdict) ==
    /\ Takes /\ ~host.stopped /\ Event.type = "response" /\ Accepts(Snap, Event) /\ run.verdict = "none"
    /\ run' = RecordCriticReceipt(run, verdict) /\ host' = host
    /\ inbox' = Append(inbox, [type |-> "verdict", verdict |-> verdict])

\* The worker is where that verdict would lead it.
LEMMA VerdictHarmony ==
    ASSUME Inv, Filing, Harmony, NEW verdict \in Verdicts, Gives(verdict)
    PROVE  Harmony'
<1>1. /\ Takes /\ ~host.stopped /\ Event.type = "response" /\ Accepts(Snap, Event) /\ run.verdict = "none"
      /\ run' = RecordCriticReceipt(run, verdict) /\ host' = host /\ Row(run) /\ inbox \in Seq(Answers)
      /\ inbox' = Append(inbox, [type |-> "verdict", verdict |-> verdict])
  BY DEF Gives, Filing, Shaped, Inv
<1>2. run'.policy = run.policy /\ run'.status = run.status /\ run'.verdict = verdict
  BY <1>1 DEF RecordCriticReceipt, Row, RowFields
<1>3. host.place = "working" /\ host.await = "none" /\ w' = w /\ pipe' = Tail(pipe)
  BY <1>1 DEF Takes
<1>4. Untouched'
  BY <1>1, <1>2, <1>3, WorkingUntouched
<1>5. Judged'
  <2>1. \A i \in DOMAIN inbox : inbox[i].type # "verdict"
    BY <1>1 DEF Harmony, Judged, Verdicts
  <2>2. \A i \in DOMAIN inbox' : \/ i \in DOMAIN inbox /\ inbox'[i] = inbox[i]
                                 \/ inbox'[i] = [type |-> "verdict", verdict |-> verdict]
    BY <1>1
  <2> QED
    BY <1>2, <2>1, <2>2 DEF Judged
<1>6. /\ host.up /\ Running(run) /\ host.failure = "none" /\ ~host.cancelled
      /\ ~w.orphan /\ ~w.cancelled /\ w.at # "none"
  BY <1>1, <1>3 DEF Harmony, Going, Live
<1>7. Seen' = After(verdict, Snap, Event)
  BY <1>1, <1>3, SeenPlain DEF After, Snap
<1>8. Led(verdict, Seen', pipe')
  BY <1>1, <1>3, <1>7, HeadHeard DEF Contested
<1>9. InStep'
  <2>1. ASSUME NEW v \in Verdicts, run'.verdict \in {"none", v}
        PROVE  v = verdict
    BY <1>2, <2>1 DEF Verdicts
  <2> QED
    BY <1>2, <1>3, <1>8, <2>1 DEF InStep, Led
<1>10. Going'
  BY <1>1, <1>2, <1>3, <1>6, <1>9 DEF Going, Running
<1> QED
  BY <1>1, <1>4, <1>5, <1>6, <1>10 DEF Harmony, HostAcceptsWorker

\* The critic's response is judged, or the run ends.
LEMMA ResponseHandled ==
    ASSUME Inv, Filing, CriticResponse
    PROVE  (\E verdict \in Verdicts : Gives(verdict)) \/ GivesUp \/ Denies
<1>0. Shaped /\ Row(run) /\ DOMAIN host = HostFields
  BY DEF Filing, Shaped
<1>1. Takes /\ Event.type = "response" /\ host.await = "none" /\ ~host.stopped
  BY AdmittedRead DEF CriticResponse
<1>2. Accepts(Snap, Event) <=> CanRecordCriticReceipt(run, Event.src) /\ host.context /\ ~host.pending
  BY <1>1 DEF Accepts, Snap
<1>3. CASE ~(CanRecordCriticReceipt(run, Event.src) /\ host.context /\ ~host.pending)
  BY <1>0, <1>1, <1>2, <1>3, FailsDenies DEF CriticResponse
<1>4. CASE Fails("ended")
  BY <1>0, <1>1, <1>4, FailsEnds
<1>5. CASE /\ CanRecordCriticReceipt(run, Event.src) /\ host.context /\ ~host.pending
           /\ ~Fails("ended")
  <2>1. \E verdict \in Verdicts : /\ run' = RecordCriticReceipt(run, verdict) /\ host' = host
                                  /\ inbox' = Append(inbox, [type |-> "verdict", verdict |-> verdict])
    BY <1>5 DEF CriticResponse, Verdicts
  <2>2. run.verdict = "none"
    BY <1>5 DEF CanRecordCriticReceipt
  <2> QED
    BY <1>1, <1>2, <1>5, <2>1, <2>2 DEF Gives
<1> QED
  BY <1>3, <1>4, <1>5

\* An event that is handled by a change of the row and of the host's memory.
LEMMA ChangeAgrees ==
    ASSUME Takes, Shaped, Accepts(Snap, Event), Alike(run'), inbox' = inbox, host'.await = "none",
           Resolved, \A v \in Verdicts : After(v, Snap, Event) = [run |-> run', host |-> host']
    PROVE  Agrees
BY AlikeMild, SeenPlain DEF Agrees

\* A phase starts, or comes too late.
LEMMA PhaseHandled ==
    ASSUME Inv, Filing, PhaseStarted
    PROVE  Agrees \/ GivesUp \/ Denies
<1>0. Shaped /\ Row(run) /\ DOMAIN host = HostFields
  BY DEF Filing, Shaped
<1>1. Takes /\ Event.type = "phase" /\ host.await = "none"
  BY AdmittedRead DEF PhaseStarted
<1>2. RepairOk(run, host) <=> RepairGranted
  BY DEF RepairOk, RepairGranted, Strict
<1>3. Accepts(Snap, Event) <=> PhaseAllowed(Event.phase)
  <2>1. Accepts(Snap, Event) <=> PhaseOk(run, host, Event.phase)
    BY <1>1 DEF Accepts, Snap
  <2>2. PhaseOk(run, host, Event.phase) <=> PhaseAllowed(Event.phase)
    BY <1>2 DEF PhaseOk, PhaseAllowed
  <2> QED
    BY <2>1, <2>2
<1>4. CASE ~PhaseAllowed(Event.phase)
  BY <1>0, <1>1, <1>3, <1>4, FailsDenies DEF PhaseStarted
<1>5. CASE PhaseAllowed(Event.phase) /\ Event.phase = "cloud"
  <2>1. CASE Fails("ended")
    BY <1>0, <1>1, <2>1, FailsEnds
  <2>2. CASE Records(BeginCloudRecovery(run))
    <3>1. run' = BeginCloudRecovery(run) /\ host' = host /\ inbox' = inbox
      BY <2>2 DEF Records
    <3>2. Alike(run') /\ Resolved
      BY <1>0, <3>1, RowAlike, Tuned
    <3>3. \A v \in Verdicts : After(v, Snap, Event) = [run |-> run', host |-> host']
      BY <1>1, <1>5, <3>1 DEF After, Snap
    <3> QED
      BY <1>0, <1>1, <1>3, <1>5, <3>1, <3>2, <3>3, ChangeAgrees
  <2> QED
    BY <1>5, <2>1, <2>2 DEF PhaseStarted
<1>6. CASE PhaseAllowed(Event.phase) /\ Event.phase # "cloud"
  <2>1. PICK granted : granted = (host.granted \/ (Event.phase = "local" /\ RepairGranted))
    OBVIOUS
  <2>2. run' = SetPhase(run, StorePhase[Event.phase]) /\ host' = [host EXCEPT !.granted = granted] /\ inbox' = inbox
    BY <1>6, <2>1 DEF PhaseStarted
  <2>3. Alike(run') /\ Resolved /\ host'.await = "none"
    BY <1>0, <1>1, <2>2, RowAlike, Tuned DEF HostFields
  <2>4. \A v \in Verdicts : After(v, Snap, Event) = [run |-> run', host |-> host']
    <3>1. ASSUME NEW v \in Verdicts
          PROVE  After(v, Snap, Event)
                   = [run |-> SetPhase(run, StorePhase[Event.phase]),
                      host |-> [host EXCEPT !.granted = @ \/ (Event.phase = "local" /\ RepairOk(run, host))]]
      BY <1>1, <1>6 DEF After, Snap
    <3>2. [host EXCEPT !.granted = @ \/ (Event.phase = "local" /\ RepairOk(run, host))]
            = [host EXCEPT !.granted = granted]
      BY <1>2, <2>1
    <3> QED
      BY <2>2, <3>1, <3>2
  <2> QED
    BY <1>0, <1>1, <1>3, <1>6, <2>2, <2>3, <2>4, ChangeAgrees
<1> QED
  BY <1>4, <1>5, <1>6

\* The host's note of the action that is under way.
LEMMA ActTuned ==
    ASSUME Shaped, host.await = "none", NEW action, host' = Acts(run, host, action)
    PROVE  Resolved /\ host'.await = "none"
<1>1. host' = host \/ host' = [host EXCEPT !.action = action]
  BY DEF Acts
<1> QED
  BY <1>1, Tuned DEF Shaped, HostFields

\* A command starts.
LEMMA CommandHandled ==
    ASSUME Inv, Filing, CommandStarted
    PROVE  Agrees \/ Denies
<1>0. Shaped /\ Row(run) /\ DOMAIN host = HostFields
  BY DEF Filing, Shaped
<1>1. Takes /\ Event.type = "command" /\ host.await = "none"
  BY AdmittedRead DEF CommandStarted
<1> DEFINE ready == /\ run.phase = "local_solver" => "run_command" \in AllowedActions(run.cp)
                    /\ Strict => /\ run.phase = "local_solver" /\ host.action = "none"
                                 /\ run.cp.reason = "local_request_started" /\ HostSettled(run.cp.calls)
<1>2. Accepts(Snap, Event) <=> ready
  BY <1>1 DEF Accepts, Snap, Strict, HostSettled, SettledIn
<1>3. CASE ~ready
  <2>1. Fails("refused")
    BY <1>3 DEF CommandStarted
  <2> QED
    BY <1>0, <1>1, <1>2, <1>3, <2>1, FailsDenies
<1>4. CASE ready
  <2>1. /\ run' = IF run.phase = "local_solver" \/ Reviewed(run) THEN InvalidateCheckpointCheck(run) ELSE run
        /\ host' = Acts(run, host, "command") /\ inbox' = inbox
    BY <1>4 DEF CommandStarted, Strict, Acts
  <2>2. Alike(run') /\ Resolved /\ host'.await = "none"
    BY <1>0, <1>1, <2>1, RowAlike, ActTuned
  <2>3. \A v \in Verdicts : After(v, Snap, Event) = [run |-> run', host |-> host']
    BY <1>1, <2>1 DEF After, Snap
  <2> HIDE DEF ready
  <2> QED
    BY <1>0, <1>1, <1>2, <1>4, <2>1, <2>2, <2>3, ChangeAgrees
<1> QED
  BY <1>3, <1>4

\* A command has ended.
LEMMA ToolHandled ==
    ASSUME Inv, Filing, CommandFinished
    PROVE  Agrees \/ Denies
<1>0. Shaped /\ Row(run) /\ DOMAIN host = HostFields
  BY DEF Filing, Shaped
<1>1. Takes /\ Event.type = "tool" /\ host.await = "none"
  BY AdmittedRead DEF CommandFinished
<1>2. Accepts(Snap, Event) <=> (Strict => run.phase = "local_solver" /\ host.action = "command")
  BY <1>1 DEF Accepts, Snap, Strict
<1>3. CASE ~(Strict => run.phase = "local_solver" /\ host.action = "command")
  BY <1>0, <1>1, <1>2, <1>3, FailsDenies DEF CommandFinished
<1>4. CASE Strict => run.phase = "local_solver" /\ host.action = "command"
  <2>1. run' = RecordTool(run) /\ host' = Acts(run, host, "ran") /\ inbox' = inbox
    BY <1>4 DEF CommandFinished, Strict, Acts
  <2>2. Alike(run') /\ Resolved /\ host'.await = "none"
    BY <1>0, <1>1, <2>1, RowAlike, ActTuned
  <2>3. \A v \in Verdicts : After(v, Snap, Event) = [run |-> run', host |-> host']
    BY <1>1, <2>1 DEF After, Snap
  <2> QED
    BY <1>0, <1>1, <1>2, <1>4, <2>1, <2>2, <2>3, ChangeAgrees
<1> QED
  BY <1>3, <1>4

\* A denial that is true ends the run.
LEMMA DenialHandled ==
    ASSUME Inv, Filing, DeniedAction
    PROVE  GivesUp \/ Denies
<1>0. Shaped
  BY DEF Filing
<1>1. Takes /\ Event.type = "denied" /\ host.await = "none"
  BY AdmittedRead DEF DeniedAction
<1>2. CASE Fails("ended")
  BY <1>0, <1>1, <1>2, FailsEnds
<1>3. CASE Fails("refused") /\ ~Accepts(Snap, Event)
  BY <1>0, <1>1, <1>3, FailsDenies
<1> QED
  BY <1>1, <1>2, <1>3 DEF DeniedAction, Accepts, Snap, HostSettled, SettledIn

\* The receipt of an exact visible check.
LEMMA CheckHandled ==
    ASSUME Inv, Filing, CheckReceipt
    PROVE  Agrees \/ Denies
<1>0. Shaped /\ Row(run) /\ DOMAIN host = HostFields
  BY DEF Filing, Shaped
<1>1. Takes /\ Event.type = "checked" /\ host.await = "none" /\ ~host.stopped
  BY AdmittedRead DEF CheckReceipt
<1> DEFINE ready == /\ run.phase = "local_solver" => "run_visible_checks" \in AllowedActions(run.cp)
                    /\ Strict => /\ host.action = "none" /\ run.cp.reason = "local_request_started"
                                 /\ HostSettled(run.cp.calls) /\ Event.check.src = run.cp.src
                    /\ CanRecordCheckpointCheck(run, Event.check)
<1>2. Accepts(Snap, Event) <=> ready
  BY <1>1 DEF Accepts, Snap, Strict, HostSettled, SettledIn
<1>3. CASE ~ready
  <2>1. Fails("refused")
    BY <1>3 DEF CheckReceipt
  <2> QED
    BY <1>0, <1>1, <1>2, <1>3, <2>1, FailsDenies
<1>4. CASE ready
  <2>1. run' = RecordCheckpointCheck(run, Event.check) /\ host' = Acts(run, host, "check") /\ inbox' = inbox
    BY <1>4 DEF CheckReceipt, Strict, Acts
  <2>2. Resolved /\ host'.await = "none"
    BY <1>0, <1>1, <2>1, ActTuned
  <2>3. run'.policy = run.policy /\ run'.status = run.status /\ run'.verdict = run.verdict
    BY <1>0, <2>1 DEF RecordCheckpointCheck, Row, RowFields
  <2>4. Mild
    BY <1>1, <2>1, <2>3 DEF Mild
  <2>5. \A v \in Verdicts : Seen' = After(v, Snap, Event)
    BY <1>1, <2>1, <2>2, SeenPlain DEF After, Snap
  <2> HIDE DEF ready
  <2> QED
    BY <1>1, <1>2, <1>4, <2>2, <2>4, <2>5 DEF Agrees
<1> QED
  BY <1>3, <1>4

\* A checkpoint is recorded; the contested one is refused.
LEMMA CheckpointHandled ==
    ASSUME Inv, Filing, RoutingCheckpoint
    PROVE  Agrees \/ Denies
<1>0. Shaped /\ Row(run) /\ DOMAIN host = HostFields
  BY DEF Filing, Shaped
<1>1. Takes /\ Event.type = "checkpoint" /\ host.await = "none"
  BY AdmittedRead DEF RoutingCheckpoint
<1>2. Accepts(Snap, Event)
        <=> /\ CheckpointBudget(Event.cp) /\ (Strict => ActionOrder(Event.cp))
            /\ CanRecordCheckpoint(run, Event.cp)
  <2>1. Accepts(Snap, Event) <=> RouteOk(run, host, Event.cp)
    BY <1>1 DEF Accepts, Snap
  <2>2. BudgetOk(run, Event.cp) <=> CheckpointBudget(Event.cp)
    BY DEF BudgetOk, CheckpointBudget
  <2>3. OrderOk(run, host, Event.cp) <=> ActionOrder(Event.cp)
    BY DEF OrderOk, ActionOrder, SettledIn, HostSettled
  <2> QED
    BY <2>1, <2>2, <2>3 DEF RouteOk, Strict
<1>3. CASE Fails("refused") /\ ~Accepts(Snap, Event)
  BY <1>0, <1>1, <1>3, FailsDenies
<1>4. CASE /\ Accepts(Snap, Event) /\ run' = RecordCheckpoint(run, Event.cp)
           /\ host' = [host EXCEPT !.action = "none"] /\ inbox' = inbox
  <2>1. Alike(run') /\ Resolved /\ host'.await = "none"
    BY <1>0, <1>1, <1>4, RowAlike, Tuned DEF HostFields
  <2>2. \A v \in Verdicts : After(v, Snap, Event) = [run |-> run', host |-> host']
    BY <1>1, <1>4 DEF After, Snap
  <2> QED
    BY <1>0, <1>1, <1>4, <2>1, <2>2, ChangeAgrees
<1> QED
  BY <1>2, <1>3, <1>4 DEF RoutingCheckpoint

\* A plan, a handoff, the start of the final check.
LEMMA RecordHandled ==
    ASSUME Inv, Filing, PlanReceived \/ HandoffReady \/ VerificationStarted
    PROVE  Agrees \/ Denies
<1>0. Shaped /\ Row(run) /\ DOMAIN host = HostFields
  BY DEF Filing, Shaped
<1>1. Takes /\ host.await = "none"
  BY AdmittedRead DEF PlanReceived, HandoffReady, VerificationStarted
<1>2. \/ Fails("refused") /\ ~Accepts(Snap, Event)
      \/ \E next : /\ Records(next) /\ Alike(next) /\ Accepts(Snap, Event)
                   /\ \A v \in Verdicts : After(v, Snap, Event) = [run |-> next, host |-> host]
  <2>1. CASE PlanReceived
    <3>1. Event.type = "plan"
      BY <2>1, AdmittedRead DEF PlanReceived
    <3> QED
      BY <1>0, <2>1, <3>1, RowAlike DEF PlanReceived, Accepts, After, Snap
  <2>2. CASE HandoffReady
    <3>1. Event.type = "handoff"
      BY <2>2, AdmittedRead DEF HandoffReady
    <3> QED
      BY <1>0, <2>2, <3>1, RowAlike DEF HandoffReady, Accepts, After, Snap
  <2>3. CASE VerificationStarted
    <3>1. Event.type = "verifying"
      BY <2>3, AdmittedRead DEF VerificationStarted
    <3> QED
      BY <1>0, <2>3, <3>1, RowAlike DEF VerificationStarted, Accepts, After, Snap, Strict
  <2> QED
    BY <2>1, <2>2, <2>3
<1>3. CASE Fails("refused") /\ ~Accepts(Snap, Event)
  BY <1>0, <1>1, <1>3, FailsDenies
<1>4. CASE \E next : /\ Records(next) /\ Alike(next) /\ Accepts(Snap, Event)
                     /\ \A v \in Verdicts : After(v, Snap, Event) = [run |-> next, host |-> host]
  <2>1. /\ Alike(run') /\ Accepts(Snap, Event) /\ host' = host /\ inbox' = inbox
        /\ \A v \in Verdicts : After(v, Snap, Event) = [run |-> run', host |-> host']
    BY <1>4 DEF Records
  <2> QED
    BY <1>0, <1>1, <2>1, Tuned, ChangeAgrees
<1> QED
  BY <1>2, <1>3, <1>4

\* The result of the final check.
LEMMA FinalHandled ==
    ASSUME Inv, Filing, VerificationFinished
    PROVE  Agrees \/ Denies
<1>0. Shaped /\ Row(run) /\ DOMAIN host = HostFields
  BY DEF Filing, Shaped
<1>1. Takes /\ Event.type = "verified" /\ host.await = "none"
  BY AdmittedRead DEF VerificationFinished
<1> DEFINE ready == (Strict => run.phase = "checking" /\ ~host.final) /\ CanRecordChecks(run, ChecksOf(Event))
<1>2. Accepts(Snap, Event) <=> ready
  BY <1>1 DEF Accepts, Snap, Strict
<1>3. CASE ~ready
  <2>1. Fails("refused")
    BY <1>3 DEF VerificationFinished, ChecksOf
  <2> QED
    BY <1>0, <1>1, <1>2, <1>3, <2>1, FailsDenies
<1>4. CASE ready
  <2>1. /\ run' = RecordChecks(run, ChecksOf(Event)) /\ host' = [host EXCEPT !.final = CriticPolicy(run)]
        /\ inbox' = inbox
    BY <1>4 DEF VerificationFinished, ChecksOf, Strict
  <2>2. Alike(run') /\ Resolved /\ host'.await = "none"
    BY <1>0, <1>1, <2>1, RowAlike, Tuned DEF HostFields
  <2>3. \A v \in Verdicts : After(v, Snap, Event) = [run |-> run', host |-> host']
    BY <1>1, <2>1 DEF After, Snap
  <2> HIDE DEF ready
  <2> QED
    BY <1>0, <1>1, <1>2, <1>4, <2>1, <2>2, <2>3, ChangeAgrees
<1> QED
  BY <1>3, <1>4

\* What the host remembers is a record.
Remembers(h) == h = [f \in DOMAIN h |-> h[f]]

\* A patch is recorded, or a candidate is compared first.
LEMMA PatchHandled ==
    ASSUME Inv, Filing, Harmony, Remembers(host), PatchEvent
    PROVE  Agrees \/ Denies
<1>0. Shaped /\ Row(run) /\ DOMAIN host = HostFields
  BY DEF Filing, Shaped
<1>1. Takes /\ Event.type = "patch" /\ host.await = "none"
  BY AdmittedRead DEF PatchEvent
<1> DEFINE submitted == Event.kind = "submitted"
           ready == submitted => /\ Strict => run.cp.decision = "submit"
                                 /\ run.phase = "local_solver" => run.cp.decision = "submit"
           held == ~ready \/ ((submitted => ~Strict) /\ ~CanRecordPatch(run, Event.kind, Event.src))
<1>2. Accepts(Snap, Event)
        <=> /\ submitted => /\ Strict => run.cp.decision = "submit" /\ Event.src = run.cp.src
                            /\ run.phase = "local_solver" => run.cp.decision = "submit"
            /\ CanRecordPatch(run, Event.kind, Event.src)
  BY <1>1 DEF Accepts, Snap, Strict
<1>3. CASE held
  <2>1. Fails("refused")
    BY <1>3 DEF PatchEvent
  <2>2. CASE ~ready
    <3>1. ~Accepts(Snap, Event)
      BY <1>2, <2>2
    <3> QED
      BY <1>0, <1>1, <2>1, <3>1, FailsDenies
  <2>3. CASE ready
    <3>1. ~CanRecordPatch(run, Event.kind, Event.src)
      BY <1>3, <2>3
    <3>2. ~Accepts(Snap, Event)
      BY <1>2, <3>1
    <3> QED
      BY <1>0, <1>1, <2>1, <3>2, FailsDenies
  <2> QED
    BY <2>2, <2>3
<1>4. CASE ~held /\ submitted /\ Strict
  <2>1. run' = run /\ inbox' = inbox /\ host' = [host EXCEPT !.await = "candidate"]
    BY <1>4 DEF PatchEvent
  <2>2. Mild /\ Resolved
    BY <1>0, <2>1, RowAlike, AlikeMild, Tuned
  <2>3. host'.await = "candidate" /\ [host' EXCEPT !.await = "none"] = host
    <3>1. host = [f \in HostFields |-> host[f]]
      BY <1>0 DEF Remembers
    <3>2. PICK h : h = [host' EXCEPT !.await = "none"]
      OBVIOUS
    <3>3. h = [f \in HostFields |-> h[f]]
      BY <1>0, <2>1, <3>2
    <3>4. \A f \in HostFields : h[f] = host[f]
      BY <1>0, <1>1, <2>1, <3>2
    <3>5. h = host
      BY <3>1, <3>3, <3>4
    <3>6. host'.await = "candidate"
      BY <1>0, <2>1 DEF HostFields
    <3> QED
      BY <3>2, <3>5, <3>6
  <2>4. ASSUME ~host.stopped
        PROVE  /\ Accepts(Snap, Event) /\ \A v \in Verdicts : Seen' = After(v, Snap, Event)
               /\ CriticPolicy(run') /\ CanRecordPatch(run', "submitted", run'.cp.src)
    <3>1. Accepts(Snap, Event)
      BY <1>1, <2>4, Honoured
    <3>2. Event.src = run.cp.src /\ CanRecordPatch(run, "submitted", run.cp.src)
      BY <1>2, <1>4, <3>1
    <3>3. Seen' = [run |-> RecordPatch(run, "submitted", run.cp.src), host |-> host]
      BY <2>1, <2>3 DEF Seen
    <3>4. \A v \in Verdicts : Seen' = After(v, Snap, Event)
      BY <1>1, <1>4, <3>2, <3>3 DEF After, Snap
    <3> QED
      BY <1>4, <2>1, <3>1, <3>2, <3>4 DEF Strict
  <2> QED
    BY <1>1, <2>2, <2>4 DEF Agrees
<1>5. CASE ~held /\ ~(submitted /\ Strict)
  <2>1. run' = RecordPatch(run, Event.kind, Event.src) /\ host' = host /\ inbox' = inbox
    BY <1>5 DEF PatchEvent, Records
  <2>2. Alike(run') /\ Resolved
    BY <1>0, <2>1, RowAlike, Tuned
  <2>3. \A v \in Verdicts : After(v, Snap, Event) = [run |-> run', host |-> host']
    BY <1>1, <2>1 DEF After, Snap
  <2>4. Accepts(Snap, Event)
    BY <1>2, <1>5
  <2> HIDE DEF submitted, held
  <2> QED
    BY <1>0, <1>1, <2>1, <2>2, <2>3, <2>4, ChangeAgrees
<1> QED
  BY <1>3, <1>4, <1>5

\* The end of a run leaves its policy, its verdict and its check.
LEMMA FinishAlike ==
    ASSUME Row(run), NEW status, NEW r, r = Finish(run, status)
    PROVE  /\ r.policy = run.policy /\ r.status = status /\ r.verdict = run.verdict
           /\ r.check.src = run.check.src /\ r.check.after = run.check.after
<1>1. Keeps(r, Told \ {"status", "phase"}) /\ r.status = status
  BY RowFinished
<1>2. r.verdict = run.verdict
  <2>1. PICK c : c = Closed(run)
    OBVIOUS
  <2>2. c = run \/ \E outcome : c = Settle(run, outcome, 0)
    BY <2>1 DEF Closed
  <2>3. Keeps(c, Told) /\ c.verdict = run.verdict
    BY <2>2, RowKeeps, RowAlike DEF Alike
  <2>4. r = [c EXCEPT !.status = status, !.phase = "finished"]
    BY <2>1 DEF Finish
  <2> QED
    BY <2>3, <2>4 DEF Keeps, Row, RowFields
<1> QED
  BY <1>1, <1>2 DEF Keeps, SameCheck, Told

\* What is left of a worker is cleaned up, and the run gets its outcome.
LEMMA ClosedHarmony ==
    ASSUME Inv, Filing, Harmony, WorkerClosed
    PROVE  Harmony'
<1>1. PICK status : run' = Finish(run, status) /\ status \in {"completed", "failed", "cancelled"}
  <2>1. PICK removed \in BOOLEAN : run' = Finish(run, Outcome(removed))
    BY DEF WorkerClosed
  <2>2. Outcome(removed) \in {"completed", "failed", "cancelled"}
    BY DEF Outcome
  <2> QED
    BY <2>1, <2>2
<1>2. /\ host' = [NewHost EXCEPT !.cancelled = host.cancelled, !.failure = host.failure]
      /\ inbox' = <<>> /\ host.place = "working" /\ Row(run)
  BY DEF WorkerClosed, Filing, Shaped
<1>3. /\ run'.policy = run.policy /\ run'.status = status /\ run'.verdict = run.verdict
      /\ run'.check.src = run.check.src /\ run'.check.after = run.check.after
  BY <1>1, <1>2, FinishAlike
<1>4. /\ host'.place = "idle" /\ host'.stopped = FALSE /\ host'.cancelled = host.cancelled
      /\ host'.failure = host.failure
  BY <1>2 DEF NewHost
<1>5. Judged'
  BY <1>2, <1>3 DEF Harmony, Judged
<1>6. Untouched'
  BY <1>1, <1>3, <1>4 DEF Harmony, Untouched
<1>7. HostAcceptsWorker'
  BY <1>3, <1>4 DEF Harmony, HostAcceptsWorker, CriticPolicy
<1> QED
  BY <1>4, <1>5, <1>6, <1>7 DEF Harmony, Going, Live

\* The host leaves the two in step.
LEMMA HostHarmony ==
    ASSUME Inv, Filing, Harmony, Remembers(host), HostNext
    PROVE  Harmony'
<1>1. \/ Agrees \/ GivesUp \/ Denies \/ Resumed \/ (\E verdict \in Verdicts : Gives(verdict)) \/ WorkerClosed
  BY PlainHandled, PrepareHandled, FinishedHandled, UnsettledHandled, ContextHandled, PreparedHandled,
     ResponseHandled, PhaseHandled, CommandHandled, ToolHandled, DenialHandled, CheckHandled,
     CheckpointHandled, RecordHandled, PatchHandled, CandidateHandled, FinalHandled
     DEF HostNext
<1>2. CASE \E verdict \in Verdicts : Gives(verdict)
  BY <1>2, VerdictHarmony
<1> QED
  BY <1>1, <1>2, AgreesHarmony, GivesUpHarmony, DeniesHarmony, ResumedHarmony, ClosedHarmony

\* What any step makes of the host's memory is a record.
LEMMA Remembering ==
    ASSUME Inv, Filing, Remembers(host), [Next]_vars
    PROVE  Remembers(host')
<1>1. CASE WorkerNext
  <2>1. Shaped /\ Paced(w)
    BY DEF Filing
  <2> QED
    BY <1>1, <2>1, WorkerSays
<1>2. CASE StartRun \/ Preparation \/ Cancel \/ Decide \/ Crash \/ CrashInAdmission \/ Restart \/ HostDeadline
  BY <1>2
     DEF StartRun, Preparation, Launch, NotLaunched, Cancel, Decide, Crash, CrashInAdmission, Restart,
         HostDeadline, Failed, Remembers, NewHost
<1>3. CASE Ready \/ Dropped \/ TerminalReceipt \/ RequestPrepare \/ RequestFinished \/ RequestUnsettled
  BY <1>3
     DEF Ready, Dropped, TerminalReceipt, RequestPrepare, RequestFinished, RequestUnsettled,
         Fails, Failed, Remembers
<1>4. CASE ContextPrepare \/ ContextPrepared \/ CriticResponse \/ PhaseStarted \/ CommandStarted \/ CommandFinished
  BY <1>4
     DEF ContextPrepare, ContextPrepared, CriticResponse, PhaseStarted, CommandStarted, CommandFinished,
         Fails, Records, Failed, Remembers
<1>5. CASE DeniedAction \/ CheckReceipt \/ RoutingCheckpoint \/ PlanReceived \/ HandoffReady \/ PatchEvent
  BY <1>5
     DEF DeniedAction, CheckReceipt, RoutingCheckpoint, PlanReceived, HandoffReady, PatchEvent,
         Fails, Records, Failed, Remembers
<1>6. CASE CandidateVerified \/ VerificationStarted \/ VerificationFinished \/ WorkerClosed
  BY <1>6
     DEF CandidateVerified, VerificationStarted, VerificationFinished, WorkerClosed,
         Fails, Records, Failed, Remembers, NewHost
<1>7. CASE UNCHANGED vars
  BY <1>7 DEF vars
<1> QED
  BY <1>1, <1>2, <1>3, <1>4, <1>5, <1>6, <1>7 DEF Next, HostNext

\* A host that is not cancelled need not be told so.
LEMMA PlacedAgain ==
    ASSUME NEW h, DOMAIN h = HostFields, h.cancelled = FALSE, NEW a, NEW b
    PROVE  /\ [h EXCEPT !.place = a] = [h EXCEPT !.place = a, !.cancelled = FALSE]
           /\ [[h EXCEPT !.place = b, !.cancelled = FALSE] EXCEPT !.place = a] = [h EXCEPT !.place = a]
<1>1. PICK g : g = [h EXCEPT !.place = a]
  OBVIOUS
<1>2. PICK k : k = [h EXCEPT !.place = a, !.cancelled = FALSE]
  OBVIOUS
<1>3. PICK m : m = [h EXCEPT !.place = b, !.cancelled = FALSE]
  OBVIOUS
<1>4. PICK n : n = [m EXCEPT !.place = a]
  OBVIOUS
<1>5. DOMAIN m = HostFields /\ \A f \in HostFields \ {"place"} : m[f] = h[f]
  BY <1>3 DEF HostFields
<1>6. /\ g = [f \in HostFields |-> g[f]] /\ k = [f \in HostFields |-> k[f]] /\ n = [f \in HostFields |-> n[f]]
  BY <1>1, <1>2, <1>4, <1>5
<1>7. \A f \in HostFields : g[f] = k[f]
  BY <1>1, <1>2 DEF HostFields
<1>8. \A f \in HostFields : g[f] = n[f]
  BY <1>1, <1>4, <1>5 DEF HostFields
<1>9. g = k
  BY <1>6, <1>7
<1>10. g = n
  BY <1>6, <1>8
<1> QED
  BY <1>1, <1>2, <1>3, <1>4, <1>9, <1>10

\* A run that begins is followed by a host that has nothing to hear yet.
LEMMA BeginHarmony ==
    ASSUME Inv, Filing, Filing', Harmony, StartRun
    PROVE  Harmony'
<1>1. /\ run = NewRun(run.policy) /\ run.policy \in Policies /\ host.up
      /\ host \in {NewHost, [NewHost EXCEPT !.up = FALSE]}
      /\ run' = Start(run) /\ host' = [host EXCEPT !.place = "preparing"] /\ inbox' = inbox
  BY DEF StartRun, Harmony, Untouched
<1>2. host = NewHost
  BY <1>1 DEF NewHost
<1>3. host' = [NewHost EXCEPT !.place = "preparing", !.cancelled = FALSE]
  <2>1. host' = [NewHost EXCEPT !.place = "preparing"]
    BY <1>1, <1>2
  <2>2. [NewHost EXCEPT !.place = "preparing"] = [NewHost EXCEPT !.place = "preparing", !.cancelled = FALSE]
    BY NewShapes, PlacedAgain DEF NewHost
  <2> QED
    BY <2>1, <2>2
<1>4. host'.place = "preparing" /\ host'.failure = "none" /\ ~host'.stopped
  BY <1>3 DEF NewHost
<1>5. /\ run'.policy = run.policy /\ run'.status = "running" /\ run'.verdict = run.verdict
  <2>1. PICK c : c = NewRun(run.policy)
    OBVIOUS
  <2>2. DOMAIN c = RowFields
    BY <2>1 DEF NewRun, RowFields
  <2>3. run = c
    BY <1>1, <2>1
  <2> QED
    BY <1>1, <2>2, <2>3 DEF Start, RowFields
<1>6. Judged'
  BY <1>1, <1>5 DEF Harmony, Judged
<1>7. Untouched'
  BY <1>1, <1>3, <1>4, <1>5 DEF Untouched
<1> QED
  BY <1>4, <1>6, <1>7 DEF Harmony, Going, Live, HostAcceptsWorker

\* The worker starts, and the first the host will hear of it is that it is ready.
LEMMA LaunchHarmony ==
    ASSUME Inv, Filing, Filing', Harmony, Launch
    PROVE  Harmony'
<1>1. /\ run.policy \in Policies /\ run = Start(NewRun(run.policy)) /\ ~host.cancelled
      /\ \E b \in BOOLEAN : host = [NewHost EXCEPT !.place = "preparing", !.cancelled = b]
      /\ run' = SetPhase(run, "preparing") /\ host' = [host EXCEPT !.place = "working"]
      /\ w' = [NoWorker EXCEPT !.at = "boot"] /\ pipe' = <<[type |-> "ready"]>> /\ inbox' = <<>>
  <2>1. host.place = "preparing" /\ inbox = <<>>
    BY DEF Launch, Filing, Placed, Fresh
  <2> QED
    BY <2>1 DEF Launch, Harmony, Untouched
<1>2. host' = [NewHost EXCEPT !.place = "working"]
  <2>1. PICK b \in BOOLEAN : host = [NewHost EXCEPT !.place = "preparing", !.cancelled = b]
    BY <1>1
  <2>2. b = FALSE
    BY <1>1, <2>1 DEF NewHost
  <2>3. DOMAIN NewHost = HostFields /\ NewHost.cancelled = FALSE
    BY NewShapes DEF NewHost
  <2>4. host' = [[NewHost EXCEPT !.place = "preparing", !.cancelled = FALSE] EXCEPT !.place = "working"]
    BY <1>1, <2>1, <2>2
  <2> QED
    BY <2>3, <2>4, PlacedAgain
<1>3. /\ host'.up = TRUE /\ host'.place = "working" /\ host'.stopped = FALSE /\ host'.failure = "none"
      /\ host'.cancelled = FALSE /\ host'.await = "none"
  BY <1>2 DEF NewHost
<1>4. /\ w'.at = "boot" /\ w'.r = NoRouter /\ w'.live = Base /\ w'.calls = 0
      /\ w'.orphan = FALSE /\ w'.cancelled = FALSE /\ w'.unsettled = FALSE
  BY <1>1 DEF NoWorker
<1>5. PICK c : c = NewRun(run.policy)
  OBVIOUS
<1>6. /\ DOMAIN c = RowFields /\ c.policy = run.policy /\ c.cp = NoRouter /\ c.verdict = "none"
      /\ c.last = [phase |-> "none", state |-> "none"]
      /\ c.used = [p \in RequestPhases |-> 0] /\ c.receipts = [p \in RequestPhases |-> 0]
  BY <1>5 DEF NewRun, RowFields
<1>7. run' = SetPhase(Start(NewRun(run.policy)), "preparing") /\ run = Start(c)
  BY <1>1, <1>5
<1>8. /\ run'.policy = run.policy /\ run'.status = "running" /\ run'.verdict = "none" /\ run'.cp = NoRouter
      /\ run'.last = c.last /\ run'.used = c.used /\ run'.receipts = c.receipts
  <2>1. PICK d : d = Start(c)
    OBVIOUS
  <2>2. /\ DOMAIN d = RowFields /\ d.policy = c.policy /\ d.status = "running" /\ d.verdict = c.verdict
        /\ d.cp = c.cp /\ d.last = c.last /\ d.used = c.used /\ d.receipts = c.receipts
    BY <1>6, <2>1 DEF Start, RowFields
  <2>3. run' = SetPhase(d, "preparing")
    BY <1>1, <1>7, <2>1
  <2> QED
    BY <1>6, <2>2, <2>3 DEF SetPhase, RowFields
<1>9. Seen' = [run |-> run', host |-> host']
  BY <1>3 DEF Seen
<1>10. PICK s : s = [run |-> run', host |-> host']
  OBVIOUS
<1>11. \A v : Replayed(v, s, pipe', s)
  <2> DEFINE x == [type |-> "ready"]
  <2>1. x.type = "ready"
    OBVIOUS
  <2>2. Accepts(s, x)
    BY <2>1 DEF Accepts
  <2>3. \A v : After(v, s, x) = s
    BY <2>1 DEF After
  <2>4. \A v : Replayed(v, s, <<x>>, After(v, s, x))
    BY <2>2, OneReplayed
  <2> QED
    BY <1>1, <2>3, <2>4
<1>12. Grounded(s, w')
  <2>1. Row(run') /\ DOMAIN host' = HostFields
    BY DEF Filing, Shaped
  <2>2. s.run = run' /\ s.host = host'
    BY <1>10
  <2>3. DOMAIN run'.last = {"phase", "state"}
    BY <1>6, <1>8
  <2>4. run'.used \in [RequestPhases -> Nat] /\ run'.receipts \in [RequestPhases -> Nat]
    BY <1>6, <1>8
  <2>5. Formal(s)
    BY <2>1, <2>2, <2>3, <2>4 DEF Formal
  <2> QED
    BY <1>4, <1>8, <2>2, <2>5 DEF Grounded, Running
<1>13. Booting(s, w')
  BY <1>1, <1>2, <1>4, <1>7, <1>8, <1>10 DEF Booting
<1>14. \A v : Meets(s, v, w')
  BY <1>4, <1>12, <1>13 DEF Meets, Busy
<1>15. InStep'
  BY <1>8, <1>9, <1>10, <1>11, <1>14 DEF InStep
<1>16. Going'
  BY <1>3, <1>4, <1>8, <1>15 DEF Going, Running
<1>17. Judged' /\ Untouched'
  BY <1>1, <1>3, <1>8 DEF Judged, Untouched
<1> QED
  BY <1>3, <1>16, <1>17 DEF Harmony, HostAcceptsWorker

\* A host without a worker follows no run.
LEMMA IdleHarmony ==
    ASSUME Harmony, host'.place = "idle", host'.stopped = FALSE \/ host' = host,
           host'.failure = "none" \/ host' = host,
           run'.policy = run.policy, run'.verdict = run.verdict, run'.status # "created",
           run'.check.src = run.check.src, run'.check.after = run.check.after, inbox' = inbox
    PROVE  Harmony'
<1>1. Judged'
  BY DEF Harmony, Judged
<1>2. Untouched'
  BY DEF Harmony, Untouched
<1>3. Going'
  BY DEF Going, Live
<1>4. (host.stopped => host.failure # "none" \/ host.cancelled)' /\ HostAcceptsWorker'
  BY DEF Harmony, HostAcceptsWorker, CriticPolicy
<1> QED
  BY <1>1, <1>2, <1>3, <1>4 DEF Harmony

\* The run ends without its worker, or the user stops it.
LEMMA CancelHarmony ==
    ASSUME Inv, Filing, Harmony, NotLaunched \/ Cancel
    PROVE  Harmony'
<1>0. Row(run) /\ DOMAIN host = HostFields
  BY DEF Filing, Shaped
<1>1. CASE NotLaunched
  <2>1. PICK status \in {"cancelled", "blocked", "failed"} : run' = Finish(run, status)
    BY <1>1 DEF NotLaunched
  <2>2. /\ host' = [host EXCEPT !.place = "idle"] /\ inbox' = inbox /\ host.place = "preparing"
    BY <1>1 DEF NotLaunched
  <2>3. \E b \in BOOLEAN : host = [NewHost EXCEPT !.place = "preparing", !.cancelled = b]
    BY <2>2 DEF Harmony, Untouched
  <2>4. host.failure = "none" /\ host.stopped = FALSE
    BY <2>3 DEF NewHost
  <2>5. host'.place = "idle" /\ host'.failure = "none" /\ host'.stopped = FALSE
    BY <1>0, <2>2, <2>4 DEF HostFields
  <2>6. /\ run'.policy = run.policy /\ run'.status = status /\ run'.verdict = run.verdict
        /\ run'.check.src = run.check.src /\ run'.check.after = run.check.after
    BY <1>0, <2>1, FinishAlike
  <2> QED
    BY <2>2, <2>5, <2>6, IdleHarmony
<1>2. CASE Cancel /\ host.place = "idle"
  <2>1. run' = Finish(run, "cancelled") /\ host' = host /\ inbox' = inbox
    BY <1>2 DEF Cancel
  <2>2. /\ run'.policy = run.policy /\ run'.status = "cancelled" /\ run'.verdict = run.verdict
        /\ run'.check.src = run.check.src /\ run'.check.after = run.check.after
    BY <1>0, <2>1, FinishAlike
  <2> QED
    BY <1>2, <2>1, <2>2, IdleHarmony
<1>3. CASE Cancel /\ host.place # "idle"
  <2>1. /\ host' = [host EXCEPT !.cancelled = TRUE, !.stopped = @ \/ host.place = "working"]
        /\ run' = run /\ inbox' = inbox
    BY <1>3 DEF Cancel
  <2>2. /\ host'.cancelled = TRUE /\ host'.place = host.place
        /\ host'.stopped = (host.stopped \/ host.place = "working")
    BY <1>0, <2>1 DEF HostFields
  <2>3. Judged'
    BY <2>1 DEF Harmony, Judged
  <2>4. run.status # "created"
    <3>1. NewHost.place = "idle" /\ [NewHost EXCEPT !.up = FALSE].place = "idle"
      BY DEF NewHost
    <3>2. run.status = "created" => host \in {NewHost, [NewHost EXCEPT !.up = FALSE]}
      BY DEF Harmony, Untouched
    <3> QED
      BY <1>3, <3>1, <3>2
  <2>5. ASSUME host.place = "preparing"
        PROVE  /\ run = Start(NewRun(run.policy))
               /\ host' = [NewHost EXCEPT !.place = "preparing", !.cancelled = TRUE]
    <3>1. run = Start(NewRun(run.policy)) /\ \E b \in BOOLEAN : host = [NewHost EXCEPT !.place = "preparing", !.cancelled = b]
      BY <2>5 DEF Harmony, Untouched
    <3>2. PICK b \in BOOLEAN : host = [NewHost EXCEPT !.place = "preparing", !.cancelled = b]
      BY <3>1
    <3>3. PICK g : g = [NewHost EXCEPT !.place = "preparing", !.cancelled = TRUE]
      OBVIOUS
    <3>4. host'.stopped = FALSE /\ host.stopped = FALSE
      BY <2>2, <2>5, <3>2 DEF NewHost
    <3>5. \A f \in HostFields \ {"cancelled", "stopped"} : host'[f] = host[f]
      BY <1>0, <2>1 DEF HostFields
    <3>6. DOMAIN NewHost = HostFields /\ NewHost.stopped = FALSE
      BY NewShapes DEF NewHost
    <3>7. \A f \in HostFields \ {"cancelled", "stopped"} : host[f] = g[f]
      BY <3>2, <3>3, <3>6 DEF HostFields
    <3>8. g.cancelled = TRUE /\ g.stopped = FALSE
      BY <3>3, <3>6 DEF HostFields
    <3>9. \A f \in HostFields : host'[f] = g[f]
      BY <2>2, <3>4, <3>5, <3>7, <3>8
    <3>10. host' = [f \in HostFields |-> host'[f]] /\ g = [f \in HostFields |-> g[f]]
      BY <1>0, <2>1, <3>3, <3>6
    <3> QED
      BY <3>1, <3>3, <3>9, <3>10
  <2>6. Untouched'
    BY <2>1, <2>2, <2>4, <2>5 DEF Harmony, Untouched
  <2>7. ~Live'
    BY <2>2 DEF Live
  <2> QED
    BY <2>2, <2>3, <2>6, <2>7 DEF Harmony, Going, HostAcceptsWorker
<1> QED
  BY <1>1, <1>2, <1>3

\* A decision about the patch, a crash and a restart.
LEMMA RestHarmony ==
    ASSUME Inv, Filing, Harmony, Decide \/ Crash \/ CrashInAdmission \/ Restart
    PROVE  Harmony'
<1>0. Row(run) /\ DOMAIN host = HostFields
  BY DEF Filing, Shaped
<1>1. CASE Decide
  <2>1. PICK decision : run' = [run EXCEPT !.decision = decision]
    BY <1>1 DEF Decide
  <2>2. host' = host /\ inbox' = inbox /\ run.status \in Terminal
    BY <1>1 DEF Decide, CanDecide
  <2>3. Alike(run')
    BY <1>0, <2>1, RowAlike
  <2>4. host.place \notin {"preparing", "working"} /\ run.status # "created"
    BY <2>2 DEF Filing, Placed, Running, Terminal
  <2>5. Judged' /\ Untouched'
    BY <2>2, <2>3, <2>4 DEF Alike, Harmony, Judged, Untouched
  <2>6. HostAcceptsWorker'
    BY <2>2, <2>3 DEF Alike, Harmony, HostAcceptsWorker, CriticPolicy
  <2> QED
    BY <2>2, <2>4, <2>5, <2>6 DEF Harmony, Going, Live
<1>2. CASE Crash \/ CrashInAdmission
  <2>1. host' = [NewHost EXCEPT !.up = FALSE] /\ inbox' = inbox
    BY <1>2 DEF Crash, CrashInAdmission
  <2>2. run' = run \/ \E phase : run' \in {ReserveRequest(run, phase), StartRequest(ReserveRequest(run, phase))}
    BY <1>2 DEF Crash, CrashInAdmission
  <2>3. Alike(run')
    BY <1>0, <2>2, RowAlike
  <2>4. host'.place = "idle" /\ host'.stopped = FALSE /\ host'.failure = "none"
    BY <2>1 DEF NewHost
  <2>5. CASE run.status = "created"
    <3>1. run' = run
      <4>1. ~Running(run)
        BY <2>5 DEF Running
      <4> QED
        BY <1>2, <4>1 DEF Crash, CrashInAdmission, Admitted, Inert, HostRuns
    <3>2. Untouched' /\ Judged'
      BY <2>1, <2>4, <3>1 DEF Harmony, Untouched, Judged
    <3> QED
      BY <2>4, <3>2 DEF Harmony, Going, Live, HostAcceptsWorker
  <2>6. CASE run.status # "created"
    BY <2>1, <2>3, <2>4, <2>6, IdleHarmony DEF Alike
  <2> QED
    BY <2>5, <2>6
<1>3. CASE Restart
  <2>1. host' = NewHost /\ inbox' = inbox /\ run' = IF Running(run) THEN Finish(run, "interrupted") ELSE run
    BY <1>3 DEF Restart
  <2>2. host'.place = "idle" /\ host'.stopped = FALSE /\ host'.failure = "none"
    BY <2>1 DEF NewHost
  <2>3. CASE Running(run)
    <3>1. /\ run'.policy = run.policy /\ run'.status = "interrupted" /\ run'.verdict = run.verdict
          /\ run'.check.src = run.check.src /\ run'.check.after = run.check.after
      BY <1>0, <2>1, <2>3, FinishAlike
    <3> QED
      BY <2>1, <2>2, <3>1, IdleHarmony
  <2>4. CASE ~Running(run)
    <3>1. Untouched' /\ Judged'
      BY <2>1, <2>2, <2>4 DEF Harmony, Untouched, Judged
    <3> QED
      BY <2>2, <3>1 DEF Harmony, Going, Live, HostAcceptsWorker
  <2> QED
    BY <2>3, <2>4
<1> QED
  BY <1>1, <1>2, <1>3

\* The controller leaves the two in step, or follows the run no longer.
LEMMA ControllerHarmony ==
    ASSUME Inv, Filing, Filing', Harmony,
           \/ StartRun \/ Preparation \/ Cancel \/ Decide \/ Crash \/ CrashInAdmission \/ Restart
           \/ HostDeadline
    PROVE  Harmony'
<1>1. CASE HostDeadline
  <2>1. /\ host.place = "working" /\ host' = Failed(host, "ended")
        /\ run' = run /\ w' = w /\ inbox' = inbox /\ Row(run) /\ DOMAIN host = HostFields
    BY <1>1 DEF HostDeadline, Filing, Shaped
  <2>2. Mild
    BY <2>1, RowAlike, AlikeMild
  <2>3. GivesUp
    BY <2>1, <2>2 DEF GivesUp, Failed, HostFields
  <2> QED
    BY <2>3, GivesUpHarmony
<1> QED
  BY <1>1, BeginHarmony, LaunchHarmony, CancelHarmony, RestHarmony DEF Preparation

\* Before the run begins there is nothing to disagree about.
LEMMA InitHarmony == Init => Harmony /\ Remembers(host)
<1> SUFFICES ASSUME Init PROVE Harmony /\ Remembers(host)
  OBVIOUS
<1>1. PICK policy \in Policies : run = NewRun(policy)
  BY DEF Init
<1>2. host = NewHost /\ inbox = <<>>
  BY DEF Init
<1>3. /\ host.place = "idle" /\ host.failure = "none" /\ host.stopped = FALSE
  BY <1>2 DEF NewHost
<1>4. run.policy = policy /\ run.verdict = "none"
  BY <1>1 DEF NewRun
<1>5. Judged
  BY <1>2, <1>4 DEF Judged
<1>6. Untouched
  BY <1>1, <1>2, <1>3, <1>4 DEF Untouched
<1>7. Remembers(host)
  BY <1>2 DEF Remembers, NewHost
<1> QED
  BY <1>3, <1>5, <1>6, <1>7 DEF Harmony, Going, Live, HostAcceptsWorker

\* The two stay in step.
LEMMA HarmonyInductive ==
    ASSUME Inv, Filing, Filing', Remembers(host), Harmony, [Next]_vars
    PROVE  Harmony'
<1>1. CASE UNCHANGED vars
  BY <1>1
     DEF vars, Harmony, Going, Live, InStep, Seen, Judged, Untouched, HostAcceptsWorker, Running, CriticPolicy
<1> QED
  BY <1>1, WorkerHarmony, HostHarmony, ControllerHarmony DEF Next

(***************************************************************************)
(* The host and the store refuse nothing that an honest worker reports     *)
(* (worker.ts:316-844), but for a checkpoint after the user's cancel and   *)
(* the one behind an exact check that edited a critic run's tree           *)
(* (store.ts:84): whatever events are still on their way, the host will    *)
(* accept each of them, and be where the worker is when it has.            *)
(***************************************************************************)
THEOREM HostAccepts == Spec => []HostAcceptsWorker
<1>1. Init => Inv /\ Filing /\ Harmony /\ Remembers(host)
  BY InitKeeps, InitFiles, InitHarmony
<1>2. Inv /\ Filing /\ Harmony /\ Remembers(host) /\ [Next]_vars => Inv' /\ Filing' /\ Harmony' /\ Remembers(host)'
  <2> SUFFICES ASSUME Inv, Filing, Harmony, Remembers(host), [Next]_vars
               PROVE  Inv' /\ Filing' /\ Harmony' /\ Remembers(host)'
    OBVIOUS
  <2>1. Inv' /\ Filing'
    BY Inductive, FilingInductive
  <2>2. Remembers(host)'
    BY Remembering
  <2> QED
    BY <2>1, <2>2, HarmonyInductive
<1>3. Harmony => HostAcceptsWorker
  BY DEF Harmony
<1> QED
  BY <1>1, <1>2, <1>3, PTL DEF Spec

=============================================================================
