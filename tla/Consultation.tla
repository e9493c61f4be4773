----------------------------- MODULE Consultation -----------------------------
(***************************************************************************)
(* The one consultation of a task (consultation.ts): proposed by the run,  *)
(* decided by the user through the controller, dispatched and answered at  *)
(* most once, and read by every later run.  All of it lives in the event   *)
(* log, the grant and the dispatch row; a resume() that is lost in a crash *)
(* leaves only those.  Its specification is named Consult..., so that the  *)
(* proofs about a task can extend it beside TaskController.                *)
(***************************************************************************)
EXTENDS Naturals, Sequences

CONSTANTS
    Managers,  \* GeneralConsultation objects on which resume() may be running
    None

ASSUME ConsultationAssumption == None \notin {"approve", "decline", "revoke", "content", "declined", "revoked"}

VARIABLES
    proposed,  \* consultation_proposed was recorded
    drift,     \* what is no longer as the proposal has it
    decision,  \* the last consultation_decision
    grant,     \* the grant the approval made
    attempts,  \* consultation_attempted events
    rows,      \* the statuses of the dispatch rows that carry the proposal
    response,  \* consultation_response was recorded
    claimed,   \* a run has the context
    pc,        \* where each resume() is
    heard,     \* the resumes whose signal has fired
    advice     \* what a resume() returned; None if it threw or still runs

consultDurable == <<proposed, drift, decision, grant, attempts, rows, response, claimed>>
consultVars == <<consultDurable, pc, heard, advice>>

Drifts == {"profile", "cancelled", "deadline", "context", "checkpoint"}

\* The part of current() that needs no proposal.
SessionDrifts == {"profile", "cancelled", "deadline"}

Dispatching == {"scanning", "sending", "settled"}
Unattended == \A m \in Managers : pc[m] = "idle"

-----------------------------------------------------------------------------
(* state() *)

RowIs(status) == \E i \in 1 .. Len(rows) : rows[i] = status

ResponseBound == response /\ RowIs("settled")

\* Fault: an attempt that left no row is taken for one that was not made.
UncertainRow == rows # <<>> /\ ~ResponseBound /\ ~RowIs("failed")

Uncertain == (attempts > 0 \/ rows # <<>> \/ response) /\ ~ResponseBound /\ ~RowIs("failed")

\* Fault: an attempt that failed leaves the approval standing.
StatusRetried ==
    IF decision = "revoke" THEN "revoked"
    ELSE IF decision = "decline" THEN "declined"
    ELSE IF ResponseBound THEN "settled"
    ELSE IF attempts > 0 /\ ~RowIs("failed") THEN "dispatching"
    ELSE IF decision = "approve" THEN "approved" ELSE "pending"

Status ==
    IF decision = "revoke" THEN "revoked"
    ELSE IF decision = "decline" THEN "declined"
    ELSE IF ResponseBound THEN "settled"
    ELSE IF attempts > 0 THEN IF RowIs("failed") \/ RowIs("unknown") THEN "failed" ELSE "dispatching"
    ELSE IF decision = "approve" THEN "approved" ELSE "pending"

-----------------------------------------------------------------------------
ConsultInit ==
    /\ proposed = FALSE /\ drift = {} /\ decision = None /\ grant = "none"
    /\ attempts = 0 /\ rows = <<>> /\ response = FALSE /\ claimed = FALSE
    /\ pc = [m \in Managers |-> "idle"] /\ heard = {}
    /\ advice = [m \in Managers |-> None]

\* What a resume holds, returned or thrown.
Return(m, what) ==
    /\ pc' = [pc EXCEPT ![m] = "idle"]
    /\ advice' = [advice EXCEPT ![m] = what]
    /\ heard' = heard \ {m}

Continue(m, where) == pc' = [pc EXCEPT ![m] = where] /\ UNCHANGED <<heard, advice>>

-----------------------------------------------------------------------------
(* Proposal and decisions *)

\* propose(): binds the context and the checkpoint as they are.
Propose ==
    /\ claimed /\ Unattended
    /\ ~proposed /\ drift \intersect SessionDrifts = {}
    /\ proposed' = TRUE /\ drift' = {}
    /\ UNCHANGED <<decision, grant, attempts, rows, response, claimed, pc, heard, advice>>

\* decide() with the exact grant, in one transaction.
Approve ==
    /\ proposed /\ Status = "pending"
    /\ ~claimed
    /\ drift = {}
    /\ decision' = "approve" /\ grant' = "live"
    /\ UNCHANGED <<proposed, drift, attempts, rows, response, claimed, pc, heard, advice>>

GrantRevoked == IF grant = "live" THEN "revoked" ELSE grant

\* decideWithoutDispatch().
Decline ==
    /\ proposed /\ Status = "pending"
    /\ ~claimed
    /\ decision' = "decline" /\ grant' = GrantRevoked
    /\ UNCHANGED <<proposed, drift, attempts, rows, response, claimed, pc, heard, advice>>

\* A revocation, at any time, aborts the dispatch of the manager it goes through.
Revoke(listening) ==
    /\ proposed /\ decision # "revoke"
    /\ decision' = "revoke" /\ grant' = GrantRevoked
    /\ heard' = heard \union listening
    /\ UNCHANGED <<proposed, drift, attempts, rows, response, claimed, pc, advice>>

-----------------------------------------------------------------------------
(* resume() *)

Start(m) == pc[m] = "idle" /\ claimed /\ proposed

\* The head of resume(): it ends at once, unless the approved packet can go out.
ResumeEnds(m) ==
    /\ Start(m)
    /\ LET blocked == Uncertain \/ Status = "pending"
           told == Status \in {"declined", "revoked"}
           current == drift \intersect SessionDrifts = {} IN
       /\ blocked \/ Status # "approved" \/ drift # {}
       /\ Return(m, IF blocked THEN None
                    ELSE IF told THEN Status
                    ELSE IF current /\ ResponseBound THEN "content" ELSE None)
    /\ UNCHANGED consultDurable

\* The run's signal has fired before the head.
ResumeAborted(m) ==
    /\ Start(m) /\ ~Uncertain /\ Status \in {"approved", "settled", "failed"}
    /\ Return(m, None)
    /\ UNCHANGED consultDurable

\* consultation_attempted is durable before the broker is asked.
Attempt(m) ==
    /\ Start(m)
    /\ ~Uncertain /\ Status = "approved" /\ drift = {}
    /\ attempts' = attempts + 1
    /\ pc' = [pc EXCEPT ![m] = "scanning"] /\ advice' = [advice EXCEPT ![m] = None]
    /\ UNCHANGED <<proposed, drift, decision, grant, rows, response, claimed, heard>>

\* Fault: what the head of resume() checked is not checked again.
CommittableStale(m) == m \notin heard /\ grant = "live" /\ rows = <<>>

\* commit's own conditions and validateAtCommit.
Committable(m) ==
    /\ drift = {} /\ decision = "approve" /\ m \notin heard
    /\ grant = "live" /\ rows = <<>>

Commit(m) ==
    /\ pc[m] = "scanning"
    /\ Committable(m)
    /\ rows' = Append(rows, "committed") /\ grant' = "used"
    /\ Continue(m, "sending")
    /\ UNCHANGED <<proposed, drift, decision, attempts, response, claimed>>

\* The broker denies the packet, or its commit is refused.
Denied(m) ==
    /\ pc[m] = "scanning"
    /\ Return(m, None)
    /\ UNCHANGED consultDurable

CloseRow(status) == rows' = [i \in 1 .. Len(rows) |-> IF rows[i] = "committed" THEN status ELSE rows[i]]

Settle(m) ==
    /\ pc[m] = "sending"
    /\ CloseRow("settled")
    /\ Continue(m, "settled")
    /\ UNCHANGED <<proposed, drift, decision, grant, attempts, response, claimed>>

SendFails(m) ==
    /\ pc[m] = "sending"
    /\ \E status \in {"failed", "unknown"} : CloseRow(status)
    /\ Return(m, None)
    /\ UNCHANGED <<proposed, drift, decision, grant, attempts, response, claimed>>

\* Fault: the decision is the one resume() began with.
DecidedBefore == "content"

\* The decision is read again once the response is durable.
DecidedNow == IF decision = "revoke" THEN "revoked" ELSE "content"

\* The response is recorded; a cancel or the deadline may have come since.
Retain(m) ==
    /\ pc[m] = "settled"
    /\ response' = TRUE
    /\ \E what \in {None, DecidedNow} :
         /\ drift \intersect {"cancelled", "deadline"} # {} => what = None
         /\ Return(m, what)
    /\ UNCHANGED <<proposed, drift, decision, grant, attempts, rows, claimed>>

\* The checkpoint store or the log fails.
RetainFails(m) ==
    /\ pc[m] = "settled"
    /\ Return(m, None)
    /\ UNCHANGED consultDurable

-----------------------------------------------------------------------------
(* The run, the user and the host *)

\* A run takes or gives up its context; while it goes on it saves checkpoints.
Claim ==
    /\ Unattended
    /\ claimed' = ~claimed
    /\ advice' = [m \in Managers |-> None]
    /\ UNCHANGED <<proposed, drift, decision, grant, attempts, rows, response, pc, heard>>

Drift(what) ==
    /\ what \notin drift
    /\ what \in {"context", "checkpoint"} => Unattended
    /\ what = "checkpoint" => claimed
    /\ drift' = drift \union {what}
    /\ heard' \in IF what = "cancelled" THEN {{m \in Managers : pc[m] # "idle"}} ELSE {heard}
    /\ UNCHANGED <<proposed, decision, grant, attempts, rows, response, claimed, pc, advice>>

\* A configuration is put back as it was.
Restored ==
    /\ "profile" \in drift /\ drift' = drift \ {"profile"}
    /\ UNCHANGED <<proposed, decision, grant, attempts, rows, response, claimed, pc, heard, advice>>

Crash ==
    /\ pc' = [m \in Managers |-> "idle"] /\ heard' = {} /\ advice' = [m \in Managers |-> None]
    /\ UNCHANGED consultDurable

ConsultNext ==
    \/ Propose \/ Approve \/ Decline
    \/ \E listening \in SUBSET {m \in Managers : pc[m] # "idle"} : Revoke(listening)
    \/ \E m \in Managers :
         \/ ResumeEnds(m) \/ ResumeAborted(m) \/ Attempt(m) \/ Commit(m) \/ Denied(m)
         \/ Settle(m) \/ SendFails(m) \/ Retain(m) \/ RetainFails(m)
    \/ Claim \/ Restored \/ Crash
    \/ \E what \in Drifts : Drift(what)

ConsultSpec == ConsultInit /\ [][ConsultNext]_consultVars

-----------------------------------------------------------------------------
(* Properties *)

ConsultTypeOK ==
    /\ proposed \in BOOLEAN /\ response \in BOOLEAN /\ claimed \in BOOLEAN
    /\ drift \subseteq Drifts
    /\ decision \in {None, "approve", "decline", "revoke"}
    /\ grant \in {"none", "live", "used", "revoked"}
    /\ attempts \in Nat
    /\ rows \in Seq({"committed", "settled", "failed", "unknown"})
    /\ pc \in [Managers -> {"idle"} \union Dispatching]
    /\ heard \subseteq Managers
    /\ advice \in [Managers -> {None, "content", "declined", "revoked"}]

\* The consultant is asked at most once for a task, over all runs, managers and
\* crashes, whatever became of the first request.
AskedOnce == attempts <= 1 /\ Len(rows) <= 1

\* "Revalidate the exact preview, consent, deadline and frozen provider identity
\* at commitment": the packet leaves only as it was approved, however long the
\* scan before its commit took.
LeavesAsApproved == [][Len(rows') > Len(rows) => drift = {} /\ decision = "approve"]_consultVars

\* A grant that can still pay belongs to a standing approval.
GrantFollowsDecision == grant = "live" => decision = "approve"

\* "Never exposes late advice to the local model": what a resume() returns as
\* advice was settled, is durable, and was not revoked by then.
AdviceIsCurrent ==
    [][\A m \in Managers : advice'[m] = "content" /\ advice[m] # "content" =>
         decision' = "approve" /\ response' /\ \E i \in 1 .. Len(rows') : rows'[i] = "settled"]_consultVars

\* The attempt was made and nobody can learn its outcome any more.
Lost == Unattended /\ attempts > 0 /\ ~ResponseBound /\ ~RowIs("failed")

\* "An unknown dispatch or missing durable response stops further inference":
\* no resume() ever returns again, so no run gets past it.
LostStopsTheTask == [][Lost => \A m \in Managers : advice'[m] \in {None, advice[m]}]_consultVars

=============================================================================
