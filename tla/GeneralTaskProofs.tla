--------------------------- MODULE GeneralTaskProofs ---------------------------
(***************************************************************************)
(* Proofs about a general task.  Its consultation: one request, a grant    *)
(* that never outlives its decision, current advice and no way past a lost *)
(* request, for any number of managers.  Its controller: what is shown as  *)
(* running runs, a cancel is for good, and a completion can always still   *)
(* be submitted, for any tasks.                                            *)
(***************************************************************************)
EXTENDS Consultation, TaskController, SequenceTheorems, TLAPS

RowStatuses == {"committed", "settled", "failed", "unknown"}

-----------------------------------------------------------------------------
(* The consultation: the inductive invariant *)

\* Without an attempt there is nothing on the way, and with one there is one.
AttemptTells ==
    /\ attempts \in {0, 1}
    /\ attempts = 0 => Unattended /\ rows = <<>> /\ ~response
    /\ \A m, n \in Managers : pc[m] # "idle" /\ pc[n] # "idle" => m = n

\* The row of a dispatch follows its manager.
RowFollows ==
    /\ Len(rows) <= 1
    /\ \A m \in Managers :
         /\ pc[m] = "sending" => RowIs("committed")
         /\ pc[m] = "settled" => RowIs("settled")

\* What was attempted had been approved, and can only be revoked since.
ApprovedFirst ==
    /\ attempts > 0 => decision \in {"approve", "revoke"}
    /\ grant = "live" => decision = "approve"

ConsultInv == ConsultTypeOK /\ AttemptTells /\ RowFollows /\ ApprovedFirst

LEMMA InitConsultInv == ConsultInit => ConsultInv
<1>1. ConsultInit => rows \in Seq(RowStatuses) /\ Len(rows) = 0
  BY DEF ConsultInit
<1>2. ConsultInit => ConsultTypeOK
  <2>. SUFFICES ASSUME ConsultInit PROVE ConsultTypeOK
    OBVIOUS
  <2>1. rows \in Seq({"committed", "settled", "failed", "unknown"})
    BY <1>1 DEF RowStatuses
  <2>2. pc \in [Managers -> {"idle"} \union Dispatching] /\ heard \subseteq Managers
    BY DEF ConsultInit
  <2>3. advice \in [Managers -> {None, "content", "declined", "revoked"}]
    BY DEF ConsultInit
  <2>4. QED
    BY <2>1, <2>2, <2>3 DEF ConsultInit, ConsultTypeOK
<1>3. ConsultInit => AttemptTells /\ RowFollows /\ ApprovedFirst
  BY <1>1, ConsultationAssumption DEF ConsultInit, AttemptTells, RowFollows, ApprovedFirst, Unattended
<1>4. QED
  BY <1>2, <1>3 DEF ConsultInv

\* Closing the row of a request keeps every other row and the number of them.
LEMMA RowsClosed ==
    ASSUME ConsultTypeOK, NEW outcome \in RowStatuses, CloseRow(outcome)
    PROVE  /\ rows' \in Seq(RowStatuses) /\ Len(rows') = Len(rows)
           /\ \A i \in 1 .. Len(rows) :
                rows'[i] = IF rows[i] = "committed" THEN outcome ELSE rows[i]
<1>1. rows \in Seq(RowStatuses) /\ Len(rows) \in Nat
  BY DEF ConsultTypeOK, RowStatuses
<1>2. \A i \in 1 .. Len(rows) : rows[i] \in RowStatuses
  BY <1>1
<1>3. rows' \in [1 .. Len(rows) -> RowStatuses]
  BY <1>1, <1>2 DEF CloseRow, RowStatuses
<1>4. rows' \in Seq(RowStatuses) /\ Len(rows') = Len(rows)
  BY <1>1, <1>3, SeqDef, LenProperties
<1>5. QED
  BY <1>1, <1>4 DEF CloseRow

-----------------------------------------------------------------------------
(* Every step keeps it *)

LEMMA DecisionsKept ==
    ASSUME ConsultInv, Propose \/ Approve \/ Decline
                 \/ \E listening \in SUBSET {m \in Managers : pc[m] # "idle"} : Revoke(listening)
    PROVE  ConsultInv'
<1>. USE DEF ConsultInv, ConsultTypeOK, AttemptTells, RowFollows, ApprovedFirst, Unattended, Dispatching, RowIs
<1>1. CASE Propose
  BY <1>1 DEF Propose
<1>2. CASE Approve
  BY <1>2 DEF Approve, Status
<1>3. CASE Decline
  BY <1>3, ConsultationAssumption DEF Decline, Status, GrantRevoked
<1>4. CASE \E listening \in SUBSET {m \in Managers : pc[m] # "idle"} : Revoke(listening)
  BY <1>4 DEF Revoke, GrantRevoked
<1>5. QED
  BY <1>1, <1>2, <1>3, <1>4

\* A resume that ends returns what it has, and leaves its row to others.
LEMMA EndsKept ==
    ASSUME ConsultInv, NEW m \in Managers, ResumeEnds(m) \/ ResumeAborted(m) \/ Denied(m) \/ RetainFails(m)
    PROVE  ConsultInv'
<1>1. PICK what \in {None, "content", "declined", "revoked"} : Return(m, what) /\ UNCHANGED consultDurable
  BY DEF ResumeEnds, ResumeAborted, Denied, RetainFails
<1>2. QED
  BY <1>1 DEF ConsultInv, ConsultTypeOK, AttemptTells, RowFollows, ApprovedFirst, Unattended, Dispatching, RowIs,
     Return, consultDurable

LEMMA AttemptKept ==
    ASSUME ConsultInv, NEW m \in Managers, Attempt(m)
    PROVE  ConsultInv'
BY DEF ConsultInv, ConsultTypeOK, AttemptTells, RowFollows, ApprovedFirst, Unattended, Dispatching, RowIs,
   Attempt, Start, Status

\* Nothing else is on the way when the packet leaves.
LEMMA CommitKept ==
    ASSUME ConsultInv, NEW m \in Managers, Commit(m)
    PROVE  ConsultInv'
<1>1. rows = <<>> /\ rows' = <<"committed">>
  BY DEF Commit, Committable
<1>2. rows' \in Seq({"committed", "settled", "failed", "unknown"}) /\ Len(rows') = 1
      /\ rows'[1] = "committed"
  BY <1>1
<1>3. ConsultTypeOK' /\ AttemptTells'
  BY <1>2 DEF ConsultInv, ConsultTypeOK, AttemptTells, Unattended, Dispatching, Commit, Continue
<1>4. RowFollows'
  BY <1>2 DEF ConsultInv, ConsultTypeOK, AttemptTells, RowFollows, RowIs, Commit, Continue
<1>5. ApprovedFirst'
  BY DEF ConsultInv, ApprovedFirst, Commit
<1>6. QED
  BY <1>3, <1>4, <1>5 DEF ConsultInv

LEMMA SettleKept ==
    ASSUME ConsultInv, NEW m \in Managers, Settle(m)
    PROVE  ConsultInv'
<1>1. /\ rows' \in Seq(RowStatuses) /\ Len(rows') = Len(rows)
      /\ \A i \in 1 .. Len(rows) :
           rows'[i] = IF rows[i] = "committed" THEN "settled" ELSE rows[i]
  BY RowsClosed DEF Settle, ConsultInv, RowStatuses
<1>2. ConsultTypeOK' /\ AttemptTells'
  BY <1>1 DEF ConsultInv, ConsultTypeOK, AttemptTells, Unattended, Dispatching, Settle, Continue, RowStatuses
<1>3. RowFollows'
  BY <1>1 DEF ConsultInv, ConsultTypeOK, AttemptTells, RowFollows, RowIs, Settle, Continue
<1>4. ApprovedFirst'
  BY DEF ConsultInv, ApprovedFirst, Settle
<1>5. QED
  BY <1>2, <1>3, <1>4 DEF ConsultInv

LEMMA SendFailsKept ==
    ASSUME ConsultInv, NEW m \in Managers, SendFails(m)
    PROVE  ConsultInv'
<1>1. PICK outcome \in {"failed", "unknown"} : CloseRow(outcome)
  BY DEF SendFails
<1>2. /\ rows' \in Seq(RowStatuses) /\ Len(rows') = Len(rows)
      /\ \A i \in 1 .. Len(rows) :
           rows'[i] = IF rows[i] = "committed" THEN outcome ELSE rows[i]
  BY <1>1, RowsClosed DEF ConsultInv, RowStatuses
<1>3. ConsultTypeOK' /\ AttemptTells'
  BY <1>2 DEF ConsultInv, ConsultTypeOK, AttemptTells, Unattended, Dispatching, SendFails, Return, RowStatuses
<1>4. RowFollows'
  BY <1>2 DEF ConsultInv, ConsultTypeOK, AttemptTells, RowFollows, RowIs, SendFails, Return
<1>5. ApprovedFirst'
  BY DEF ConsultInv, ApprovedFirst, SendFails
<1>6. QED
  BY <1>3, <1>4, <1>5 DEF ConsultInv

LEMMA RetainKept ==
    ASSUME ConsultInv, NEW m \in Managers, Retain(m)
    PROVE  ConsultInv'
<1>1. PICK what \in {None, DecidedNow} : Return(m, what)
  BY DEF Retain
<1>2. QED
  BY <1>1 DEF ConsultInv, ConsultTypeOK, AttemptTells, RowFollows, ApprovedFirst, Unattended, Dispatching, RowIs,
     Retain, Return, DecidedNow

LEMMA WorldKept ==
    ASSUME ConsultInv, Claim \/ Restored \/ Crash \/ (\E what \in Drifts : Drift(what))
    PROVE  ConsultInv'
<1>1. CASE Claim
  BY <1>1 DEF ConsultInv, ConsultTypeOK, AttemptTells, RowFollows, ApprovedFirst, Unattended, Dispatching, RowIs,
     Claim
<1>2. CASE Restored
  BY <1>2 DEF ConsultInv, ConsultTypeOK, AttemptTells, RowFollows, ApprovedFirst, Unattended, Dispatching, RowIs,
     Restored
<1>3. CASE Crash
  BY <1>3 DEF ConsultInv, ConsultTypeOK, AttemptTells, RowFollows, ApprovedFirst, Unattended, Dispatching, RowIs,
     Crash, consultDurable
<1>4. CASE \E what \in Drifts : Drift(what)
  BY <1>4 DEF ConsultInv, ConsultTypeOK, AttemptTells, RowFollows, ApprovedFirst, Unattended, Dispatching, RowIs,
     Drift, Drifts
<1>5. QED
  BY <1>1, <1>2, <1>3, <1>4

LEMMA ConsultStepKept == ConsultInv /\ [ConsultNext]_consultVars => ConsultInv'
<1>1. ASSUME ConsultInv, UNCHANGED consultVars PROVE ConsultInv'
  BY <1>1 DEF ConsultInv, ConsultTypeOK, AttemptTells, RowFollows, ApprovedFirst, Unattended, Dispatching, RowIs,
     consultVars, consultDurable
<1>2. QED
  BY <1>1, DecisionsKept, EndsKept, AttemptKept, CommitKept, SettleKept, SendFailsKept, RetainKept,
     WorldKept DEF ConsultNext

LEMMA ConsultKept == ConsultSpec => []ConsultInv
<1>. QED
  BY InitConsultInv, ConsultStepKept, PTL DEF ConsultSpec

-----------------------------------------------------------------------------
(* Theorems *)

\* The state has its types for any set of managers.
THEOREM ConsultationTyped == ConsultSpec => []ConsultTypeOK
<1>1. ConsultInv => ConsultTypeOK
  BY DEF ConsultInv
<1>. QED
  BY <1>1, ConsultKept, PTL

\* However many managers resume, and however often the host dies, resume() makes
\* one attempt and the broker gets one row.
THEOREM OneRequest == ConsultSpec => []AskedOnce
<1>1. ConsultInv => AskedOnce
  BY DEF ConsultInv, AttemptTells, RowFollows, AskedOnce
<1>. QED
  BY <1>1, ConsultKept, PTL

\* A revoked approval leaves no grant that pays.
THEOREM GrantEndsWithDecision == ConsultSpec => []GrantFollowsDecision
<1>1. ConsultInv => GrantFollowsDecision
  BY DEF ConsultInv, ApprovedFirst, GrantFollowsDecision
<1>. QED
  BY <1>1, ConsultKept, PTL

-----------------------------------------------------------------------------
(* What a step may return *)

LEMMA ContentIsCurrent ==
    ASSUME ConsultInv, ConsultNext, NEW m \in Managers, advice'[m] = "content", advice[m] # "content"
    PROVE  decision' = "approve" /\ response' /\ RowIs("settled")'
<1>. USE ConsultationAssumption DEF ConsultInv, ConsultTypeOK
<1>1. CASE \E n \in Managers : ResumeEnds(n)
  <2>1. PICK n \in Managers : ResumeEnds(n)
    BY <1>1
  <2>2. ResponseBound /\ decision \notin {"revoke", "decline"}
    BY <2>1 DEF ResumeEnds, Return, Status
  <2>3. attempts > 0
    BY <2>2 DEF ResponseBound, AttemptTells
  <2>4. QED
    BY <2>1, <2>2, <2>3 DEF ResumeEnds, consultDurable, ResponseBound, ApprovedFirst, RowIs
<1>2. CASE \E n \in Managers : Retain(n)
  <2>1. PICK n \in Managers : Retain(n)
    BY <1>2
  <2>2. PICK what \in {None, DecidedNow} : Return(n, what)
    BY <2>1 DEF Retain
  <2>3. DecidedNow = "content" /\ decision # "revoke"
    BY <2>2 DEF Return, DecidedNow
  <2>4. attempts > 0
    BY <2>1 DEF Retain, AttemptTells, Unattended
  <2>5. QED
    BY <2>1, <2>3, <2>4 DEF Retain, RowFollows, ApprovedFirst, RowIs
<1>3. CASE \E n \in Managers : ResumeAborted(n) \/ Attempt(n) \/ Denied(n) \/ SendFails(n) \/ RetainFails(n)
  BY <1>3 DEF ResumeAborted, Attempt, Denied, SendFails, RetainFails, Return
<1>4. CASE \E n \in Managers : Commit(n) \/ Settle(n)
  BY <1>4 DEF Commit, Settle, Continue
<1>5. CASE Propose \/ Approve \/ Decline \/ Claim \/ Restored \/ Crash
  BY <1>5 DEF Propose, Approve, Decline, Claim, Restored, Crash
<1>6. CASE \E listening \in SUBSET {n \in Managers : pc[n] # "idle"} : Revoke(listening)
  BY <1>6 DEF Revoke
<1>7. CASE \E what \in Drifts : Drift(what)
  BY <1>7 DEF Drift
<1>8. QED
  BY <1>1, <1>2, <1>3, <1>4, <1>5, <1>6, <1>7 DEF ConsultNext

\* "Never exposes late advice to the local model": whatever a resume hands out
\* was approved, settled and recorded, and not revoked.
THEOREM AdviceStaysCurrent == ConsultSpec => AdviceIsCurrent
<1>1. ASSUME ConsultInv, [ConsultNext]_consultVars
      PROVE  [\A m \in Managers : advice'[m] = "content" /\ advice[m] # "content" =>
                decision' = "approve" /\ response' /\ \E i \in 1 .. Len(rows') : rows'[i] = "settled"]_consultVars
  BY <1>1, ContentIsCurrent DEF RowIs, consultVars
<1>2. QED
  BY <1>1, ConsultKept, PTL DEF ConsultSpec, AdviceIsCurrent

\* "Revalidate the exact preview, consent, deadline and frozen provider identity at
\* commitment": the only step that adds a row is the commit, whose transaction looks again
\* at what the head of resume() saw before the scan.
THEOREM RequestLeavesAsApproved == ConsultSpec => LeavesAsApproved
<1>1. ASSUME ConsultInv, [ConsultNext]_consultVars, Len(rows') > Len(rows)
      PROVE  drift = {} /\ decision = "approve"
  <2>1. Len(rows) \in Nat /\ ~(Len(rows) > Len(rows))
    BY <1>1 DEF ConsultInv, ConsultTypeOK
  <2>2. rows' # rows /\ Len(rows') # Len(rows)
    BY <1>1, <2>1
  <2>3. ConsultTypeOK /\ ConsultNext
    BY <1>1, <2>2 DEF ConsultInv, consultVars, consultDurable
  <2>4. CASE \E m \in Managers : Commit(m)
    BY <2>4 DEF Commit, Committable
  <2>5. CASE \E m \in Managers : Settle(m) \/ SendFails(m)
    <3>1. PICK outcome \in RowStatuses : CloseRow(outcome)
      BY <2>5 DEF Settle, SendFails, RowStatuses
    <3>2. QED
      BY <2>2, <2>3, <3>1, RowsClosed
  <2>6. CASE \E m \in Managers : \/ ResumeEnds(m) \/ ResumeAborted(m) \/ Attempt(m) \/ Denied(m)
                               \/ Retain(m) \/ RetainFails(m)
    BY <2>2, <2>6 DEF ResumeEnds, ResumeAborted, Attempt, Denied, Retain, RetainFails, consultDurable
  <2>7. CASE \/ Propose \/ Approve \/ Decline \/ Claim \/ Restored \/ Crash
             \/ \E what \in Drifts : Drift(what)
             \/ \E listening \in SUBSET {m \in Managers : pc[m] # "idle"} : Revoke(listening)
    BY <2>2, <2>7 DEF Propose, Approve, Decline, Claim, Restored, Crash, Drift, Revoke,
       consultDurable
  <2>8. QED
    BY <2>3, <2>4, <2>5, <2>6, <2>7 DEF ConsultNext
<1>2. ConsultInv /\ [ConsultNext]_consultVars =>
        [Len(rows') > Len(rows) => drift = {} /\ decision = "approve"]_consultVars
  BY <1>1
<1>3. QED
  BY <1>2, ConsultKept, PTL DEF ConsultSpec, LeavesAsApproved

LEMMA LostIsUncertain == Lost /\ ConsultTypeOK => Uncertain
BY DEF Lost, Uncertain, ConsultTypeOK

\* After a request whose outcome nobody can learn, every resume throws.
THEOREM LostIsFinal == ConsultSpec => LostStopsTheTask
<1>1. ASSUME ConsultInv, [ConsultNext]_consultVars
      PROVE  [Lost => \A m \in Managers : advice'[m] \in {None, advice[m]}]_consultVars
  <2>. SUFFICES ASSUME ConsultNext, Lost, NEW m \in Managers PROVE advice'[m] \in {None, advice[m]}
    BY <1>1 DEF consultVars
  <2>. USE <1>1 DEF ConsultInv, ConsultTypeOK
  <2>1. Uncertain /\ Unattended
    BY LostIsUncertain DEF Lost
  <2>2. ASSUME NEW n \in Managers, ResumeEnds(n) \/ ResumeAborted(n) PROVE advice'[m] \in {None, advice[m]}
    BY <2>1, <2>2 DEF ResumeEnds, ResumeAborted, Return
  <2>3. ASSUME NEW n \in Managers, Attempt(n) PROVE advice'[m] \in {None, advice[m]}
    BY <2>1, <2>3 DEF Attempt
  <2>4. ASSUME NEW n \in Managers,
               Commit(n) \/ Denied(n) \/ Settle(n) \/ SendFails(n) \/ Retain(n) \/ RetainFails(n)
        PROVE  advice'[m] \in {None, advice[m]}
    BY <2>1, <2>4 DEF Unattended, Commit, Denied, Settle, SendFails, Retain, RetainFails
  <2>5. CASE Propose \/ Approve \/ Decline \/ Claim \/ Restored \/ Crash
    BY <2>5 DEF Propose, Approve, Decline, Claim, Restored, Crash
  <2>6. CASE \E listening \in SUBSET {n \in Managers : pc[n] # "idle"} : Revoke(listening)
    BY <2>6 DEF Revoke
  <2>7. CASE \E what \in Drifts : Drift(what)
    BY <2>7 DEF Drift
  <2>8. QED
    BY <2>2, <2>3, <2>4, <2>5, <2>6, <2>7 DEF ConsultNext
<1>2. QED
  BY <1>1, ConsultKept, PTL DEF ConsultSpec, LostStopsTheTask

-----------------------------------------------------------------------------
(* The controller: the inductive invariant *)

\* A cancel is in the record and, while its entry lasts, in what that was asked.
AskedAsShown ==
    \A t \in Tasks :
        /\ stage[t] \in Executing => (status[t] = "cancelled" <=> "cancel" \in asked[t])
        /\ stage[t] = "cleaning" => status[t] = "cancelled"
        /\ Idle(t) => asked[t] = {}

\* What a completion excludes, and what goes on only with one.
CompletionStands ==
    \A t \in Tasks :
        /\ "completed" \in log[t] => t \notin blocked /\ consult[t] # "pending" /\ stage[t] # "working"
        /\ stage[t] = "judging" => "completed" \in log[t] /\ "submitted" \in log[t]
        /\ status[t] = "queued" => log[t] = {} /\ t \notin blocked
        /\ stage[t] \in Executing => t \notin blocked

IInv ==
    /\ TypeOK /\ RunningHasAnEntry /\ AskedAsShown /\ CompletionStands
    /\ CompletionOutlivesDeadline

LEMMA InitIInv == Init => IInv
<1>. SUFFICES ASSUME Init PROVE IInv
  OBVIOUS
<1>1. TypeOK
  BY DEF Init, TypeOK, Statuses, Executing
<1>2. RunningHasAnEntry /\ AskedAsShown /\ CompletionStands
  BY DEF Init, RunningHasAnEntry, AskedAsShown, CompletionStands, Executing, Idle
<1>3. CompletionOutlivesDeadline
  BY DEF Init, CompletionOutlivesDeadline
<1>4. QED
  BY <1>1, <1>2, <1>3 DEF IInv

-----------------------------------------------------------------------------
(* Every step keeps it *)

LEMMA LaunchKept ==
    ASSUME IInv, NEW t \in Tasks, Launch(t)
    PROVE  IInv'
BY DEF IInv, TypeOK, Statuses, Executing, Idle, Saved, Leaves, RunningHasAnEntry, AskedAsShown,
   CompletionStands, CompletionOutlivesDeadline, Launch, Resumable

LEMMA ThrowsKept ==
    ASSUME IInv, NEW t \in Tasks, Throws(t)
    PROVE  IInv'
BY DEF IInv, TypeOK, Statuses, Executing, Idle, Saved, Leaves, RunningHasAnEntry, AskedAsShown,
   CompletionStands, CompletionOutlivesDeadline, Resumable, Throws, Caught

LEMMA StoppedEarlyKept ==
    ASSUME IInv, NEW t \in Tasks, StoppedEarly(t)
    PROVE  IInv'
BY DEF IInv, TypeOK, Statuses, Executing, Idle, Saved, Leaves, RunningHasAnEntry, AskedAsShown,
   CompletionStands, CompletionOutlivesDeadline, Resumable, StoppedEarly, DeadlineStops

LEMMA SessionStartsKept ==
    ASSUME IInv, NEW t \in Tasks, SessionStarts(t)
    PROVE  IInv'
<1>. USE DEF IInv, TypeOK, Statuses, Executing, Idle, Saved, Leaves, SessionStarts, SessionMayStart
<1>1. TypeOK'
  OBVIOUS
<1>2. RunningHasAnEntry' /\ AskedAsShown'
  BY <1>1 DEF RunningHasAnEntry, AskedAsShown
<1>3. CompletionStands'
  BY <1>1 DEF CompletionStands, AskedAsShown, RunningHasAnEntry
<1>4. CompletionOutlivesDeadline'
  BY <1>1, <1>3 DEF CompletionOutlivesDeadline, CompletionStands, Resumable, AskedAsShown, RunningHasAnEntry
<1>5. QED
  BY <1>1, <1>2, <1>3, <1>4

LEMMA SessionRefusedKept ==
    ASSUME IInv, NEW t \in Tasks, SessionRefused(t)
    PROVE  IInv'
BY DEF IInv, TypeOK, Statuses, Executing, Idle, Saved, Leaves, RunningHasAnEntry, AskedAsShown,
   CompletionStands, CompletionOutlivesDeadline, Resumable, SessionRefused, ExecuteEnds,
   Projected, Caught

LEMMA TakeKept ==
    ASSUME IInv, NEW t \in Tasks, Take(t)
    PROVE  IInv'
BY DEF IInv, TypeOK, Statuses, Executing, Idle, Saved, Leaves, RunningHasAnEntry, AskedAsShown,
   CompletionStands, CompletionOutlivesDeadline, Resumable, Take

LEMMA ProposeKept ==
    ASSUME IInv, NEW t \in Tasks, RunProposes(t)
    PROVE  IInv'
BY DEF IInv, TypeOK, Statuses, Executing, Idle, Saved, Leaves, RunningHasAnEntry, AskedAsShown,
   CompletionStands, CompletionOutlivesDeadline, Resumable, RunProposes

LEMMA WorkRefusedKept ==
    ASSUME IInv, NEW t \in Tasks, WorkRefused(t)
    PROVE  IInv'
BY DEF IInv, TypeOK, Statuses, Executing, Idle, Saved, Leaves, RunningHasAnEntry, AskedAsShown,
   CompletionStands, CompletionOutlivesDeadline, Resumable, WorkRefused, ExecuteEnds,
   Projected, Caught

LEMMA WorkEndsKept ==
    ASSUME IInv, NEW t \in Tasks, NEW cleaned \in BOOLEAN, NEW lost \in BOOLEAN,
           WorkEnds(t, cleaned, lost)
    PROVE  IInv'
<1>. USE DEF IInv, TypeOK, Statuses, Executing, Idle, Saved, Leaves, WorkEnds, ExecuteEnds, Projected, Caught
<1>1. TypeOK'
  OBVIOUS
<1>2. RunningHasAnEntry' /\ AskedAsShown'
  BY <1>1 DEF RunningHasAnEntry, AskedAsShown
<1>3. CompletionStands'
  BY <1>1 DEF CompletionStands, AskedAsShown, RunningHasAnEntry
<1>4. CompletionOutlivesDeadline'
  BY <1>1, <1>3 DEF CompletionOutlivesDeadline, CompletionStands, Resumable, AskedAsShown, RunningHasAnEntry
<1>5. QED
  BY <1>1, <1>2, <1>3, <1>4

LEMMA CompleteKept ==
    ASSUME IInv, NEW t \in Tasks, Complete(t)
    PROVE  IInv'
<1>. USE DEF IInv, TypeOK, Statuses, Executing, Idle, Saved, Leaves, Complete, MayComplete
<1>1. TypeOK'
  OBVIOUS
<1>2. RunningHasAnEntry' /\ AskedAsShown'
  BY <1>1 DEF RunningHasAnEntry, AskedAsShown
<1>3. CompletionStands'
  BY <1>1 DEF CompletionStands, AskedAsShown, RunningHasAnEntry
<1>4. CompletionOutlivesDeadline'
  BY <1>1, <1>3 DEF CompletionOutlivesDeadline, CompletionStands, Resumable, AskedAsShown, RunningHasAnEntry
<1>5. QED
  BY <1>1, <1>2, <1>3, <1>4

LEMMA CompleteLateKept ==
    ASSUME IInv, NEW t \in Tasks, CompleteLate(t)
    PROVE  IInv'
<1>. USE DEF IInv, TypeOK, Statuses, Executing, Idle, Saved, Leaves, CompleteLate, MayComplete,
       ExecuteEnds, Projected, Caught
<1>1. TypeOK'
  OBVIOUS
<1>2. RunningHasAnEntry' /\ AskedAsShown'
  BY <1>1 DEF RunningHasAnEntry, AskedAsShown
<1>3. CompletionStands'
  BY <1>1 DEF CompletionStands, AskedAsShown, RunningHasAnEntry
<1>4. CompletionOutlivesDeadline'
  BY <1>1, <1>3 DEF CompletionOutlivesDeadline, CompletionStands, Resumable, AskedAsShown, RunningHasAnEntry
<1>5. QED
  BY <1>1, <1>2, <1>3, <1>4

LEMMA JudgeEndsKept ==
    ASSUME IInv, NEW t \in Tasks, JudgeEnds(t)
    PROVE  IInv'
<1>. USE DEF IInv, TypeOK, Statuses, Executing, Idle, Saved, Leaves, JudgeEnds, ExecuteEnds, Projected, Caught
<1>1. TypeOK'
  OBVIOUS
<1>2. RunningHasAnEntry' /\ AskedAsShown'
  BY <1>1 DEF RunningHasAnEntry, AskedAsShown
<1>3. CompletionStands'
  BY <1>1 DEF CompletionStands, AskedAsShown, RunningHasAnEntry
<1>4. CompletionOutlivesDeadline'
  BY <1>1, <1>3 DEF CompletionOutlivesDeadline, CompletionStands, Resumable, AskedAsShown, RunningHasAnEntry
<1>5. QED
  BY <1>1, <1>2, <1>3, <1>4

LEMMA PauseKept ==
    ASSUME IInv, NEW t \in Tasks, Pause(t)
    PROVE  IInv'
BY DEF IInv, TypeOK, Statuses, Executing, Idle, Saved, Leaves, RunningHasAnEntry, AskedAsShown,
   CompletionStands, CompletionOutlivesDeadline, Resumable, Pause, durable

LEMMA CancelActiveKept ==
    ASSUME IInv, NEW t \in Tasks, CancelActive(t)
    PROVE  IInv'
BY DEF IInv, TypeOK, Statuses, Executing, Idle, Saved, Leaves, RunningHasAnEntry, AskedAsShown,
   CompletionStands, CompletionOutlivesDeadline, Resumable, CancelActive

LEMMA CancelIdleKept ==
    ASSUME IInv, NEW t \in Tasks, CancelIdle(t)
    PROVE  IInv'
BY DEF IInv, TypeOK, Statuses, Executing, Idle, Saved, Leaves, RunningHasAnEntry, AskedAsShown,
   CompletionStands, CompletionOutlivesDeadline, Resumable, CancelIdle, PolicyCancelled

LEMMA CleanEndsKept ==
    ASSUME IInv, NEW t \in Tasks, NEW ok \in BOOLEAN, CleanEnds(t, ok)
    PROVE  IInv'
BY DEF IInv, TypeOK, Statuses, Executing, Idle, Saved, Leaves, RunningHasAnEntry, AskedAsShown,
   CompletionStands, CompletionOutlivesDeadline, Resumable, CleanEnds

LEMMA DecideKept ==
    ASSUME IInv, NEW t \in Tasks, NEW revoke \in BOOLEAN, Decide(t, revoke)
    PROVE  IInv'
<1>. USE DEF IInv, TypeOK, Statuses, Executing, Idle, Saved, Leaves, Decide
<1>1. TypeOK'
  OBVIOUS
<1>2. RunningHasAnEntry' /\ AskedAsShown'
  BY <1>1 DEF RunningHasAnEntry, AskedAsShown
<1>3. CompletionStands'
  BY <1>1 DEF CompletionStands, AskedAsShown, RunningHasAnEntry
<1>4. CompletionOutlivesDeadline'
  BY <1>1, <1>3 DEF CompletionOutlivesDeadline, CompletionStands, Resumable, AskedAsShown, RunningHasAnEntry
<1>5. QED
  BY <1>1, <1>2, <1>3, <1>4

LEMMA CloseKept ==
    ASSUME IInv, Close
    PROVE  IInv'
BY DEF IInv, TypeOK, Statuses, Executing, Idle, Saved, Leaves, RunningHasAnEntry, AskedAsShown,
   CompletionStands, CompletionOutlivesDeadline, Resumable, Close, durable

LEMMA DieKept ==
    ASSUME IInv, Die
    PROVE  IInv'
<1>. USE DEF IInv, TypeOK, Statuses, Executing, Idle, Saved, Leaves, Die, Restarted, Interrupted, Loses,
    Orphaned
<1>1. TypeOK'
  OBVIOUS
<1>2. RunningHasAnEntry' /\ AskedAsShown'
  BY <1>1 DEF RunningHasAnEntry, AskedAsShown
<1>3. CompletionStands'
  BY <1>1 DEF CompletionStands, AskedAsShown, RunningHasAnEntry
<1>4. CompletionOutlivesDeadline'
  BY <1>1, <1>3 DEF CompletionOutlivesDeadline, CompletionStands, Resumable, AskedAsShown, RunningHasAnEntry
<1>5. QED
  BY <1>1, <1>2, <1>3, <1>4

LEMMA DieCancellingKept ==
    ASSUME IInv, NEW t \in Tasks, DieCancelling(t)
    PROVE  IInv'
<1>. USE DEF IInv, TypeOK, Statuses, Executing, Idle, Saved, Leaves, DieCancelling, Restarted, Interrupted,
    Loses, Orphaned, PolicyCancelled
<1>1. TypeOK'
  OBVIOUS
<1>2. RunningHasAnEntry' /\ AskedAsShown'
  BY <1>1 DEF RunningHasAnEntry, AskedAsShown
<1>3. CompletionStands'
  BY <1>1 DEF CompletionStands, AskedAsShown, RunningHasAnEntry
<1>4. CompletionOutlivesDeadline'
  BY <1>1, <1>3 DEF CompletionOutlivesDeadline, CompletionStands, Resumable, AskedAsShown, RunningHasAnEntry
<1>5. QED
  BY <1>1, <1>2, <1>3, <1>4

LEMMA DieCompletingKept ==
    ASSUME IInv, NEW t \in Tasks, NEW released \in BOOLEAN, DieCompleting(t, released)
    PROVE  IInv'
<1>. USE DEF IInv, TypeOK, Statuses, Executing, Idle, Saved, Leaves, DieCompleting, Restarted, Interrupted,
    Orphaned, MayComplete
<1>1. TypeOK'
  OBVIOUS
<1>2. RunningHasAnEntry' /\ AskedAsShown'
  BY <1>1 DEF RunningHasAnEntry, AskedAsShown
<1>3. CompletionStands'
  BY <1>1 DEF CompletionStands, AskedAsShown, RunningHasAnEntry
<1>4. CompletionOutlivesDeadline'
  BY <1>1, <1>3 DEF CompletionOutlivesDeadline, CompletionStands, Resumable, AskedAsShown, RunningHasAnEntry
<1>5. QED
  BY <1>1, <1>2, <1>3, <1>4

LEMMA ExpireKept ==
    ASSUME IInv, NEW t \in Tasks, Expire(t)
    PROVE  IInv'
BY DEF IInv, TypeOK, Statuses, Executing, Idle, Saved, Leaves, RunningHasAnEntry, AskedAsShown,
   CompletionStands, CompletionOutlivesDeadline, Resumable, Expire

LEMMA ReconfigureKept ==
    ASSUME IInv, Reconfigure
    PROVE  IInv'
BY DEF IInv, TypeOK, Statuses, Executing, Idle, Saved, Leaves, RunningHasAnEntry, AskedAsShown,
   CompletionStands, CompletionOutlivesDeadline, Resumable, Reconfigure, durable

LEMMA StutterKept ==
    ASSUME IInv, UNCHANGED vars
    PROVE  IInv'
BY DEF IInv, TypeOK, Statuses, Executing, Idle, Saved, Leaves, RunningHasAnEntry, AskedAsShown,
   CompletionStands, CompletionOutlivesDeadline, Resumable, vars, durable

LEMMA StepKept == IInv /\ [Next]_vars => IInv'
BY LaunchKept, ThrowsKept, StoppedEarlyKept, SessionStartsKept, SessionRefusedKept, TakeKept,
   ProposeKept, WorkRefusedKept, WorkEndsKept, CompleteKept, CompleteLateKept, JudgeEndsKept, PauseKept,
   CancelActiveKept, CancelIdleKept, CleanEndsKept, DecideKept, CloseKept, DieKept,
   DieCancellingKept, DieCompletingKept, ExpireKept, ReconfigureKept, StutterKept
DEF Next, Awaited

LEMMA Kept == Spec => []IInv
<1>. QED
  BY InitIInv, StepKept, PTL DEF Spec

-----------------------------------------------------------------------------
(* Theorems *)

\* A task shown as running has a live entry, over every crash and every way out
\* of execute().
THEOREM RunningIsTrue == Spec => []RunningHasAnEntry
<1>1. IInv => RunningHasAnEntry
  BY DEF IInv
<1>. QED
  BY <1>1, Kept, PTL

\* No deadline and no crash keeps a completion from being submitted.
THEOREM CompletionKept == Spec => []CompletionOutlivesDeadline
<1>1. IInv => CompletionOutlivesDeadline
  BY DEF IInv
<1>. QED
  BY <1>1, Kept, PTL

\* A session is let in only where neither record nor policy is cancelled.
THEOREM CancelledStaysOut == Spec => NothingRunsCancelled
<1>1. ASSUME IInv, [Next]_vars
      PROVE  [\A t \in Tasks : stage[t] = "readiness" /\ stage'[t] \in {"working", "judging"} =>
                status[t] # "cancelled" /\ policy[t] # "cancelled"]_vars
  <2>. SUFFICES ASSUME Next, NEW u \in Tasks, stage[u] = "readiness", stage'[u] \in {"working", "judging"}
                PROVE  status[u] # "cancelled" /\ policy[u] # "cancelled"
    BY <1>1 DEF vars
  <2>. USE <1>1 DEF IInv, TypeOK
  <2>1. CASE \E t \in Tasks : SessionStarts(t)
    BY <2>1 DEF SessionStarts, SessionMayStart, AskedAsShown, Executing
  <2>2. CASE \E t \in Tasks : Throws(t) \/ StoppedEarly(t) \/ SessionRefused(t) \/ WorkRefused(t)
                             \/ CompleteLate(t) \/ JudgeEnds(t)
    BY <2>2 DEF Throws, StoppedEarly, SessionRefused, WorkRefused, CompleteLate, JudgeEnds, ExecuteEnds,
        Leaves
  <2>3. CASE \E t \in Tasks, cleaned, lost \in BOOLEAN : WorkEnds(t, cleaned, lost)
    BY <2>3 DEF WorkEnds, ExecuteEnds, Leaves
  <2>4. CASE \E t \in Tasks : Complete(t) \/ (\E ok \in BOOLEAN : CleanEnds(t, ok))
    BY <2>4 DEF Complete, CleanEnds, Leaves
  <2>5. CASE \E t \in Tasks : \/ Launch(t) \/ Take(t) \/ RunProposes(t) \/ Pause(t) \/ CancelActive(t)
                             \/ CancelIdle(t) \/ Expire(t) \/ (\E revoke \in BOOLEAN : Decide(t, revoke))
    BY <2>5 DEF Launch, Take, RunProposes, Pause, CancelActive, CancelIdle, Expire, Decide, durable
  <2>6. CASE \E t \in Tasks : DieCancelling(t) \/ (\E released \in BOOLEAN : DieCompleting(t, released))
    BY <2>6 DEF DieCancelling, DieCompleting, Restarted
  <2>7. CASE Die \/ Close \/ Reconfigure
    BY <2>7 DEF Die, Close, Reconfigure, Restarted, durable
  <2>8. QED
    BY <2>1, <2>2, <2>3, <2>4, <2>5, <2>6, <2>7 DEF Next, Awaited
<1>2. QED
  BY <1>1, Kept, PTL DEF Spec, NothingRunsCancelled

\* Nothing completes or is submitted after a cancel, and only what was submitted
\* before it takes its place.
THEOREM CancelIsDurable == Spec => CancelledForGood
<1>1. ASSUME IInv, [Next]_vars
      PROVE  [\A t \in Tasks : status[t] = "cancelled" \/ policy[t] = "cancelled" =>
                /\ log'[t] \ {"judged"} = log[t] \ {"judged"}
                /\ policy[t] = "cancelled" => policy'[t] = "cancelled"
                /\ status[t] = "cancelled" /\ status'[t] # "cancelled" =>
                       status'[t] = "submitted" /\ "submitted" \in log[t]]_vars
  <2>. SUFFICES ASSUME Next, NEW u \in Tasks, status[u] = "cancelled" \/ policy[u] = "cancelled"
                PROVE  /\ log'[u] \ {"judged"} = log[u] \ {"judged"}
                       /\ policy[u] = "cancelled" => policy'[u] = "cancelled"
                       /\ status[u] = "cancelled" /\ status'[u] # "cancelled" =>
                              status'[u] = "submitted" /\ "submitted" \in log[u]
    BY <1>1 DEF vars
  <2>. USE <1>1 DEF IInv, TypeOK, AskedAsShown, RunningHasAnEntry, Executing, Idle, Saved
  <2>1. CASE \E t \in Tasks : SessionStarts(t) \/ Complete(t)
    BY <2>1 DEF SessionStarts, SessionMayStart, Complete, MayComplete
  <2>2. CASE \E t \in Tasks : Throws(t) \/ StoppedEarly(t) \/ SessionRefused(t) \/ WorkRefused(t)
    BY <2>2 DEF Throws, StoppedEarly, SessionRefused, WorkRefused, ExecuteEnds, Caught, Projected
  <2>3. CASE \E t \in Tasks : CompleteLate(t) \/ JudgeEnds(t)
    BY <2>3 DEF CompleteLate, MayComplete, JudgeEnds, ExecuteEnds, Caught, Projected, CompletionStands
  <2>4. CASE \E t \in Tasks, cleaned, lost \in BOOLEAN : WorkEnds(t, cleaned, lost)
    BY <2>4 DEF WorkEnds, ExecuteEnds, Caught, Projected
  <2>5. CASE \E t \in Tasks : \/ Launch(t) \/ Take(t) \/ RunProposes(t) \/ Pause(t) \/ CancelActive(t)
                             \/ CancelIdle(t) \/ Expire(t)
                             \/ (\E revoke \in BOOLEAN : Decide(t, revoke))
                             \/ (\E ok \in BOOLEAN : CleanEnds(t, ok))
    BY <2>5 DEF Launch, Resumable, Take, RunProposes, Pause, CancelActive, CancelIdle, Expire, Decide,
       CleanEnds, PolicyCancelled, durable
  <2>6. CASE \E t \in Tasks : DieCancelling(t) \/ (\E released \in BOOLEAN : DieCompleting(t, released))
    BY <2>6 DEF DieCancelling, DieCompleting, MayComplete, PolicyCancelled, Restarted, Interrupted
  <2>7. CASE Die \/ Close \/ Reconfigure
    BY <2>7 DEF Die, Close, Reconfigure, Restarted, Interrupted, durable
  <2>8. QED
    BY <2>1, <2>2, <2>3, <2>4, <2>5, <2>6, <2>7 DEF Next, Awaited
<1>2. QED
  BY <1>1, Kept, PTL DEF Spec, CancelledForGood

=============================================================================
