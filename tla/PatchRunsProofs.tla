--------------------------- MODULE PatchRunsProofs ---------------------------
(***************************************************************************)
(* Three theorems about a coding run, for all policies, limits, costs and  *)
(* numbers of crashes: every request it ever sent is accounted for, a      *)
(* submission outlives whatever follows it, and a completed run is what    *)
(* its checks were about.                                                  *)
(*                                                                         *)
(* The first rests on the row's books (the last request, the receipts,     *)
(* what is reserved), which few operations touch. What the worker may have *)
(* sent is bounded by what was ever opened; an admission that is still in  *)
(* the inbox is a request that was opened and not yet sent.                *)
(*                                                                         *)
(* The next two follow the worker's reports through the pipe. The steps    *)
(* of the worker and of the host are sorted by what they say and file      *)
(* (the operators from Works to Verifying), and an invariant relates the   *)
(* row, the reports still in the pipe and the worker's place: Filing says  *)
(* that all of them are about one tree and that the patch is ahead of its  *)
(* check, Backed what the decision to submit, or the cloud's reply, ahead  *)
(* of the patch rests on.                                                  *)
(***************************************************************************)
EXTENDS PatchRuns, FiniteSetTheorems, FunctionTheorems, TLAPS

BookFields == {"last", "receipts", "reserved"}
RequestStates == {"none", "reserved", "started", "succeeded", "unknown", "not_sent"}

\* The books of a row: what is reserved is the price of a request that is not resolved.
Books(r) ==
    /\ BookFields \subseteq DOMAIN r
    /\ r.last \in [phase : RequestPhases \cup {"none"}, state : RequestStates]
    /\ r.last.state # "none" => r.last.phase \in RequestPhases
    /\ r.receipts \in [RequestPhases -> Nat]
    /\ r.reserved = IF Unresolved(r) THEN Price(r.last.phase) ELSE 0

Opened(r) == IF r.last.state \in {"started", "unknown"} THEN 1 ELSE 0
\* The requests of a row that may have been sent.
Sendable(r) ==
    r.receipts["planner"] + r.receipts["local"] + r.receipts["critic"] + r.receipts["cloud"] + Opened(r)

Answers ==
    [type : {"start", "admitted", "context"}]
        \cup [type : {"verdict"}, verdict : {"acceptable", "repair_required", "insufficient_context"}]

Grants(s) == {i \in DOMAIN s : s[i].type = "admitted"}
\* Admissions the worker has not read.
Granted(s) == Cardinality(Grants(s))

-----------------------------------------------------------------------------
(* Admissions in a sequence of answers. *)

\* The admissions of an inbox are finitely many.
LEMMA GrantedFinite ==
    ASSUME NEW s \in Seq(Answers)
    PROVE  IsFiniteSet(Grants(s)) /\ Granted(s) \in Nat
<1>1. IsFiniteSet(1 .. Len(s))
  BY FS_Interval
<1>2. Grants(s) \subseteq 1 .. Len(s)
  BY DEF Grants
<1> QED
  BY <1>1, <1>2, FS_Subset, FS_CardinalityType DEF Granted

\* The empty inbox has none.
LEMMA GrantedNone == <<>> \in Seq(Answers) /\ Granted(<<>>) = 0
<1>1. <<>> \in Seq(Answers) /\ Len(<<>>) = 0
  OBVIOUS
<1>2. DOMAIN <<>> = {}
  OBVIOUS
<1>3. Grants(<<>>) = {}
  BY <1>2 DEF Grants
<1> QED
  BY <1>1, <1>3, FS_EmptySet DEF Granted

\* An answer that is appended counts if it is an admission.
LEMMA GrantedAppend ==
    ASSUME NEW s \in Seq(Answers), NEW x \in Answers
    PROVE  /\ Append(s, x) \in Seq(Answers)
           /\ Granted(Append(s, x)) = Granted(s) + IF x.type = "admitted" THEN 1 ELSE 0
<1>0. /\ Append(s, x) \in Seq(Answers) /\ DOMAIN Append(s, x) = DOMAIN s \cup {Len(s) + 1}
      /\ Append(s, x)[Len(s) + 1] = x /\ \A i \in DOMAIN s : Append(s, x)[i] = s[i]
  OBVIOUS
<1>1. CASE x.type = "admitted"
  <2>1. Grants(Append(s, x)) = Grants(s) \cup {Len(s) + 1}
    BY <1>0, <1>1 DEF Grants
  <2>2. Len(s) + 1 \notin Grants(s)
    BY DEF Grants
  <2>3. IsFiniteSet(Grants(s))
    BY GrantedFinite
  <2>4. Cardinality(Grants(s) \cup {Len(s) + 1}) = Cardinality(Grants(s)) + 1
    BY <2>2, <2>3, FS_AddElement
  <2> QED
    BY <1>0, <1>1, <2>1, <2>4 DEF Granted
<1>2. CASE x.type # "admitted"
  <2>1. Grants(Append(s, x)) = Grants(s)
    BY <1>0, <1>2 DEF Grants
  <2> QED
    BY <1>2, <2>1, GrantedFinite DEF Granted
<1> QED
  BY <1>0, <1>1, <1>2

\* An answer that is read was counted if it is an admission.
LEMMA GrantedTail ==
    ASSUME NEW s \in Seq(Answers), s # <<>>
    PROVE  /\ Tail(s) \in Seq(Answers)
           /\ Granted(Tail(s)) = Granted(s) - IF Head(s).type = "admitted" THEN 1 ELSE 0
<1> DEFINE Later == Grants(s) \ {1}
           shift == [i \in Grants(Tail(s)) |-> i + 1]
<1>1. Tail(s) \in Seq(Answers) /\ Len(Tail(s)) = Len(s) - 1
      /\ \A i \in 1 .. Len(s) - 1 : Tail(s)[i] = s[i + 1]
  OBVIOUS
<1>2. shift \in Bijection(Grants(Tail(s)), Later)
  <2>1. \A i \in Grants(Tail(s)) : i + 1 \in Later
    BY <1>1 DEF Grants
  <2>2. \A j \in Later : j - 1 \in Grants(Tail(s)) /\ (j - 1) + 1 = j
    BY <1>1 DEF Grants
  <2>3. \A i, j \in Grants(Tail(s)) : i + 1 = j + 1 => i = j
    BY <1>1 DEF Grants
  <2> QED
    BY <2>1, <2>2, <2>3, Fun_IsBij
<1> HIDE DEF Later, shift
<1>3. IsFiniteSet(Grants(Tail(s))) /\ IsFiniteSet(Grants(s))
  BY <1>1, GrantedFinite
<1>4. Cardinality(Later) = Granted(Tail(s))
  BY <1>2, <1>3, FS_Bijection DEF Granted, ExistsBijection
<1>5. 1 \in Grants(s) <=> Head(s).type = "admitted"
  BY DEF Grants
<1>6. Cardinality(Later) = IF 1 \in Grants(s) THEN Cardinality(Grants(s)) - 1 ELSE Cardinality(Grants(s))
  BY <1>3, FS_RemoveElement DEF Later
<1> QED
  BY <1>1, <1>3, <1>4, <1>5, <1>6, GrantedFinite DEF Granted

-----------------------------------------------------------------------------
(* The books, and what changes them. *)

\* A reservation opens a row's books; only its start makes it sendable.
LEMMA ReserveBooks ==
    ASSUME NEW r, Books(r), ~Unresolved(r), NEW phase \in RequestPhases
    PROVE  /\ Books(ReserveRequest(r, phase)) /\ Books(StartRequest(ReserveRequest(r, phase)))
           /\ Sendable(ReserveRequest(r, phase)) = Sendable(r)
           /\ Sendable(StartRequest(ReserveRequest(r, phase))) = Sendable(r) + 1
           /\ StartRequest(ReserveRequest(r, phase)).last.state = "started"
<1> DEFINE q == ReserveRequest(r, phase)
           t == StartRequest(q)
<1>1. /\ BookFields \subseteq DOMAIN q /\ q.last = [phase |-> phase, state |-> "reserved"]
      /\ q.receipts = r.receipts /\ q.reserved = r.reserved + Price(phase)
  BY DEF ReserveRequest, Books, BookFields
<1>2. /\ BookFields \subseteq DOMAIN t /\ t.last = [phase |-> phase, state |-> "started"]
      /\ t.receipts = q.receipts /\ t.reserved = q.reserved
  BY <1>1 DEF StartRequest, BookFields
<1>3. q.reserved = Price(phase)
  BY <1>1 DEF Books, Price, Unresolved
<1> HIDE DEF q, t
<1>4. Books(q) /\ Books(t)
  BY <1>1, <1>2, <1>3 DEF Books, RequestStates, Unresolved
<1>5. Sendable(q) = Sendable(r) /\ Sendable(t) = Sendable(r) + 1
  BY <1>1, <1>2 DEF Books, Sendable, Opened, Unresolved, RequestPhases
<1> QED
  BY <1>2, <1>4, <1>5 DEF q, t

\* An answer or an unknown outcome settles a started request, which stays counted.
LEMMA SettleBooks ==
    ASSUME NEW r, Books(r), r.last.state = "started", NEW outcome \in {"succeeded", "unknown"}, NEW cost
    PROVE  Books(Settle(r, outcome, cost)) /\ Sendable(Settle(r, outcome, cost)) = Sendable(r)
<1> DEFINE q == Settle(r, outcome, cost)
           phase == r.last.phase
<1>1. /\ BookFields \subseteq DOMAIN q /\ q.last = [phase |-> phase, state |-> outcome]
      /\ q.receipts = [r.receipts EXCEPT ![phase] = @ + IF outcome = "succeeded" THEN 1 ELSE 0]
      /\ q.reserved = IF outcome = "unknown" THEN r.reserved ELSE r.reserved - Price(phase)
  BY DEF Settle, Books, BookFields
<1>2. phase \in RequestPhases /\ r.reserved = Price(phase) /\ Price(phase) \in Nat
  BY DEF Books, Unresolved, Price
<1> HIDE DEF q, phase
<1>3. q.reserved = IF Unresolved(q) THEN Price(q.last.phase) ELSE 0
  BY <1>1, <1>2 DEF Unresolved
<1>4. q.receipts \in [RequestPhases -> Nat]
  BY <1>1, <1>2 DEF Books
<1>5. Books(q)
  BY <1>1, <1>2, <1>3, <1>4 DEF Books, RequestStates
<1>6. Sendable(q) = Sendable(r)
  <2>1. CASE outcome = "succeeded"
    BY <1>1, <1>2, <2>1 DEF Books, Sendable, Opened, RequestPhases
  <2>2. CASE outcome = "unknown"
    BY <1>1, <1>2, <2>2 DEF Books, Sendable, Opened, RequestPhases
  <2> QED
    BY <2>1, <2>2
<1> QED
  BY <1>5, <1>6 DEF q

\* The end of a run releases what was only reserved and keeps what was started.
LEMMA FinishBooks ==
    ASSUME NEW r, Books(r), NEW status
    PROVE  Books(Finish(r, status)) /\ Sendable(Finish(r, status)) = Sendable(r)
<1>1. Books(Closed(r)) /\ Sendable(Closed(r)) = Sendable(r)
  <2>1. CASE r.last.state = "started"
    BY <2>1, SettleBooks DEF Closed
  <2>2. CASE r.last.state = "reserved"
    <3> DEFINE q == Settle(r, "not_sent", 0)
    <3>1. Closed(r) = q
      BY <2>2 DEF Closed
    <3>2. /\ BookFields \subseteq DOMAIN q /\ q.last = [phase |-> r.last.phase, state |-> "not_sent"]
          /\ q.receipts = [r.receipts EXCEPT ![r.last.phase] = @ + 0]
          /\ q.reserved = r.reserved - Price(r.last.phase)
      BY DEF Settle, Books, BookFields
    <3>3. q.receipts = r.receipts /\ q.reserved = 0
      BY <2>2, <3>2 DEF Books, Unresolved, Price
    <3> HIDE DEF q
    <3>4. Books(q)
      BY <2>2, <3>2, <3>3 DEF Books, RequestStates, Unresolved
    <3>5. Sendable(q) = Sendable(r)
      BY <2>2, <3>2, <3>3 DEF Sendable, Opened
    <3> QED
      BY <3>1, <3>4, <3>5
  <2>3. CASE r.last.state \notin {"reserved", "started"}
    BY <2>3 DEF Closed
  <2> QED
    BY <2>1, <2>2, <2>3
<1> DEFINE q == Finish(r, status)
<1>2. BookFields \subseteq DOMAIN q /\ q.last = Closed(r).last /\ q.receipts = Closed(r).receipts
      /\ q.reserved = Closed(r).reserved
  BY <1>1 DEF Finish, Books, BookFields
<1> HIDE DEF q
<1>3. Books(q) /\ Sendable(q) = Sendable(Closed(r))
  BY <1>1, <1>2 DEF Books, Sendable, Opened, Unresolved
<1> QED
  BY <1>1, <1>3 DEF q

-----------------------------------------------------------------------------
(* The invariant. *)

Inv ==
    /\ Books(run)
    /\ {"pending", "place"} \subseteq DOMAIN host /\ host.pending \in BOOLEAN
    /\ host.pending => host.place = "working" /\ run.last.state = "started"
    /\ "sends" \in DOMAIN w /\ w.sends \in Nat
    /\ inbox \in Seq(Answers)
    /\ w.sends + Granted(inbox) <= Sendable(run)

\* A step that opens, settles, sends and closes nothing.
QuietRow(r) ==
    BookFields \subseteq DOMAIN r /\ r.last = run.last /\ r.receipts = run.receipts /\ r.reserved = run.reserved
QuietHost(h) ==
    /\ {"pending", "place"} \subseteq DOMAIN h /\ h.pending \in BOOLEAN
    /\ h.pending => host.pending /\ h.place = host.place
QuietWorker(v) == "sends" \in DOMAIN v /\ v.sends \in Nat /\ v.sends <= w.sends
QuietInbox(s) ==
    \/ s \in {inbox, <<>>}
    \/ inbox # <<>> /\ s = Tail(inbox)
    \/ \E x \in Answers : x.type # "admitted" /\ s = Append(inbox, x)

\* An inbox that gains no admission grants no more than before.
LEMMA InboxQuiet ==
    ASSUME inbox \in Seq(Answers), NEW s, QuietInbox(s)
    PROVE  s \in Seq(Answers) /\ Granted(s) \in Nat /\ Granted(s) <= Granted(inbox)
<1>1. Granted(inbox) \in Nat
  BY GrantedFinite
<1>2. CASE s = <<>>
  <2>1. s \in Seq(Answers) /\ Granted(s) = 0
    BY <1>2, GrantedNone
  <2> QED
    BY <1>1, <2>1
<1>3. CASE inbox # <<>> /\ s = Tail(inbox)
  <2>1. s \in Seq(Answers)
        /\ Granted(s) = Granted(inbox) - IF Head(inbox).type = "admitted" THEN 1 ELSE 0
    BY <1>3, GrantedTail
  <2>2. Granted(s) \in Nat
    BY <2>1, GrantedFinite
  <2> QED
    BY <1>1, <2>1, <2>2
<1>4. CASE \E x \in Answers : x.type # "admitted" /\ s = Append(inbox, x)
  BY <1>1, <1>4, GrantedAppend
<1> QED
  BY <1>1, <1>2, <1>3, <1>4 DEF QuietInbox

\* What a row may have sent is a number.
LEMMA SendableNat ==
    ASSUME NEW r, Books(r)
    PROVE  Sendable(r) \in Nat
BY DEF Books, Sendable, Opened, RequestPhases

\* Quiet steps keep the invariant.
LEMMA QuietKeeps ==
    ASSUME Inv, QuietRow(run'), QuietHost(host'), QuietWorker(w'), QuietInbox(inbox')
    PROVE  Inv'
<1>1. Books(run') /\ Sendable(run') = Sendable(run) /\ run'.last = run.last
  BY DEF Inv, QuietRow, Books, Sendable, Opened, Unresolved
<1>2. inbox' \in Seq(Answers) /\ Granted(inbox') \in Nat /\ Granted(inbox') <= Granted(inbox)
  BY InboxQuiet DEF Inv
<1>3. Granted(inbox) \in Nat /\ Sendable(run) \in Nat
  BY GrantedFinite, SendableNat DEF Inv
<1>4. w'.sends + Granted(inbox') <= Sendable(run')
  BY <1>1, <1>2, <1>3 DEF Inv, QuietWorker
<1> QED
  BY <1>1, <1>2, <1>4 DEF Inv, QuietHost, QuietWorker

\* The initial state sends nothing.
LEMMA InitKeeps == Init => Inv
<1> SUFFICES ASSUME Init PROVE Inv
  OBVIOUS
<1>1. /\ BookFields \subseteq DOMAIN run /\ run.last = [phase |-> "none", state |-> "none"]
      /\ run.receipts = [p \in RequestPhases |-> 0] /\ run.reserved = 0
  BY DEF Init, NewRun, BookFields
<1>2. Books(run) /\ Sendable(run) = 0
  BY <1>1 DEF Books, RequestStates, Unresolved, Sendable, Opened, RequestPhases
<1>3. Granted(inbox) = 0 /\ inbox \in Seq(Answers)
  <2>1. inbox = <<>>
    BY DEF Init
  <2> QED
    BY <2>1, GrantedNone
<1> QED
  BY <1>2, <1>3 DEF Init, NewHost, NoWorker, Inv

-----------------------------------------------------------------------------
(* The worker. *)

\* What is left of a worker that is gone has sent what it had sent.
LEMMA GoneQuiet ==
    ASSUME Inv, NEW outcome
    PROVE  QuietWorker(Gone(outcome))
<1>1. "sends" \in DOMAIN Gone(outcome) /\ Gone(outcome).sends = w.sends
  BY DEF Gone, NoWorker
<1> QED
  BY <1>1 DEF Inv, QuietWorker

\* Only a sent request counts, and it takes its admission from the inbox.
LEMMA WorkerKeeps ==
    ASSUME Inv, WorkerNext
    PROVE  Inv'
<1>1. run' = run /\ host' = host
  BY DEF WorkerNext, WorkerStep, WorkerCancelled, WorkerKilled, OrphanEnds, WorkerStarts, WorkerRaises,
         LocalRequest, Ask, Send, AdmittedTooLate, Answered, Unanswered, PlanReady, ActionDenied,
         RunCommand, CommandRan, CommandObserved, VisibleCheck, Help, SubmitTask, NoSubmission,
         Handoff, CloudCommand, CloudSubmit, FreezeDraft, CriticStarts, CriticAnswer, VerdictRead,
         Export, Verify, StopRouter, Salvage, End, Unsettle
<1>2. CASE Send
  <2>1. inbox # <<>> /\ Head(inbox).type = "admitted" /\ inbox' = Tail(inbox)
        /\ w' = [w EXCEPT !.at = "wire", !.sends = @ + 1]
    BY <1>2 DEF Send, Inbox
  <2>2. inbox' \in Seq(Answers) /\ Granted(inbox') = Granted(inbox) - 1
    BY <2>1, GrantedTail DEF Inv
  <2>3. "sends" \in DOMAIN w' /\ w'.sends = w.sends + 1
    BY <2>1 DEF Inv
  <2>4. Granted(inbox) \in Nat /\ Sendable(run) \in Nat
    BY GrantedFinite, SendableNat DEF Inv
  <2> QED
    BY <1>1, <2>2, <2>3, <2>4 DEF Inv
<1>3. QuietRow(run') /\ QuietHost(host')
  BY <1>1 DEF Inv, Books, QuietRow, QuietHost
<1>4. ASSUME WorkerCancelled \/ WorkerKilled \/ OrphanEnds \/ WorkerRaises
      PROVE  QuietWorker(w') /\ QuietInbox(inbox')
  <2>1. CASE WorkerCancelled
    BY <2>1, GoneQuiet DEF WorkerCancelled, Inv, QuietWorker, QuietInbox
  <2>2. CASE WorkerKilled
    BY <2>2, GoneQuiet DEF WorkerKilled, Inv, QuietWorker, QuietInbox
  <2>3. CASE OrphanEnds
    BY <2>3, GoneQuiet DEF OrphanEnds, Inv, QuietWorker, QuietInbox
  <2>4. CASE WorkerRaises
    BY <2>4 DEF WorkerRaises, Inv, QuietWorker, QuietInbox
  <2> QED
    BY <1>4, <2>1, <2>2, <2>3, <2>4
<1>5. ASSUME WorkerStarts \/ AdmittedTooLate \/ CriticStarts \/ VerdictRead
      PROVE  QuietWorker(w') /\ QuietInbox(inbox')
  <2>1. CASE WorkerStarts
    BY <2>1 DEF WorkerStarts, Inbox, Inv, QuietWorker, QuietInbox
  <2>2. CASE AdmittedTooLate
    BY <2>2 DEF AdmittedTooLate, Unsettle, Inbox, Inv, QuietWorker, QuietInbox
  <2>3. CASE CriticStarts
    BY <2>3 DEF CriticStarts, Inbox, Inv, QuietWorker, QuietInbox
  <2>4. CASE VerdictRead
    BY <2>4 DEF VerdictRead, Inbox, Inv, QuietWorker, QuietInbox
  <2> QED
    BY <1>5, <2>1, <2>2, <2>3, <2>4
<1>6. ASSUME LocalRequest \/ Ask \/ Answered \/ Unanswered \/ PlanReady \/ ActionDenied
      PROVE  QuietWorker(w') /\ QuietInbox(inbox')
  <2>1. CASE LocalRequest
    BY <2>1 DEF LocalRequest, Inv, QuietWorker, QuietInbox
  <2>2. CASE Ask
    BY <2>2 DEF Ask, Inv, QuietWorker, QuietInbox
  <2>3. CASE Answered
    BY <2>3 DEF Answered, Inv, QuietWorker, QuietInbox
  <2>4. CASE Unanswered
    BY <2>4 DEF Unanswered, Unsettle, Inv, QuietWorker, QuietInbox
  <2>5. CASE PlanReady
    BY <2>5 DEF PlanReady, Inv, QuietWorker, QuietInbox
  <2>6. CASE ActionDenied
    BY <2>6 DEF ActionDenied, Inv, QuietWorker, QuietInbox
  <2> QED
    BY <1>6, <2>1, <2>2, <2>3, <2>4, <2>5, <2>6
<1>7. ASSUME RunCommand \/ CommandRan \/ CommandObserved \/ VisibleCheck \/ Help \/ SubmitTask
      PROVE  QuietWorker(w') /\ QuietInbox(inbox')
  <2>1. CASE RunCommand
    BY <2>1 DEF RunCommand, Inv, QuietWorker, QuietInbox
  <2>2. CASE CommandRan
    BY <2>2 DEF CommandRan, Inv, QuietWorker, QuietInbox
  <2>3. CASE CommandObserved
    BY <2>3 DEF CommandObserved, Inv, QuietWorker, QuietInbox
  <2>4. CASE VisibleCheck
    BY <2>4 DEF VisibleCheck, Inv, QuietWorker, QuietInbox
  <2>5. CASE Help
    BY <2>5 DEF Help, Inv, QuietWorker, QuietInbox
  <2>6. CASE SubmitTask
    BY <2>6 DEF SubmitTask, Inv, QuietWorker, QuietInbox
  <2> QED
    BY <1>7, <2>1, <2>2, <2>3, <2>4, <2>5, <2>6
<1>8. ASSUME NoSubmission \/ Handoff \/ CloudCommand \/ CloudSubmit \/ FreezeDraft \/ CriticAnswer
      PROVE  QuietWorker(w') /\ QuietInbox(inbox')
  <2>1. CASE NoSubmission
    BY <2>1 DEF NoSubmission, Inv, QuietWorker, QuietInbox
  <2>2. CASE Handoff
    BY <2>2 DEF Handoff, Inv, QuietWorker, QuietInbox
  <2>3. CASE CloudCommand
    BY <2>3 DEF CloudCommand, Inv, QuietWorker, QuietInbox
  <2>4. CASE CloudSubmit
    BY <2>4 DEF CloudSubmit, Inv, QuietWorker, QuietInbox
  <2>5. CASE FreezeDraft
    <3>1. "sends" \in DOMAIN w' /\ w'.sends = w.sends
      <4>1. CASE w.live = Base
        <5>1. w' = [w EXCEPT !.at = "failing", !.outcome = "failed"]
          BY <2>5, <4>1 DEF FreezeDraft
        <5> QED
          BY <5>1 DEF Inv
      <4>2. CASE w.live # Base
        <5>1. w' = [w EXCEPT !.at = "context"]
          BY <2>5, <4>2 DEF FreezeDraft
        <5> QED
          BY <5>1 DEF Inv
      <4> QED
        BY <4>1, <4>2
    <3>2. inbox' = inbox
      BY <2>5 DEF FreezeDraft
    <3> QED
      BY <3>1, <3>2 DEF Inv, QuietWorker, QuietInbox
  <2>6. CASE CriticAnswer
    BY <2>6 DEF CriticAnswer, Inv, QuietWorker, QuietInbox
  <2> QED
    BY <1>8, <2>1, <2>2, <2>3, <2>4, <2>5, <2>6
<1>9. ASSUME Export \/ Verify \/ StopRouter \/ Salvage \/ End
      PROVE  QuietWorker(w') /\ QuietInbox(inbox')
  <2>1. CASE Export
    BY <2>1 DEF Export, Inv, QuietWorker, QuietInbox
  <2>2. CASE Verify
    BY <2>2 DEF Verify, Inv, QuietWorker, QuietInbox
  <2>3. CASE StopRouter
    BY <2>3 DEF StopRouter, Inv, QuietWorker, QuietInbox
  <2>4. CASE Salvage
    BY <2>4 DEF Salvage, Inv, QuietWorker, QuietInbox
  <2>5. CASE End
    BY <2>5, GoneQuiet DEF End, Inv, QuietWorker, QuietInbox
  <2> QED
    BY <1>9, <2>1, <2>2, <2>3, <2>4, <2>5
<1>10. CASE ~Send
  BY <1>3, <1>10, <1>4, <1>5, <1>6, <1>7, <1>8, <1>9, QuietKeeps DEF WorkerNext
<1> QED
  BY <1>2, <1>10

-----------------------------------------------------------------------------
(* The host. *)

Quiet == QuietRow(run') /\ QuietHost(host') /\ QuietInbox(inbox')

\* What the store writes for most events leaves a row's books alone.
LEMMA RowQuiet ==
    ASSUME Inv
    PROVE  /\ QuietRow(run) /\ QuietRow(Start(run)) /\ QuietRow(BeginCloudRecovery(run))
           /\ QuietRow(RecordTool(run)) /\ QuietRow(InvalidateCheckpointCheck(run))
           /\ QuietRow([run EXCEPT !.plan = TRUE])
           /\ \A x : /\ QuietRow(SetPhase(run, x)) /\ QuietRow(RecordCheckpointCheck(run, x))
                     /\ QuietRow(RecordCheckpoint(run, x)) /\ QuietRow(RecordCriticDraft(run, x))
                     /\ QuietRow(RecordCriticReceipt(run, x)) /\ QuietRow(RecordChecks(run, x))
                     /\ QuietRow([run EXCEPT !.handoff = x]) /\ QuietRow([run EXCEPT !.decision = x])
           /\ \A kind, src : QuietRow(RecordPatch(run, kind, src))
<1>0. BookFields \subseteq DOMAIN run
  BY DEF Inv, Books
<1>1. /\ QuietRow(run) /\ QuietRow(Start(run)) /\ QuietRow(BeginCloudRecovery(run))
      /\ QuietRow(RecordTool(run)) /\ QuietRow(InvalidateCheckpointCheck(run))
      /\ QuietRow([run EXCEPT !.plan = TRUE])
  BY <1>0 DEF QuietRow, BookFields, Start, BeginCloudRecovery, RecordTool, InvalidateCheckpointCheck
<1>2. ASSUME NEW x
      PROVE  /\ QuietRow(SetPhase(run, x)) /\ QuietRow(RecordCheckpointCheck(run, x))
             /\ QuietRow(RecordCriticDraft(run, x)) /\ QuietRow(RecordCriticReceipt(run, x))
             /\ QuietRow([run EXCEPT !.handoff = x]) /\ QuietRow([run EXCEPT !.decision = x])
  BY <1>0 DEF QuietRow, BookFields, SetPhase, RecordCheckpointCheck, RecordCriticDraft, RecordCriticReceipt
<1>3. ASSUME NEW x
      PROVE  QuietRow(RecordCheckpoint(run, x)) /\ QuietRow(RecordChecks(run, x))
  BY <1>0 DEF QuietRow, BookFields, RecordCheckpoint, RecordChecks
<1>4. ASSUME NEW kind, NEW src
      PROVE  QuietRow(RecordPatch(run, kind, src))
  <2>1. \A patch, checks : QuietRow([run EXCEPT !.patch = patch]) /\ QuietRow([run EXCEPT !.patch = patch, !.checks = checks])
    BY <1>0 DEF QuietRow, BookFields
  <2>2. CASE kind = "submitted"
    BY <2>1, <2>2 DEF RecordPatch
  <2>3. CASE kind # "submitted" /\ kind = "recovered" /\ run.patch.kind = "submitted"
    BY <1>1, <2>3 DEF RecordPatch
  <2>4. CASE kind # "submitted" /\ ~(kind = "recovered" /\ run.patch.kind = "submitted")
    BY <2>1, <2>4 DEF RecordPatch
  <2> QED
    BY <2>2, <2>3, <2>4
<1> QED
  BY <1>1, <1>2, <1>3, <1>4

\* A failure of the run settles nothing.
LEMMA FailedQuiet ==
    ASSUME NEW h, QuietHost(h), NEW kind
    PROVE  QuietHost(Failed(h, kind)) /\ Failed(h, kind).pending = h.pending
<1>1. /\ DOMAIN Failed(h, kind) = DOMAIN h
      /\ Failed(h, kind).pending = h.pending /\ Failed(h, kind).place = h.place
  BY DEF Failed, QuietHost
<1> QED
  BY <1>1 DEF QuietHost

\* The host as it is, and but for what it remembers of the order of events.
LEMMA HostQuiet ==
    ASSUME Inv
    PROVE  /\ QuietHost(host)
           /\ \A x : /\ QuietHost([host EXCEPT !.await = x]) /\ QuietHost([host EXCEPT !.action = x])
                     /\ QuietHost([host EXCEPT !.granted = x]) /\ QuietHost([host EXCEPT !.final = x])
                     /\ QuietHost([host EXCEPT !.terminal = x])
           /\ \A x, y : QuietHost([[host EXCEPT !.await = x] EXCEPT !.context = y])
BY DEF Inv, QuietHost

\* A refused event, or one that ends the run, changes no books.
LEMMA FailsQuiet ==
    ASSUME Inv, NEW kind, Fails(kind)
    PROVE  Quiet
BY RowQuiet, HostQuiet, FailedQuiet DEF Fails, Quiet, QuietInbox

\* So does an event that only writes other parts of the row.
LEMMA RecordsQuiet ==
    ASSUME Inv, NEW next, QuietRow(next), Records(next)
    PROVE  Quiet
BY HostQuiet DEF Records, Quiet, QuietInbox

\* A step that opens no request and leaves none pending.
LEMMA BooksKeep ==
    ASSUME Inv, Books(run'), Sendable(run') = Sendable(run), QuietWorker(w'), QuietInbox(inbox'),
           {"pending", "place"} \subseteq DOMAIN host', host'.pending = FALSE
    PROVE  Inv'
<1>1. inbox' \in Seq(Answers) /\ Granted(inbox') \in Nat /\ Granted(inbox') <= Granted(inbox)
  BY InboxQuiet DEF Inv
<1>2. Granted(inbox) \in Nat /\ Sendable(run) \in Nat
  BY GrantedFinite, SendableNat DEF Inv
<1>3. w'.sends + Granted(inbox') <= Sendable(run')
  BY <1>1, <1>2 DEF Inv, QuietWorker
<1> QED
  BY <1>1, <1>3 DEF Inv, QuietWorker

\* The events that are recorded or refused without a change of the books.
LEMMA EventsQuiet ==
    ASSUME Inv,
           \/ Ready \/ Dropped \/ TerminalReceipt \/ ContextPrepare \/ CriticResponse
           \/ PhaseStarted \/ DeniedAction \/ PlanReceived \/ HandoffReady \/ PatchEvent
           \/ VerificationStarted
    PROVE  Quiet
<1>1. CASE Ready
  <2>1. CASE host.stopped
    BY <1>1, <2>1, FailsQuiet DEF Ready
  <2>2. CASE ~host.stopped
    <3>1. run' = run /\ host' = host /\ inbox' = Append(inbox, [type |-> "start"])
      BY <1>1, <2>2 DEF Ready
    <3>2. [type |-> "start"] \in Answers
      BY DEF Answers
    <3> QED
      BY <3>1, <3>2, RowQuiet, HostQuiet DEF Quiet, QuietInbox
  <2> QED
    BY <2>1, <2>2
<1>2. CASE Dropped
  BY <1>2, RowQuiet, HostQuiet DEF Dropped, Quiet, QuietInbox
<1>3. CASE TerminalReceipt
  BY <1>3, RowQuiet, HostQuiet DEF TerminalReceipt, Quiet, QuietInbox
<1>4. CASE ContextPrepare
  BY <1>4, RowQuiet, HostQuiet, FailsQuiet DEF ContextPrepare, Quiet, QuietInbox
<1>5. CASE CriticResponse
  <2>1. CASE \E kind : Fails(kind)
    BY <2>1, FailsQuiet
  <2>2. CASE ~(\E kind : Fails(kind))
    <3>1. PICK verdict \in {"acceptable", "repair_required", "insufficient_context"} :
            /\ run' = RecordCriticReceipt(run, verdict) /\ host' = host
            /\ inbox' = Append(inbox, [type |-> "verdict", verdict |-> verdict])
      BY <1>5, <2>2 DEF CriticResponse
    <3>2. [type |-> "verdict", verdict |-> verdict] \in Answers
      BY DEF Answers
    <3> QED
      BY <3>1, <3>2, RowQuiet, HostQuiet DEF Quiet, QuietInbox
  <2> QED
    BY <2>1, <2>2
<1>6. CASE PhaseStarted
  <2>1. CASE \E kind : Fails(kind)
    BY <2>1, FailsQuiet
  <2>2. CASE ~(\E kind : Fails(kind)) /\ Event.phase = "cloud"
    BY <1>6, <2>2, RowQuiet, RecordsQuiet DEF PhaseStarted
  <2>3. CASE ~(\E kind : Fails(kind)) /\ Event.phase # "cloud"
    BY <1>6, <2>3, RowQuiet, HostQuiet DEF PhaseStarted, Quiet, QuietInbox
  <2> QED
    BY <2>1, <2>2, <2>3
<1>7. CASE DeniedAction
  BY <1>7, FailsQuiet DEF DeniedAction
<1>8. CASE PlanReceived
  BY <1>8, RowQuiet, RecordsQuiet, FailsQuiet DEF PlanReceived
<1>9. CASE HandoffReady
  BY <1>9, RowQuiet, RecordsQuiet, FailsQuiet DEF HandoffReady
<1>10. CASE PatchEvent
  <2>1. CASE \E kind : Fails(kind)
    BY <2>1, FailsQuiet
  <2>2. CASE Records(RecordPatch(run, Event.kind, Event.src))
    BY <2>2, RowQuiet, RecordsQuiet
  <2>3. CASE host' = [host EXCEPT !.await = "candidate"] /\ UNCHANGED <<run, inbox>>
    BY <2>3, RowQuiet, HostQuiet DEF Quiet, QuietInbox
  <2> QED
    BY <1>10, <2>1, <2>2, <2>3 DEF PatchEvent
<1>11. CASE VerificationStarted
  BY <1>11, RowQuiet, RecordsQuiet, FailsQuiet DEF VerificationStarted
<1> QED
  BY <1>1, <1>2, <1>3, <1>4, <1>5, <1>6, <1>7, <1>8, <1>9, <1>10, <1>11

\* The same for the events whose handler also remembers something of the order of events.
LEMMA ReceiptsQuiet ==
    ASSUME Inv,
           \/ CommandStarted \/ CommandFinished \/ CheckReceipt \/ RoutingCheckpoint
           \/ VerificationFinished \/ ContextPrepared \/ CandidateVerified
    PROVE  Quiet
<1>1. CASE CommandStarted
  <2>1. CASE \E kind : Fails(kind)
    BY <2>1, FailsQuiet
  <2>2. CASE ~(\E kind : Fails(kind))
    <3>1. run' \in {run, InvalidateCheckpointCheck(run)} /\ inbox' = inbox
      BY <1>1, <2>2 DEF CommandStarted
    <3>2. host' \in {host, [host EXCEPT !.action = "command"]}
      BY <1>1, <2>2 DEF CommandStarted
    <3> QED
      BY <3>1, <3>2, RowQuiet, HostQuiet DEF Quiet, QuietInbox
  <2> QED
    BY <2>1, <2>2
<1>2. CASE CommandFinished
  <2>1. CASE \E kind : Fails(kind)
    BY <2>1, FailsQuiet
  <2>2. CASE ~(\E kind : Fails(kind))
    <3>1. run' = RecordTool(run) /\ inbox' = inbox
      BY <1>2, <2>2 DEF CommandFinished
    <3>2. host' \in {host, [host EXCEPT !.action = "ran"]}
      BY <1>2, <2>2 DEF CommandFinished
    <3> QED
      BY <3>1, <3>2, RowQuiet, HostQuiet DEF Quiet, QuietInbox
  <2> QED
    BY <2>1, <2>2
<1>3. CASE CheckReceipt
  <2>1. CASE \E kind : Fails(kind)
    BY <2>1, FailsQuiet
  <2>2. CASE ~(\E kind : Fails(kind))
    <3>1. run' = RecordCheckpointCheck(run, Event.check) /\ inbox' = inbox
      BY <1>3, <2>2 DEF CheckReceipt
    <3>2. host' \in {host, [host EXCEPT !.action = "check"]}
      BY <1>3, <2>2 DEF CheckReceipt
    <3> QED
      BY <3>1, <3>2, RowQuiet, HostQuiet DEF Quiet, QuietInbox
  <2> QED
    BY <2>1, <2>2
<1>4. CASE RoutingCheckpoint
  <2>1. CASE \E kind : Fails(kind)
    BY <2>1, FailsQuiet
  <2>2. CASE ~(\E kind : Fails(kind))
    BY <1>4, <2>2, RowQuiet, HostQuiet DEF RoutingCheckpoint, Quiet, QuietInbox
  <2> QED
    BY <2>1, <2>2
<1>5. CASE VerificationFinished
  <2>1. CASE \E kind : Fails(kind)
    BY <2>1, FailsQuiet
  <2>2. CASE ~(\E kind : Fails(kind))
    BY <1>5, <2>2, RowQuiet, HostQuiet DEF VerificationFinished, Quiet, QuietInbox
  <2> QED
    BY <2>1, <2>2
<1>6. CASE ContextPrepared
  <2>1. [type |-> "context"] \in Answers
    BY DEF Answers
  <2>2. CASE /\ run' = RecordCriticDraft(run, run.cp.src)
             /\ host' = [[host EXCEPT !.await = "none"] EXCEPT !.context = TRUE]
             /\ inbox' = Append(inbox, [type |-> "context"])
    BY <2>1, <2>2, RowQuiet, HostQuiet DEF Quiet, QuietInbox
  <2>3. CASE host' = Failed([host EXCEPT !.await = "none"], "ended") /\ UNCHANGED <<run, inbox>>
    BY <2>3, RowQuiet, HostQuiet, FailedQuiet DEF Quiet, QuietInbox
  <2> QED
    BY <1>6, <2>2, <2>3 DEF ContextPrepared
<1>7. CASE CandidateVerified
  <2>1. run' \in {run, RecordPatch(run, "submitted", run.cp.src)} /\ inbox' = inbox
    BY <1>7 DEF CandidateVerified
  <2>2. \/ host' = [host EXCEPT !.await = "none"]
        \/ \E kind : host' = Failed([host EXCEPT !.await = "none"], kind)
    BY <1>7 DEF CandidateVerified
  <2>3. QuietHost(host')
    <3>1. QuietHost([host EXCEPT !.await = "none"])
      BY HostQuiet
    <3>2. \A kind : QuietHost(Failed([host EXCEPT !.await = "none"], kind))
      BY <3>1, FailedQuiet
    <3> QED
      BY <2>2, <3>1, <3>2
  <2> QED
    BY <2>1, <2>3, RowQuiet DEF Quiet, QuietInbox
<1> QED
  BY <1>1, <1>2, <1>3, <1>4, <1>5, <1>6, <1>7

\* The host admits a request only with its row opened, and settles the row it opened.
LEMMA HostKeeps ==
    ASSUME Inv, HostNext
    PROVE  Inv'
<1>1. w' = w
  BY DEF HostNext, Handled, Ready, Dropped, TerminalReceipt, RequestPrepare, RequestFinished,
         RequestUnsettled, ContextPrepare, ContextPrepared, CriticResponse, PhaseStarted,
         CommandStarted, CommandFinished, DeniedAction, CheckReceipt, RoutingCheckpoint,
         PlanReceived, HandoffReady, PatchEvent, CandidateVerified, VerificationStarted,
         VerificationFinished, WorkerClosed
<1>2. QuietWorker(w')
  BY <1>1 DEF Inv, QuietWorker
<1>3. CASE Quiet
  BY <1>2, <1>3, QuietKeeps DEF Quiet
<1>4. CASE RequestPrepare /\ ~Quiet
  <2>1. ~(\E kind : Fails(kind))
    BY <1>4, FailsQuiet
  <2>2. /\ Authorized(Event.phase, Event.call) /\ Admitted("prepare")
        /\ run' = StartRequest(ReserveRequest(run, Event.phase))
        /\ host' = [host EXCEPT !.pending = TRUE]
        /\ inbox' = Append(inbox, [type |-> "admitted"])
    BY <1>4, <2>1 DEF RequestPrepare
  <2>3. Event.phase \in RequestPhases /\ ~Unresolved(run)
    BY <2>2 DEF Authorized, CanReserve
  <2>4. Books(run') /\ Sendable(run') = Sendable(run) + 1 /\ run'.last.state = "started"
    BY <2>2, <2>3, ReserveBooks DEF Inv
  <2>5. [type |-> "admitted"] \in Answers
    BY DEF Answers
  <2>6. inbox' \in Seq(Answers) /\ Granted(inbox') = Granted(inbox) + 1
    BY <2>2, <2>5, GrantedAppend DEF Inv
  <2>7. Granted(inbox) \in Nat /\ Sendable(run) \in Nat
    BY GrantedFinite, SendableNat DEF Inv
  <2>8. w'.sends + Granted(inbox') <= Sendable(run')
    BY <1>1, <2>4, <2>6, <2>7 DEF Inv
  <2>9. host.place = "working"
    BY <2>2 DEF Admitted, Reads
  <2>10. /\ {"pending", "place"} \subseteq DOMAIN host' /\ host'.pending = TRUE
         /\ host'.place = "working"
    BY <2>2, <2>9 DEF Inv
  <2> QED
    BY <1>1, <2>4, <2>6, <2>8, <2>10 DEF Inv
<1>5. CASE (RequestFinished \/ RequestUnsettled) /\ ~Quiet
  <2>1. ~(\E kind : Fails(kind))
    BY <1>5, FailsQuiet
  <2>2. host.pending /\ inbox' = inbox
    BY <1>5, <2>1 DEF RequestFinished, RequestUnsettled
  <2>3. \E outcome \in {"succeeded", "unknown"}, cost \in {0, Event.cost} : run' = Settle(run, outcome, cost)
    BY <1>5, <2>1 DEF RequestFinished, RequestUnsettled
  <2>4. Books(run') /\ Sendable(run') = Sendable(run)
    BY <2>2, <2>3, SettleBooks DEF Inv
  <2> DEFINE settled == [host EXCEPT !.pending = FALSE]
  <2>5. settled.pending = FALSE /\ QuietHost(settled)
    BY DEF Inv, QuietHost
  <2>6. host' = settled \/ host' = Failed(settled, "ended")
    BY <1>5, <2>1 DEF RequestFinished, RequestUnsettled
  <2> HIDE DEF settled
  <2>7. QuietHost(Failed(settled, "ended")) /\ Failed(settled, "ended").pending = FALSE
    BY <2>5, FailedQuiet
  <2>8. {"pending", "place"} \subseteq DOMAIN host' /\ host'.pending = FALSE
    BY <2>5, <2>6, <2>7 DEF QuietHost
  <2>9. QuietInbox(inbox')
    BY <2>2 DEF QuietInbox
  <2> QED
    BY <1>2, <2>4, <2>8, <2>9, BooksKeep
<1>6. CASE WorkerClosed
  <2>1. \E status : run' = Finish(run, status)
    BY <1>6 DEF WorkerClosed
  <2>2. Books(run') /\ Sendable(run') = Sendable(run)
    BY <2>1, FinishBooks DEF Inv
  <2>3. {"pending", "place"} \subseteq DOMAIN host' /\ host'.pending = FALSE
    BY <1>6 DEF WorkerClosed, NewHost
  <2>4. QuietInbox(inbox')
    BY <1>6 DEF WorkerClosed, QuietInbox
  <2> QED
    BY <1>2, <2>2, <2>3, <2>4, BooksKeep
<1> QED
  BY <1>3, <1>4, <1>5, <1>6, EventsQuiet, ReceiptsQuiet DEF HostNext

-----------------------------------------------------------------------------
(* The controller, its crash and its restart. *)

\* The end of a run whose worker the host does not run leaves no request pending.
LEMMA FinishKeeps ==
    ASSUME Inv, NEW status, run' = Finish(run, status), UNCHANGED <<w, inbox>>,
           {"pending", "place"} \subseteq DOMAIN host', host'.pending = FALSE
    PROVE  Inv'
<1>1. Books(run') /\ Sendable(run') = Sendable(run)
  BY FinishBooks DEF Inv
<1>2. QuietWorker(w') /\ QuietInbox(inbox')
  BY DEF Inv, QuietWorker, QuietInbox
<1> QED
  BY <1>1, <1>2, BooksKeep

\* The controller opens a request only where it dies between the two transactions of an admission.
LEMMA ControllerKeeps ==
    ASSUME Inv,
           \/ StartRun \/ Preparation \/ Cancel \/ Decide \/ Crash \/ CrashInAdmission \/ Restart
           \/ HostDeadline
    PROVE  Inv'
<1>1. QuietWorker(w) /\ QuietInbox(inbox)
  BY DEF Inv, QuietWorker, QuietInbox
<1>2. host.place # "working" => host.pending = FALSE
  BY DEF Inv
<1>3. CASE StartRun
  <2>1. /\ run' = Start(run) /\ host' = [host EXCEPT !.place = "preparing"]
        /\ UNCHANGED <<w, inbox>> /\ host.place = "idle"
    BY <1>3 DEF StartRun
  <2>2. QuietHost(host')
    BY <1>2, <2>1 DEF Inv, QuietHost
  <2> QED
    BY <1>1, <2>1, <2>2, RowQuiet, QuietKeeps
<1>4. CASE Launch
  <2>1. /\ run' = SetPhase(run, "preparing") /\ host' = [host EXCEPT !.place = "working"]
        /\ inbox' = inbox /\ host.place = "preparing" /\ w' = [NoWorker EXCEPT !.at = "boot"]
    BY <1>4 DEF Launch
  <2>2. QuietHost(host')
    BY <1>2, <2>1 DEF Inv, QuietHost
  <2>3. QuietWorker(w')
    BY <2>1 DEF Inv, QuietWorker, NoWorker
  <2> QED
    BY <1>1, <2>1, <2>2, <2>3, RowQuiet, QuietKeeps
<1>5. CASE NotLaunched
  <2>1. /\ \E status : run' = Finish(run, status)
        /\ host' = [host EXCEPT !.place = "idle"]
        /\ UNCHANGED <<w, inbox>> /\ host.place = "preparing"
    BY <1>5 DEF NotLaunched
  <2>2. {"pending", "place"} \subseteq DOMAIN host' /\ host'.pending = FALSE
    BY <1>2, <2>1 DEF Inv
  <2> QED
    BY <2>1, <2>2, FinishKeeps
<1>6. CASE Cancel /\ host.place = "idle"
  <2>1. run' = Finish(run, "cancelled") /\ UNCHANGED <<host, w, inbox>>
    BY <1>6 DEF Cancel
  <2>2. {"pending", "place"} \subseteq DOMAIN host' /\ host'.pending = FALSE
    BY <1>2, <1>6, <2>1 DEF Inv
  <2> QED
    BY <2>1, <2>2, FinishKeeps
<1>7. CASE Cancel /\ host.place # "idle"
  <2>1. /\ host' = [host EXCEPT !.cancelled = TRUE, !.stopped = @ \/ host.place = "working"]
        /\ UNCHANGED <<run, w, inbox>>
    BY <1>7 DEF Cancel
  <2>2. QuietHost(host')
    BY <2>1 DEF Inv, QuietHost
  <2> QED
    BY <1>1, <2>1, <2>2, RowQuiet, QuietKeeps
<1>8. CASE Decide
  <2>1. (\E decision : run' = [run EXCEPT !.decision = decision]) /\ UNCHANGED <<host, w, inbox>>
    BY <1>8 DEF Decide
  <2> QED
    BY <1>1, <2>1, RowQuiet, HostQuiet, QuietKeeps
<1>9. CASE Crash
  <2>1. /\ run' = run /\ inbox' = inbox /\ w' = [w EXCEPT !.orphan = TRUE]
        /\ host' = [NewHost EXCEPT !.up = FALSE]
    BY <1>9 DEF Crash
  <2>2. QuietHost(host') /\ QuietWorker(w')
    BY <2>1 DEF Inv, QuietHost, QuietWorker, NewHost
  <2> QED
    BY <1>1, <2>1, <2>2, RowQuiet, QuietKeeps
<1>10. CASE CrashInAdmission
  <2>1. /\ Authorized(Event.phase, Event.call)
        /\ run' \in {ReserveRequest(run, Event.phase), StartRequest(ReserveRequest(run, Event.phase))}
        /\ inbox' = inbox /\ w' = [w EXCEPT !.orphan = TRUE] /\ host' = [NewHost EXCEPT !.up = FALSE]
    BY <1>10 DEF CrashInAdmission
  <2>2. Event.phase \in RequestPhases /\ ~Unresolved(run)
    BY <2>1 DEF Authorized, CanReserve
  <2>3. Books(run') /\ Sendable(run') \in {Sendable(run), Sendable(run) + 1}
    BY <2>1, <2>2, ReserveBooks DEF Inv
  <2>4. Granted(inbox) \in Nat /\ Sendable(run) \in Nat
    BY GrantedFinite, SendableNat DEF Inv
  <2>5. "sends" \in DOMAIN w' /\ w'.sends = w.sends
    BY <2>1 DEF Inv
  <2>6. w'.sends + Granted(inbox') <= Sendable(run')
    BY <2>1, <2>3, <2>4, <2>5 DEF Inv
  <2>7. {"pending", "place"} \subseteq DOMAIN host' /\ host'.pending = FALSE
    BY <2>1 DEF NewHost
  <2> QED
    BY <2>1, <2>3, <2>5, <2>6, <2>7 DEF Inv
<1>11. CASE Restart
  <2>1. /\ host' = NewHost /\ UNCHANGED <<w, inbox>>
        /\ run' = run \/ \E status : run' = Finish(run, status)
    BY <1>11 DEF Restart
  <2>2. {"pending", "place"} \subseteq DOMAIN host' /\ host'.pending = FALSE /\ QuietHost(host')
    BY <2>1 DEF NewHost, QuietHost
  <2>3. CASE run' = run
    BY <1>1, <2>1, <2>2, <2>3, RowQuiet, QuietKeeps
  <2> QED
    BY <2>1, <2>2, <2>3, FinishKeeps
<1>12. CASE HostDeadline
  <2>1. host' = Failed(host, "ended") /\ UNCHANGED <<run, w, inbox>>
    BY <1>12 DEF HostDeadline
  <2> QED
    BY <1>1, <2>1, RowQuiet, HostQuiet, FailedQuiet, QuietKeeps
<1> QED
  BY <1>3, <1>4, <1>5, <1>6, <1>7, <1>8, <1>9, <1>10, <1>11, <1>12 DEF Preparation

-----------------------------------------------------------------------------
(* The theorem. *)

\* The invariant is inductive.
LEMMA Inductive ==
    ASSUME Inv, [Next]_vars
    PROVE  Inv'
<1>1. CASE WorkerNext
  BY <1>1, WorkerKeeps
<1>2. CASE HostNext
  BY <1>2, HostKeeps
<1>3. CASE UNCHANGED vars
  BY <1>3 DEF vars, Inv, Books, Opened, Sendable, Granted, Grants, Unresolved
<1> QED
  BY <1>1, <1>2, <1>3, ControllerKeeps DEF Next

(***************************************************************************)
(* Every request that was ever sent has a receipt, but for a last one,     *)
(* and a request that is not resolved holds its price, whatever crashes,   *)
(* cancellations and refusals come between (store.ts:669-856).             *)
(***************************************************************************)
THEOREM SentRequestsAccounted == Spec => []SentIsAccounted
<1>1. Inv => SentIsAccounted
  <2> SUFFICES ASSUME Inv PROVE SentIsAccounted
    OBVIOUS
  <2>1. Granted(inbox) \in Nat /\ Sendable(run) \in Nat
    BY GrantedFinite, SendableNat DEF Inv
  <2>2. w.sends \in Nat /\ w.sends <= Sendable(run)
    BY <2>1 DEF Inv
  <2>3. Sendable(run) = Receipts + (IF run.last.state \in {"started", "unknown"} THEN 1 ELSE 0)
    BY DEF Sendable, Opened, Receipts
  <2> QED
    BY <2>2, <2>3 DEF Inv, Books, SentIsAccounted
<1> QED
  BY <1>1, InitKeeps, Inductive, PTL DEF Spec

-----------------------------------------------------------------------------
(* What the pipe says. *)

IsPipe(s) == \E S : s \in Seq(S)

\* The events by which a submission can be followed.
Kind(x) ==
    CASE x.type = "checkpoint" -> IF x.cp.decision = "submit" THEN "submit" ELSE "early"
      [] x.type = "phase" -> IF x.phase = "cloud" THEN "cloud" ELSE "early"
      [] x.type = "patch" -> IF x.kind = "submitted" THEN "patch" ELSE "late"
      [] x.type = "terminal" -> "late"
      [] x.type \in {"verifying", "verified", "finished", "prepare"} -> x.type
      [] OTHER -> "early"

\* What may follow the decision to submit.
Closing == {"patch", "verifying", "verified", "late"}

CheckFields == {"src", "after", "passed", "fresh"}

Says(s, k) == \E i \in DOMAIN s : Kind(s[i]) = k
Only(s, K) == \A i \in DOMAIN s : Kind(s[i]) \in K
\* Every b comes after an a.
Leads(s, a, b) == \A i \in DOMAIN s : Kind(s[i]) = b => \E j \in DOMAIN s : j < i /\ Kind(s[j]) = a
Closes(s) == \A i, j \in DOMAIN s : i < j /\ Kind(s[i]) = "submit" => Kind(s[j]) \in Closing
\* A prepared request is the last thing said.
PreparedLast(s, phase) == \A i \in DOMAIN s : Kind(s[i]) = "prepare" => i = Len(s) /\ s[i].phase = phase
\* The fields of an event that its handler relies on.
Phrased(x) ==
    /\ x.type = "checked" => DOMAIN x.check = CheckFields
    /\ x.type = "patch" => x.kind \in {"submitted", "recovered"}
    /\ x.type = "phase" => x.phase \in {"planner", "local", "critic", "cloud"}
Formed(s) == \A i \in DOMAIN s : Phrased(s[i])

\* The tree an event is about.
Tree(x) == IF Kind(x) = "submit" THEN x.cp.src ELSE x.src
Agree(s, t) == \A i \in DOMAIN s : Kind(s[i]) \in {"submit", "patch", "verified"} => Tree(s[i]) = t

\* u is s, followed by t.
Joins(s, t, u) ==
    /\ IsPipe(u) /\ Len(s) \in Nat /\ Len(t) \in Nat /\ Len(u) = Len(s) + Len(t)
    /\ DOMAIN s = 1 .. Len(s) /\ DOMAIN t = 1 .. Len(t) /\ DOMAIN u = 1 .. Len(s) + Len(t)
    /\ \A i \in DOMAIN s : u[i] = s[i]
    /\ \A k \in DOMAIN t : u[Len(s) + k] = t[k]
    /\ \A i \in DOMAIN u : i \in DOMAIN s \/ \E k \in DOMAIN t : i = Len(s) + k

\* Events are added at the end.
LEMMA Joined ==
    ASSUME NEW s, NEW t, IsPipe(s), IsPipe(t)
    PROVE  Joins(s, t, s \o t)
<1>1. PICK S : s \in Seq(S)
  BY DEF IsPipe
<1>2. PICK T : t \in Seq(T)
  BY DEF IsPipe
<1>3. s \in Seq(S \cup T) /\ t \in Seq(S \cup T)
  BY <1>1, <1>2
<1>4. s \o t \in Seq(S \cup T)
  BY <1>3
<1>5. /\ Len(s) \in Nat /\ Len(t) \in Nat /\ Len(s \o t) = Len(s) + Len(t)
      /\ DOMAIN s = 1 .. Len(s) /\ DOMAIN t = 1 .. Len(t) /\ DOMAIN (s \o t) = 1 .. Len(s) + Len(t)
      /\ \A i \in DOMAIN s : (s \o t)[i] = s[i]
      /\ \A k \in DOMAIN t : (s \o t)[Len(s) + k] = t[k]
  BY <1>3, <1>4
<1>6. ASSUME NEW i \in DOMAIN (s \o t), i \notin DOMAIN s
      PROVE  \E k \in DOMAIN t : i = Len(s) + k
  <2>1. i - Len(s) \in 1 .. Len(t) /\ i = Len(s) + (i - Len(s))
    BY <1>5, <1>6
  <2> QED
    BY <1>5, <2>1
<1> QED
  BY <1>4, <1>5, <1>6 DEF IsPipe, Joins

\* The head is read.
LEMMA Tailed ==
    ASSUME NEW s, IsPipe(s), s # <<>>
    PROVE  /\ IsPipe(Tail(s)) /\ Len(s) \in Nat /\ Len(Tail(s)) = Len(s) - 1
           /\ 1 \in DOMAIN s /\ Head(s) = s[1]
           /\ DOMAIN s = 1 .. Len(s) /\ DOMAIN Tail(s) = 1 .. Len(s) - 1
           /\ \A i \in DOMAIN Tail(s) : i + 1 \in DOMAIN s /\ Tail(s)[i] = s[i + 1]
           /\ \A j \in DOMAIN s : j = 1 \/ (j - 1 \in DOMAIN Tail(s) /\ Tail(s)[j - 1] = s[j])
<1>1. PICK S : s \in Seq(S)
  BY DEF IsPipe
<1>2. Tail(s) \in Seq(S) /\ Len(s) \in Nat /\ Len(s) > 0 /\ Len(Tail(s)) = Len(s) - 1
      /\ DOMAIN s = 1 .. Len(s) /\ DOMAIN Tail(s) = 1 .. Len(s) - 1
      /\ \A i \in 1 .. Len(s) - 1 : Tail(s)[i] = s[i + 1]
      /\ Head(s) = s[1]
  BY <1>1
<1>3. \A j \in DOMAIN s : j = 1 \/ (j - 1 \in DOMAIN Tail(s) /\ Tail(s)[j - 1] = s[j])
  BY <1>2
<1> QED
  BY <1>2, <1>3 DEF IsPipe

\* What is said of a longer pipe.
LEMMA SaidMore ==
    ASSUME NEW s, NEW t, IsPipe(s), IsPipe(t)
    PROVE  /\ \A k : Says(s \o t, k) <=> Says(s, k) \/ Says(t, k)
           /\ \A K : Only(s, K) /\ Only(t, K) => Only(s \o t, K)
           /\ \A x : Agree(s, x) /\ Agree(t, x) => Agree(s \o t, x)
           /\ Formed(s) /\ Formed(t) => Formed(s \o t)
           /\ \A a, b : Leads(s, a, b) /\ (~Says(t, b) \/ Says(s, a) \/ Leads(t, a, b)) => Leads(s \o t, a, b)
           /\ Closes(s) /\ Closes(t) /\ (Says(s, "submit") => Only(t, Closing)) => Closes(s \o t)
           /\ \A phase : ~Says(s, "prepare") /\ ~Says(t, "prepare") => PreparedLast(s \o t, phase)
<1>0. Joins(s, t, s \o t)
  BY Joined
<1> DEFINE u == s \o t
<1>1. Joins(s, t, u)
  BY <1>0
<1> HIDE DEF u
<1>2. (\A i \in DOMAIN s : i \in DOMAIN u) /\ (\A k \in DOMAIN t : Len(s) + k \in DOMAIN u)
  BY <1>1 DEF Joins
<1>3. \A k : Says(u, k) <=> Says(s, k) \/ Says(t, k)
  BY <1>1, <1>2 DEF Says, Joins
<1>4. /\ \A K : Only(s, K) /\ Only(t, K) => Only(u, K)
      /\ \A x : Agree(s, x) /\ Agree(t, x) => Agree(u, x)
      /\ Formed(s) /\ Formed(t) => Formed(u)
  BY <1>1 DEF Only, Agree, Formed, Joins
<1>5. ASSUME NEW a, NEW b, Leads(s, a, b), ~Says(t, b) \/ Says(s, a) \/ Leads(t, a, b)
      PROVE  Leads(u, a, b)
  <2> SUFFICES ASSUME NEW i \in DOMAIN u, Kind(u[i]) = b
               PROVE  \E j \in DOMAIN u : j < i /\ Kind(u[j]) = a
    BY DEF Leads
  <2>1. CASE i \in DOMAIN s
    BY <1>1, <1>2, <1>5, <2>1 DEF Leads, Joins
  <2>2. CASE \E k \in DOMAIN t : i = Len(s) + k
    <3>1. PICK k \in DOMAIN t : i = Len(s) + k
      BY <2>2
    <3>2. Kind(t[k]) = b
      BY <1>1, <3>1 DEF Joins
    <3>3. CASE Says(s, a)
      <4>1. PICK j \in DOMAIN s : Kind(s[j]) = a
        BY <3>3 DEF Says
      <4>2. j \in DOMAIN u /\ j < i /\ Kind(u[j]) = a
        BY <1>1, <1>2, <3>1, <4>1 DEF Joins
      <4> QED
        BY <4>2
    <3>4. CASE Leads(t, a, b)
      <4>1. PICK j \in DOMAIN t : j < k /\ Kind(t[j]) = a
        BY <3>2, <3>4 DEF Leads
      <4>2. Len(s) + j \in DOMAIN u /\ Len(s) + j < i /\ Kind(u[Len(s) + j]) = a
        BY <1>1, <1>2, <3>1, <4>1 DEF Joins
      <4> QED
        BY <4>2
    <3> QED
      BY <1>5, <3>2, <3>3, <3>4 DEF Says
  <2> QED
    BY <1>1, <2>1, <2>2 DEF Joins
<1>6. ASSUME Closes(s), Closes(t), Says(s, "submit") => Only(t, Closing)
      PROVE  Closes(u)
  <2> SUFFICES ASSUME NEW i \in DOMAIN u, NEW j \in DOMAIN u, i < j, Kind(u[i]) = "submit"
               PROVE  Kind(u[j]) \in Closing
    BY DEF Closes
  <2>1. CASE i \in DOMAIN s /\ j \in DOMAIN s
    BY <1>1, <1>6, <2>1 DEF Closes, Joins
  <2>2. CASE i \in DOMAIN s /\ \E k \in DOMAIN t : j = Len(s) + k
    <3>1. Says(s, "submit")
      BY <1>1, <2>2 DEF Says, Joins
    <3> QED
      BY <1>1, <1>6, <2>2, <3>1 DEF Only, Joins
  <2>3. CASE \E k \in DOMAIN t : i = Len(s) + k
    <3>1. PICK k \in DOMAIN t : i = Len(s) + k
      BY <2>3
    <3>2. j \notin DOMAIN s
      BY <1>1, <3>1 DEF Joins
    <3>3. PICK l \in DOMAIN t : j = Len(s) + l
      BY <1>1, <3>2 DEF Joins
    <3>4. k < l /\ Kind(t[k]) = "submit" /\ u[j] = t[l]
      BY <1>1, <3>1, <3>3 DEF Joins
    <3> QED
      BY <1>6, <3>4 DEF Closes
  <2> QED
    BY <1>1, <2>1, <2>2, <2>3 DEF Joins
<1>7. \A phase : ~Says(s, "prepare") /\ ~Says(t, "prepare") => PreparedLast(u, phase)
  BY <1>3 DEF PreparedLast, Says
<1> QED
  BY <1>3, <1>4, <1>5, <1>6, <1>7 DEF u

\* What is said of the rest of a pipe.
LEMMA SaidLess ==
    ASSUME NEW s, IsPipe(s), s # <<>>
    PROVE  /\ \A k : Says(Tail(s), k) => Says(s, k)
           /\ \A k : Says(s, k) => Says(Tail(s), k) \/ Kind(Head(s)) = k
           /\ \A K : Only(s, K) => Kind(Head(s)) \in K /\ Only(Tail(s), K)
           /\ \A x : Agree(s, x) => Agree(Tail(s), x)
           /\ \A x : Agree(s, x) /\ Kind(Head(s)) \in {"submit", "patch", "verified"} => Tree(Head(s)) = x
           /\ Formed(s) => Formed(Tail(s)) /\ Phrased(Head(s))
           /\ \A a, b : Leads(s, a, b) => Kind(Head(s)) # b
           /\ \A a, b : Leads(s, a, b) /\ Kind(Head(s)) # a => Leads(Tail(s), a, b)
           /\ Closes(s) => Closes(Tail(s)) /\ (Kind(Head(s)) = "submit" => Only(Tail(s), Closing))
           /\ \A phase : PreparedLast(s, phase) => PreparedLast(Tail(s), phase)
           /\ \A phase : PreparedLast(s, phase) /\ Kind(Head(s)) = "prepare" =>
                           Tail(s) = <<>> /\ Head(s).phase = phase
<1> DEFINE u == Tail(s)
<1>1. /\ IsPipe(u) /\ Len(s) \in Nat /\ Len(u) = Len(s) - 1 /\ 1 \in DOMAIN s /\ Head(s) = s[1]
      /\ DOMAIN s = 1 .. Len(s) /\ DOMAIN u = 1 .. Len(s) - 1
      /\ \A i \in DOMAIN u : i + 1 \in DOMAIN s /\ u[i] = s[i + 1]
      /\ \A j \in DOMAIN s : j = 1 \/ (j - 1 \in DOMAIN u /\ u[j - 1] = s[j])
  BY Tailed
<1> HIDE DEF u
<1>2. \A k : (Says(u, k) => Says(s, k)) /\ (Says(s, k) => Says(u, k) \/ Kind(Head(s)) = k)
  BY <1>1 DEF Says
<1>3. /\ \A K : Only(s, K) => Kind(Head(s)) \in K /\ Only(u, K)
      /\ \A x : Agree(s, x) => Agree(u, x)
      /\ \A x : Agree(s, x) /\ Kind(Head(s)) \in {"submit", "patch", "verified"} => Tree(Head(s)) = x
      /\ Formed(s) => Formed(u) /\ Phrased(Head(s))
  <2>1. \A K : Only(s, K) => Kind(Head(s)) \in K /\ Only(u, K)
    BY <1>1 DEF Only
  <2>2. \A x : Agree(s, x) => Agree(u, x)
    BY <1>1 DEF Agree
  <2>4. \A x : Agree(s, x) /\ Kind(Head(s)) \in {"submit", "patch", "verified"} => Tree(Head(s)) = x
    BY <1>1 DEF Agree
  <2>3. Formed(s) => Formed(u) /\ Phrased(Head(s))
    BY <1>1 DEF Formed
  <2> QED
    BY <2>1, <2>2, <2>3, <2>4
<1>4. ASSUME NEW a, NEW b, Leads(s, a, b)
      PROVE  Kind(Head(s)) # b /\ (Kind(Head(s)) # a => Leads(u, a, b))
  <2>1. Kind(Head(s)) # b
    BY <1>1, <1>4 DEF Leads
  <2>2. ASSUME Kind(Head(s)) # a, NEW i \in DOMAIN u, Kind(u[i]) = b
        PROVE  \E j \in DOMAIN u : j < i /\ Kind(u[j]) = a
    <3>1. PICK j \in DOMAIN s : j < i + 1 /\ Kind(s[j]) = a
      BY <1>1, <1>4, <2>2 DEF Leads
    <3>2. j # 1
      BY <1>1, <2>2, <3>1
    <3>3. j - 1 \in DOMAIN u /\ j - 1 < i /\ Kind(u[j - 1]) = a
      BY <1>1, <3>1, <3>2
    <3> QED
      BY <3>3
  <2> QED
    BY <2>1, <2>2 DEF Leads
<1>5. ASSUME Closes(s)
      PROVE  Closes(u) /\ (Kind(Head(s)) = "submit" => Only(u, Closing))
  <2>1. ASSUME NEW i \in DOMAIN u, NEW j \in DOMAIN u, i < j, Kind(u[i]) = "submit"
        PROVE  Kind(u[j]) \in Closing
    <3>1. i + 1 \in DOMAIN s /\ j + 1 \in DOMAIN s /\ i + 1 < j + 1 /\ u[i] = s[i + 1] /\ u[j] = s[j + 1]
      BY <1>1, <2>1
    <3> QED
      BY <1>5, <2>1, <3>1 DEF Closes
  <2>2. ASSUME NEW j \in DOMAIN u, Kind(Head(s)) = "submit"
        PROVE  Kind(u[j]) \in Closing
    <3>1. j + 1 \in DOMAIN s /\ 1 < j + 1 /\ u[j] = s[j + 1]
      BY <1>1
    <3> QED
      BY <1>1, <1>5, <2>2, <3>1 DEF Closes
  <2> QED
    BY <2>1, <2>2 DEF Closes, Only
<1>6. ASSUME NEW phase, PreparedLast(s, phase)
      PROVE  /\ PreparedLast(u, phase)
             /\ Kind(Head(s)) = "prepare" => u = <<>> /\ Head(s).phase = phase
  <2>1. PreparedLast(u, phase)
    <3> SUFFICES ASSUME NEW i \in DOMAIN u, Kind(u[i]) = "prepare"
                 PROVE  i = Len(u) /\ u[i].phase = phase
      BY DEF PreparedLast
    <3>1. i + 1 = Len(s) /\ s[i + 1].phase = phase
      BY <1>1, <1>6 DEF PreparedLast
    <3> QED
      BY <1>1, <3>1
  <2>2. ASSUME Kind(Head(s)) = "prepare"
        PROVE  u = <<>> /\ Head(s).phase = phase
    <3>1. Len(s) = 1 /\ s[1].phase = phase
      BY <1>1, <1>6, <2>2 DEF PreparedLast
    <3>2. Len(u) = 0
      BY <1>1, <3>1
    <3> QED
      BY <1>1, <3>1, <3>2 DEF IsPipe
  <2> QED
    BY <2>1, <2>2
<1> QED
  BY <1>2, <1>3, <1>4, <1>5, <1>6 DEF u

-----------------------------------------------------------------------------
(* What the worker says as it goes along. *)

\* Events that report no submission and no request.
Talk == {"early", "late", "cloud"}
Plain(x) == Phrased(x) /\ Kind(x) \in Talk
Voice(s) == IsPipe(s) /\ Formed(s) /\ Only(s, Talk)

\* The empty pipe, and a pipe of one event.
LEMMA Single ==
    ASSUME NEW x
    PROVE  /\ IsPipe(<<>>) /\ Formed(<<>>) /\ Closes(<<>>)
           /\ \A K : Only(<<>>, K)
           /\ \A k : ~Says(<<>>, k)
           /\ \A t : Agree(<<>>, t)
           /\ \A a, b : Leads(<<>>, a, b)
           /\ \A phase : PreparedLast(<<>>, phase)
           /\ IsPipe(<<x>>) /\ (Phrased(x) => Formed(<<x>>)) /\ Closes(<<x>>)
           /\ \A K : Kind(x) \in K => Only(<<x>>, K)
           /\ \A k : Says(<<x>>, k) <=> Kind(x) = k
           /\ \A t : Agree(<<x>>, t) <=> (Kind(x) \in {"submit", "patch", "verified"} => Tree(x) = t)
           /\ \A a, b : Kind(x) # b => Leads(<<x>>, a, b)
           /\ \A phase : (Kind(x) = "prepare" => x.phase = phase) => PreparedLast(<<x>>, phase)
<1>1. <<>> \in Seq({}) /\ <<x>> \in Seq({x}) /\ Len(<<x>>) = 1 /\ DOMAIN <<>> = {} /\ DOMAIN <<x>> = {1} /\ <<x>>[1] = x
  OBVIOUS
<1>2. IsPipe(<<>>) /\ IsPipe(<<x>>)
  BY <1>1 DEF IsPipe
<1>3. /\ Formed(<<>>) /\ Closes(<<>>)
      /\ \A K : Only(<<>>, K)
      /\ \A k : ~Says(<<>>, k)
      /\ \A t : Agree(<<>>, t)
      /\ \A a, b : Leads(<<>>, a, b)
      /\ \A phase : PreparedLast(<<>>, phase)
  BY <1>1 DEF Formed, Closes, Only, Says, Agree, Leads, PreparedLast
<1> DEFINE u == <<x>>
<1>4. DOMAIN u = {1} /\ u[1] = x /\ Len(u) = 1
  BY <1>1
<1> HIDE DEF u
<1>5. (Phrased(x) => Formed(u)) /\ \A K : Kind(x) \in K => Only(u, K)
  BY <1>4 DEF Formed, Only
<1>6. Closes(u)
  BY <1>4 DEF Closes
<1>7. \A k : Says(u, k) <=> Kind(x) = k
  BY <1>4 DEF Says
<1>8. \A t : Agree(u, t) <=> (Kind(x) \in {"submit", "patch", "verified"} => Tree(x) = t)
  BY <1>4 DEF Agree
<1>9. \A a, b : Kind(x) # b => Leads(u, a, b)
  BY <1>4 DEF Leads
<1>10. \A phase : (Kind(x) = "prepare" => x.phase = phase) => PreparedLast(u, phase)
  BY <1>4 DEF PreparedLast
<1> QED
  BY <1>2, <1>3, <1>5, <1>6, <1>7, <1>8, <1>9, <1>10 DEF u

\* Plain events one after the other.
LEMMA Spoken ==
    ASSUME NEW x, NEW y, NEW z, Plain(x), Plain(y), Plain(z)
    PROVE  Voice(<<>>) /\ Voice(<<x>>) /\ Voice(<<x, y>>) /\ Voice(<<x, y, z>>)
<1>1. /\ <<>> \in Seq({}) /\ <<x>> \in Seq({x}) /\ <<x, y>> \in Seq({x, y}) /\ <<x, y, z>> \in Seq({x, y, z})
      /\ DOMAIN <<>> = {} /\ DOMAIN <<x>> = {1} /\ DOMAIN <<x, y>> = {1, 2} /\ DOMAIN <<x, y, z>> = {1, 2, 3}
  OBVIOUS
<1>2. IsPipe(<<>>) /\ IsPipe(<<x>>) /\ IsPipe(<<x, y>>) /\ IsPipe(<<x, y, z>>)
  BY <1>1 DEF IsPipe
<1>3. Formed(<<>>) /\ Only(<<>>, Talk) /\ Formed(<<x>>) /\ Only(<<x>>, Talk)
  BY <1>1 DEF Formed, Only, Plain
<1>4. Formed(<<x, y>>) /\ Only(<<x, y>>, Talk)
  BY <1>1 DEF Formed, Only, Plain
<1>5. Formed(<<x, y, z>>) /\ Only(<<x, y, z>>, Talk)
  BY <1>1 DEF Formed, Only, Plain
<1> QED
  BY <1>2, <1>3, <1>4, <1>5 DEF Voice

\* One thing said after another.
LEMMA VoiceJoined ==
    ASSUME NEW s, NEW t, Voice(s), Voice(t)
    PROVE  Voice(s \o t) /\ \A k : Says(s \o t, k) <=> Says(s, k) \/ Says(t, k)
<1>1. IsPipe(s \o t)
  BY Joined DEF Voice, Joins
<1>2. Formed(s \o t) /\ Only(s \o t, Talk) /\ \A k : Says(s \o t, k) <=> Says(s, k) \/ Says(t, k)
  BY SaidMore DEF Voice
<1> QED
  BY <1>1, <1>2 DEF Voice

\* The worker's events, but for a submission, its check and its requests.
LEMMA Words ==
    /\ \A r : r.decision # "submit" => Plain(Decides(r)) /\ Kind(Decides(r)) = "early"
    /\ \A phase \in {"planner", "local", "critic", "cloud"} :
          /\ Plain(PhaseStarts(phase))
          /\ Kind(PhaseStarts(phase)) = IF phase = "cloud" THEN "cloud" ELSE "early"
    /\ \A type \in {"ready", "unsettled", "plan", "command", "tool"} : Plain([type |-> type])
    /\ \A call, action : Plain([type |-> "denied", call |-> call, action |-> action])
    /\ \A src, after, passed, fresh :
          Plain([type |-> "checked",
                 check |-> [src |-> src, after |-> after, passed |-> passed, fresh |-> fresh]])
    /\ \A src, chk, patch : Plain([type |-> "handoff", src |-> src, chk |-> chk, patch |-> patch])
    /\ \A src : Plain([type |-> "context", src |-> src]) /\ Plain([type |-> "response", src |-> src])
<1>1. \A r : r.decision # "submit" => Plain(Decides(r)) /\ Kind(Decides(r)) = "early"
  BY DEF Plain, Talk, Phrased, Kind, Decides
<1>2. \A phase \in {"planner", "local", "critic", "cloud"} :
          /\ Plain(PhaseStarts(phase))
          /\ Kind(PhaseStarts(phase)) = IF phase = "cloud" THEN "cloud" ELSE "early"
  BY DEF Plain, Talk, Phrased, Kind, PhaseStarts
<1>3. \A type \in {"ready", "unsettled", "plan", "command", "tool"} : Plain([type |-> type])
  BY DEF Plain, Talk, Phrased, Kind
<1>4. \A call, action : Plain([type |-> "denied", call |-> call, action |-> action])
  BY DEF Plain, Talk, Phrased, Kind
<1>5. ASSUME NEW src, NEW after, NEW passed, NEW fresh
      PROVE  Plain([type |-> "checked",
                    check |-> [src |-> src, after |-> after, passed |-> passed, fresh |-> fresh]])
  BY DEF Plain, Talk, Phrased, Kind, CheckFields
<1>6. \A src, chk, patch : Plain([type |-> "handoff", src |-> src, chk |-> chk, patch |-> patch])
  BY DEF Plain, Talk, Phrased, Kind
<1>7. \A src : Plain([type |-> "context", src |-> src]) /\ Plain([type |-> "response", src |-> src])
  BY DEF Plain, Talk, Phrased, Kind
<1> QED
  BY <1>1, <1>2, <1>3, <1>4, <1>5, <1>6, <1>7

\* Edits that were kept are reported late.
LEMMA RecoveredLate ==
    ASSUME NEW src
    PROVE  Voice(Recovers(src)) /\ Only(Recovers(src), {"late"})
<1> DEFINE x == [type |-> "patch", kind |-> "recovered", src |-> src]
<1>1. Kind(x) = "late" /\ Plain(x)
  BY DEF Plain, Talk, Phrased, Kind
<1>2. Recovers(src) = IF src = Base THEN <<>> ELSE <<x>>
  BY DEF Recovers
<1> HIDE DEF x
<1>3. Voice(<<>>) /\ Voice(<<x>>)
  BY <1>1, Spoken
<1>4. Only(<<>>, {"late"}) /\ Only(<<x>>, {"late"})
  BY <1>1, Single
<1> QED
  BY <1>2, <1>3, <1>4

-----------------------------------------------------------------------------
(* The router. *)

RouterFields ==
    {"policy", "state", "decision", "reason", "seq", "calls", "fails", "dups", "src", "chk",
     "pending", "allowed", "handoffUsed", "half", "start", "criticUsed", "receipt"}

\* A record of the router's, its tree and its decision known.
Routes(r, src) == DOMAIN r = RouterFields /\ r.src = src /\ r.decision # "submit"

\* What every decision is made of.
LEMMA Recorded ==
    ASSUME NEW r, DOMAIN r = RouterFields, NEW decision, NEW reason
    PROVE  /\ DOMAIN Record(r, decision, reason) = RouterFields
           /\ Record(r, decision, reason).decision = decision
           /\ Record(r, decision, reason).src = r.src /\ Record(r, decision, reason).state = r.state
           /\ DOMAIN Settled(r) = RouterFields /\ Settled(r).src = r.src /\ Settled(r).policy = r.policy
           /\ Settled(r).state = r.state
BY DEF Record, Settled, RouterFields

\* The router stops, keeps a checkpoint, or goes on.
LEMMA Kept ==
    ASSUME NEW r, DOMAIN r = RouterFields, NEW reason
    PROVE  /\ Routes(Checkpoint(r, reason), r.src) /\ Routes(Stop(r, reason), r.src)
           /\ Routes(ContinueOrCheckpoint(r, reason), r.src)
<1> DEFINE s == Settled(r)
           c == [s EXCEPT !.state = "checkpoint"]
           d == [s EXCEPT !.state = "stopped",
                          !.chk = IF r.policy = "local_critic_repair" THEN NoSource ELSE @]
<1>1. DOMAIN s = RouterFields /\ s.src = r.src
  BY Recorded
<1> HIDE DEF s
<1>2. DOMAIN c = RouterFields /\ c.src = r.src /\ DOMAIN d = RouterFields /\ d.src = r.src
  BY <1>1 DEF RouterFields
<1> HIDE DEF c, d
<1>3. \A x : Routes(Record(c, "checkpoint", x), r.src) /\ Routes(Record(d, "stop", x), r.src)
             /\ Routes(Record(r, "continue", x), r.src)
  <2> TAKE x
  <2>1. Routes(Record(c, "checkpoint", x), r.src)
    BY <1>2, Recorded DEF Routes
  <2>2. Routes(Record(d, "stop", x), r.src)
    <3>1. /\ DOMAIN Record(d, "stop", x) = RouterFields
          /\ Record(d, "stop", x).decision = "stop" /\ Record(d, "stop", x).src = d.src
      <4>1. DOMAIN d = RouterFields
        BY <1>2
      <4> QED
        BY <4>1, Recorded
    <3> QED
      BY <1>2, <3>1 DEF Routes
  <2>3. Routes(Record(r, "continue", x), r.src)
    BY Recorded DEF Routes
  <2> QED
    BY <2>1, <2>2, <2>3
<1>4. \A x : Checkpoint(r, x) = Record(c, "checkpoint", x)
  BY DEF Checkpoint, c, s
<1>5. Stop(r, reason) = Record(d, "stop", reason)
  BY DEF Stop, d, s
<1>6. \A x : Routes(Checkpoint(r, x), r.src)
  BY <1>3, <1>4
<1>7. Routes(ContinueOrCheckpoint(r, reason), r.src)
  BY <1>3, <1>6 DEF ContinueOrCheckpoint
<1> QED
  BY <1>3, <1>5, <1>6, <1>7

\* A new router, a request and a handoff.
LEMMA RequestRoutes ==
    ASSUME NEW r, DOMAIN r = RouterFields
    PROVE  /\ \A policy, src : Routes(NewRouter(policy, src), src)
           /\ \A few, late : Routes(BeforeLocalRequest(r, few, late), r.src)
           /\ Routes(RequestHelp(r), r.src)
           /\ \A settled, cancelled, left, late :
                 Routes(ConfirmHandoff(r, settled, cancelled, left, late), r.src)
           /\ \A settled, cancelled : Routes(MarkCloudPlanComplete(r, settled, cancelled), r.src)
<1>1. ASSUME NEW policy, NEW src
      PROVE  Routes(NewRouter(policy, src), src)
  <2> DEFINE q(state) == [NoRouter EXCEPT !.policy = policy, !.src = src, !.state = state]
  <2>1. \A state : DOMAIN q(state) = RouterFields /\ q(state).src = src
    BY DEF NoRouter, RouterFields
  <2>2. \E state, reason : NewRouter(policy, src) = Record(q(state), "continue", reason)
    BY DEF NewRouter
  <2> HIDE DEF q
  <2> QED
    BY <2>1, <2>2, Recorded DEF Routes
<1>2. ASSUME NEW few, NEW late
      PROVE  Routes(BeforeLocalRequest(r, few, late), r.src)
  <2> DEFINE started == [r EXCEPT !.pending = TRUE, !.allowed = AllowedActions(r), !.calls = @ + 1]
  <2>1. DOMAIN started = RouterFields /\ started.src = r.src
    BY DEF RouterFields
  <2>2. \/ BeforeLocalRequest(r, few, late) = Record(started, "continue", "local_request_started")
        \/ \E reason : BeforeLocalRequest(r, few, late) = Checkpoint(r, reason)
    BY DEF BeforeLocalRequest
  <2> HIDE DEF started
  <2>3. Routes(Record(started, "continue", "local_request_started"), r.src)
    BY <2>1, Recorded DEF Routes
  <2> QED
    BY <2>2, <2>3, Kept
<1>3. Routes(RequestHelp(r), r.src)
  BY Kept DEF RequestHelp
<1>4. ASSUME NEW settled, NEW cancelled, NEW left, NEW late
      PROVE  Routes(ConfirmHandoff(r, settled, cancelled, left, late), r.src)
  <2> DEFINE moved == [r EXCEPT !.handoffUsed = TRUE, !.state = "cloud"]
  <2>1. DOMAIN moved = RouterFields /\ moved.src = r.src
    BY DEF RouterFields
  <2>2. \/ ConfirmHandoff(r, settled, cancelled, left, late) = Record(moved, "escalate", "handoff_confirmed")
        \/ \E reason : ConfirmHandoff(r, settled, cancelled, left, late) = Stop(r, reason)
    BY DEF ConfirmHandoff
  <2> HIDE DEF moved
  <2>3. Routes(Record(moved, "escalate", "handoff_confirmed"), r.src)
    BY <2>1, Recorded DEF Routes
  <2> QED
    BY <2>2, <2>3, Kept
<1>5. ASSUME NEW settled, NEW cancelled
      PROVE  Routes(MarkCloudPlanComplete(r, settled, cancelled), r.src)
  <2> DEFINE local == [r EXCEPT !.state = "local"]
  <2>1. DOMAIN local = RouterFields /\ local.src = r.src
    BY DEF RouterFields
  <2>2. \/ MarkCloudPlanComplete(r, settled, cancelled) = Record(local, "continue", "cloud_plan_completed")
        \/ \E reason : MarkCloudPlanComplete(r, settled, cancelled) = Stop(r, reason)
    BY DEF MarkCloudPlanComplete
  <2> HIDE DEF local
  <2>3. Routes(Record(local, "continue", "cloud_plan_completed"), r.src)
    BY <2>1, Recorded DEF Routes
  <2> QED
    BY <2>2, <2>3, Kept
<1> QED
  BY <1>1, <1>2, <1>3, <1>4, <1>5

\* What was observed of a command or a check.
LEMMA ObservationRoutes ==
    ASSUME NEW r, DOMAIN r = RouterFields
    PROVE  /\ \A src, repeated : Routes(ObserveCommand(r, src, repeated), src)
           /\ \A zeroExit, after, timedOut : Routes(ObserveVisibleCheck(r, zeroExit, after, timedOut), after)
<1>1. DOMAIN Settled(r) = RouterFields
  BY Recorded
<1>2. ASSUME NEW src, NEW repeated
      PROVE  Routes(ObserveCommand(r, src, repeated), src)
  <2> DEFINE s == Settled(r)
             q(chk, dups) == [s EXCEPT !.src = src, !.chk = chk, !.dups = dups]
  <2>1. DOMAIN s = RouterFields
    BY <1>1
  <2>2. \E chk, dups : ObserveCommand(r, src, repeated) = ContinueOrCheckpoint(q(chk, dups), "command_observed")
    <3> DEFINE changed == src # r.src
               same    == IF r.dups < DuplicateLimit THEN r.dups + 1 ELSE DuplicateLimit
    <3> WITNESS IF changed THEN NoSource ELSE s.chk, IF changed THEN 0 ELSE IF repeated THEN same ELSE 1
    <3> QED
      BY DEF ObserveCommand
  <2> HIDE DEF s
  <2>3. \A chk, dups : DOMAIN q(chk, dups) = RouterFields /\ q(chk, dups).src = src
    BY <2>1 DEF RouterFields
  <2> HIDE DEF q
  <2>4. \A chk, dups : Routes(ContinueOrCheckpoint(q(chk, dups), "command_observed"), src)
    <3> TAKE chk, dups
    <3>1. DOMAIN q(chk, dups) = RouterFields /\ q(chk, dups).src = src
      BY <2>3
    <3> QED
      BY <3>1, Kept
  <2> QED
    BY <2>2, <2>4
<1>3. ASSUME NEW zeroExit, NEW after, NEW timedOut
      PROVE  Routes(ObserveVisibleCheck(r, zeroExit, after, timedOut), after)
  <2> DEFINE s      == Settled(r)
             seen   == [s EXCEPT !.src = after, !.chk = NoSource]
             fails  == IF r.fails < FailedCheckLimit THEN r.fails + 1 ELSE FailedCheckLimit
             passed == [seen EXCEPT !.dups = 0, !.chk = after]
             failed == [seen EXCEPT !.dups = 0, !.fails = fails]
  <2>1. \/ ObserveVisibleCheck(r, zeroExit, after, timedOut) = Stop(seen, "check_timeout")
        \/ \E reason : ObserveVisibleCheck(r, zeroExit, after, timedOut) = ContinueOrCheckpoint(passed, reason)
        \/ \E reason : ObserveVisibleCheck(r, zeroExit, after, timedOut) = ContinueOrCheckpoint(failed, reason)
    BY DEF ObserveVisibleCheck
  <2>2. DOMAIN s = RouterFields
    BY <1>1
  <2> HIDE DEF s, fails
  <2>3. DOMAIN seen = RouterFields /\ seen.src = after
    BY <2>2 DEF RouterFields
  <2> HIDE DEF seen
  <2>4. DOMAIN passed = RouterFields /\ passed.src = after /\ DOMAIN failed = RouterFields /\ failed.src = after
    BY <2>3 DEF RouterFields
  <2> HIDE DEF passed, failed
  <2>5. Routes(Stop(seen, "check_timeout"), after)
    BY <2>3, Kept
  <2>6. \A reason : Routes(ContinueOrCheckpoint(passed, reason), after)
    BY <2>4, Kept
  <2>7. \A reason : Routes(ContinueOrCheckpoint(failed, reason), after)
    BY <2>4, Kept
  <2> QED
    BY <2>1, <2>5, <2>6, <2>7
<1> QED
  BY <1>2, <1>3

\* A submission, the critic's start and its verdict: only here the router submits.
LEMMA SubmissionRoutes ==
    ASSUME NEW r, DOMAIN r = RouterFields
    PROVE  /\ \A src : \/ Routes(Submit(r, src), r.src) /\ Submit(r, src).state # "submitted"
                       \/ /\ DOMAIN Submit(r, src) = RouterFields /\ Submit(r, src).src = r.src
                          /\ Submit(r, src).state = "submitted" /\ Submit(r, src).decision = "submit"
           /\ Routes(MarkCriticStarted(r), r.src)
           /\ \A verdict \in {"acceptable", "repair_required", "insufficient_context"} : \A settled, cancelled :
                 LET q == MarkCriticComplete(r, verdict, settled, cancelled)
                 IN  \/ Routes(q, r.src)
                     \/ /\ DOMAIN q = RouterFields /\ q.src = r.src
                        /\ q.state = "submitted" /\ q.decision = "submit"
<1> DEFINE s       == Settled(r)
           critic  == [s EXCEPT !.state = "critic"]
           done    == [s EXCEPT !.state = "submitted"]
           begun   == [r EXCEPT !.criticUsed = TRUE]
           known   == [r EXCEPT !.receipt = TRUE]
           ending  == [known EXCEPT !.state = "submitted"]
           repair  == [known EXCEPT !.half = "repair", !.start = r.calls, !.chk = NoSource,
                                    !.dups = 0, !.state = "local"]
<1>1. /\ \A src : \/ Submit(r, src) = Checkpoint(r, "review_required")
                  \/ Submit(r, src) = Record(critic, "checkpoint", "critic_required")
                  \/ Submit(r, src) = Record(done, "submit", "fresh_visible_check")
      /\ MarkCriticStarted(r) = Record(begun, "continue", "critic_request_started")
      /\ \A src : Checkpoint(r, "review_required").state = "checkpoint"
  <2>1. \A src : \/ Submit(r, src) = Checkpoint(r, "review_required")
                 \/ Submit(r, src) = Record(critic, "checkpoint", "critic_required")
                 \/ Submit(r, src) = Record(done, "submit", "fresh_visible_check")
    BY DEF Submit
  <2>2. Checkpoint(r, "review_required").state = "checkpoint"
    <3>1. DOMAIN s = RouterFields
      BY Recorded
    <3> DEFINE kept == [s EXCEPT !.state = "checkpoint"]
    <3>2. Checkpoint(r, "review_required") = Record(kept, "checkpoint", "review_required")
      BY DEF Checkpoint
    <3> HIDE DEF s
    <3>3. DOMAIN kept = RouterFields /\ kept.state = "checkpoint"
      BY <3>1 DEF RouterFields
    <3> HIDE DEF kept
    <3> QED
      BY <3>2, <3>3, Recorded
  <2> QED
    BY <2>1, <2>2 DEF MarkCriticStarted
<1>2. ASSUME NEW verdict \in {"acceptable", "repair_required", "insufficient_context"}, NEW settled, NEW cancelled
      PROVE  LET q == MarkCriticComplete(r, verdict, settled, cancelled)
             IN  \/ \E x \in {r, known} : \E reason : q = Stop(x, reason)
                 \/ q = Record(ending, "submit", "critic_acceptable")
                 \/ q = Record(repair, "continue", "critic_repair_required")
  BY <1>2 DEF MarkCriticComplete
<1>3. DOMAIN s = RouterFields /\ s.src = r.src
  BY Recorded
<1> HIDE DEF s
<1>4. /\ DOMAIN critic = RouterFields /\ critic.src = r.src /\ critic.state = "critic"
      /\ DOMAIN done = RouterFields /\ done.src = r.src /\ done.state = "submitted"
      /\ DOMAIN begun = RouterFields /\ begun.src = r.src
      /\ DOMAIN known = RouterFields /\ known.src = r.src
  BY <1>3 DEF RouterFields
<1> HIDE DEF critic, done, begun, known
<1>5. /\ DOMAIN ending = RouterFields /\ ending.src = r.src /\ ending.state = "submitted"
      /\ DOMAIN repair = RouterFields /\ repair.src = r.src
  BY <1>4 DEF RouterFields
<1> HIDE DEF ending, repair
<1>6. Routes(Record(critic, "checkpoint", "critic_required"), r.src)
      /\ Record(critic, "checkpoint", "critic_required").state = "critic"
  BY <1>4, Recorded DEF Routes
<1>7. /\ DOMAIN Record(done, "submit", "fresh_visible_check") = RouterFields
      /\ Record(done, "submit", "fresh_visible_check").src = r.src
      /\ Record(done, "submit", "fresh_visible_check").state = "submitted"
      /\ Record(done, "submit", "fresh_visible_check").decision = "submit"
  BY <1>4, Recorded
<1>8. Routes(Record(begun, "continue", "critic_request_started"), r.src)
  BY <1>4, Recorded DEF Routes
<1>9. /\ DOMAIN Record(ending, "submit", "critic_acceptable") = RouterFields
      /\ Record(ending, "submit", "critic_acceptable").src = r.src
      /\ Record(ending, "submit", "critic_acceptable").state = "submitted"
      /\ Record(ending, "submit", "critic_acceptable").decision = "submit"
  <2>1. DOMAIN ending = RouterFields
    BY <1>5
  <2>2. /\ DOMAIN Record(ending, "submit", "critic_acceptable") = RouterFields
        /\ Record(ending, "submit", "critic_acceptable").decision = "submit"
        /\ Record(ending, "submit", "critic_acceptable").src = ending.src
        /\ Record(ending, "submit", "critic_acceptable").state = ending.state
    BY <2>1, Recorded
  <2> QED
    BY <1>5, <2>2
<1>10. Routes(Record(repair, "continue", "critic_repair_required"), r.src)
  BY <1>5, Recorded DEF Routes
<1>11. \A x \in {r, known} : \A reason : Routes(Stop(x, reason), r.src)
  <2>1. \A reason : Routes(Stop(r, reason), r.src)
    BY Kept
  <2>2. \A reason : Routes(Stop(known, reason), r.src)
    BY <1>4, Kept
  <2> QED
    BY <2>1, <2>2
<1>12. Routes(Checkpoint(r, "review_required"), r.src)
  BY Kept
<1>13. ASSUME NEW src
       PROVE  \/ Routes(Submit(r, src), r.src) /\ Submit(r, src).state # "submitted"
              \/ /\ DOMAIN Submit(r, src) = RouterFields /\ Submit(r, src).src = r.src
                 /\ Submit(r, src).state = "submitted" /\ Submit(r, src).decision = "submit"
  BY <1>1, <1>6, <1>7, <1>12
<1>14. ASSUME NEW verdict \in {"acceptable", "repair_required", "insufficient_context"}, NEW settled, NEW cancelled
       PROVE  LET q == MarkCriticComplete(r, verdict, settled, cancelled)
              IN  \/ Routes(q, r.src)
                  \/ /\ DOMAIN q = RouterFields /\ q.src = r.src
                     /\ q.state = "submitted" /\ q.decision = "submit"
  BY <1>2, <1>9, <1>10, <1>11
<1> QED
  BY <1>1, <1>8, <1>13, <1>14

-----------------------------------------------------------------------------
(* What the host and the worker have filed of the run. *)

RowFields ==
    {"policy", "status", "phase", "cp", "check", "plan", "handoff", "recoveries", "draft",
     "draftCalls", "verdict", "criticCurrent", "patch", "checks", "used", "receipts", "last",
     "spent", "reserved", "decision"}
HostFields ==
    {"up", "place", "cancelled", "stopped", "failure", "pending", "action", "granted", "context",
     "final", "await", "terminal"}
WorkerFields ==
    {"at", "r", "live", "phase", "calls", "saved", "unsettled", "cancelled", "orphan", "outcome", "sends"}

Row(r) == DOMAIN r = RowFields /\ DOMAIN r.check = CheckFields
Shaped ==
    /\ Row(run) /\ DOMAIN host = HostFields
    /\ DOMAIN w = WorkerFields /\ DOMAIN w.r = RouterFields
    /\ IsPipe(pipe) /\ Formed(pipe)

\* Where the worker is before it has ended its work, and when it gives up or is done.
Opening == {"boot", "loop", "ask", "admission", "wire", "answer", "command", "ran", "leave",
            "critic", "context", "verdict"}
Quitting == {"failing", "salvage", "ending", "gone"}

\* The phases of a worker's places, and the tree the critic is shown.
Paced(v) ==
    /\ v.at \in {"loop", "command", "ran"} => v.phase = "local"
    /\ v.at = "verdict" => v.phase = "critic"
    /\ v.phase = "critic" /\ v.at \in {"ask", "admission", "wire", "answer", "verdict"} => v.live = v.r.src

\* What every step of the worker keeps.
Fits == /\ DOMAIN w' = WorkerFields /\ DOMAIN w'.r = RouterFields
        /\ w'.orphan = w.orphan /\ Paced(w')
\* The tree, the phase and the router are as before.
Rests == w'.live = w.live /\ w'.phase = w.phase /\ w'.r = w.r
Adds(ev) == pipe' = pipe \o ev /\ IsPipe(ev) /\ Formed(ev)
Reading == inbox' = inbox \/ (inbox # <<>> /\ inbox' = Tail(inbox))
Listens == UNCHANGED inbox

(***************************************************************************)
(* The steps of the worker, by what they may say.                          *)
(***************************************************************************)
Works ==
    /\ w.at \in Opening
    /\ w'.at \in {"loop", "ask", "leave", "command", "ran", "critic", "context", "verdict", "failing"}
    /\ w'.at # "failing" => w.at \notin {"admission", "wire"}
    /\ Reading
    /\ \E ev : /\ Adds(ev) /\ Only(ev, Talk)
               /\ w'.phase = "cloud" => w.phase = "cloud" \/ Says(ev, "cloud")
Asks ==
    /\ w.at = "ask" /\ w'.at = "admission" /\ Rests /\ Listens
    /\ \E call : pipe' = pipe \o <<[type |-> "prepare", phase |-> w.phase, call |-> call]>>
Sends ==
    /\ w.at = "admission" /\ w'.at = "wire" /\ Rests /\ pipe' = pipe
    /\ inbox # <<>> /\ Head(inbox).type = "admitted" /\ inbox' = Tail(inbox)
Hears ==
    /\ w.at = "wire" /\ w'.at = "answer" /\ Rests /\ Listens
    /\ \E cost : pipe' = pipe \o <<[type |-> "finished", cost |-> cost]>>
Submits ==
    /\ w.at \in {"answer", "verdict"} /\ w'.at = "finish" /\ w'.phase # "cloud" /\ w'.live = w.live
    /\ w'.r.decision = "submit" /\ w'.r.state = "submitted" /\ w'.r.src = w.live
    /\ pipe' = pipe \o <<Decides(w'.r)>> /\ Reading
CloudSubmits ==
    /\ w.at = "answer" /\ w.phase = "cloud" /\ w'.at = "finish" /\ Rests /\ Listens /\ pipe' = pipe
Exports ==
    /\ w.at = "finish" /\ w'.at = "verify" /\ Rests /\ Listens /\ pipe' = pipe \o Exported(w.live)
Verifies ==
    /\ w.at = "verify" /\ w'.at = "ending" /\ Rests /\ Listens
    /\ \E after, passed :
          pipe' = pipe \o <<[type |-> "verified", src |-> w.live, after |-> after, passed |-> passed]>>
Quits ==
    /\ w.at \notin {"none", "gone"} /\ w'.at \in Quitting /\ w'.phase \in {w.phase, "none"} /\ Listens
    /\ w.r.state = "submitted" /\ w'.at # "gone" => w'.r.state = "submitted"
    /\ \E ev : /\ Adds(ev) /\ Only(ev, {"early", "late"})
               /\ w.r.state = "submitted" => Only(ev, {"late"})
Notices == w'.at = w.at /\ Rests /\ Listens /\ pipe' = pipe

\* Nothing said is nothing added.
LEMMA Silence ==
    ASSUME NEW s, IsPipe(s)
    PROVE  s \o <<>> = s
<1>1. PICK S : s \in Seq(S)
  BY DEF IsPipe
<1> QED
  BY <1>1

\* What is said in plain words is added to the pipe.
LEMMA Added ==
    ASSUME NEW ev, Voice(ev), pipe' = pipe \o ev
    PROVE  Adds(ev) /\ Only(ev, Talk)
BY DEF Voice, Adds

\* A step without a word.
LEMMA Unsaid ==
    ASSUME Shaped, pipe' = pipe
    PROVE  /\ Adds(<<>>) /\ \A K : Only(<<>>, K)
BY Silence, Single DEF Shaped, Adds

\* The worker starts, asks for the next local request, and leaves its plan.
LEMMA EarlySteps ==
    ASSUME Shaped, Paced(w), WorkerStarts \/ LocalRequest \/ PlanReady
    PROVE  Fits /\ Works
<1>1. CASE WorkerStarts
  <2> DEFINE r     == NewRouter(run.policy, Base)
             phase == IF r.state = "planner" THEN "planner" ELSE "local"
             ev    == <<Decides(r), PhaseStarts(phase)>>
  <2>1. /\ w.at = "boot" /\ pipe' = pipe \o ev
        /\ w' = [w EXCEPT !.r = r, !.phase = phase, !.at = IF r.state = "planner" THEN "ask" ELSE "loop"]
        /\ inbox # <<>> /\ inbox' = Tail(inbox)
    BY <1>1 DEF WorkerStarts, Working, Inbox, Emit
  <2>2. Routes(r, Base)
    <3>1. DOMAIN w.r = RouterFields
      BY DEF Shaped
    <3> QED
      BY <3>1, RequestRoutes
  <2> HIDE DEF r
  <2>3. Plain(Decides(r)) /\ Plain(PhaseStarts(phase))
    BY <2>2, Words DEF Routes
  <2>4. Voice(ev)
    BY <2>3, Spoken
  <2>5. DOMAIN w' = WorkerFields /\ w'.r = r /\ w'.phase = phase /\ w'.orphan = w.orphan
        /\ w'.at = IF r.state = "planner" THEN "ask" ELSE "loop"
    BY <2>1 DEF Shaped, WorkerFields
  <2>6. Fits
    BY <2>2, <2>5 DEF Fits, Routes, Paced
  <2>7. Adds(ev) /\ Only(ev, Talk)
    BY <2>1, <2>4, Added
  <2> HIDE DEF ev
  <2> QED
    BY <2>1, <2>5, <2>6, <2>7 DEF Works, Opening, Reading
<1>2. CASE LocalRequest
  <2>1. PICK late \in BOOLEAN :
           LET r == BeforeLocalRequest(w.r, ModelCallsLeft < 2, late)
           IN  /\ Emit(<<Decides(r)>>)
               /\ w' = [w EXCEPT !.r = r, !.at = IF r.decision = "continue" THEN "ask" ELSE "leave"]
    BY <1>2 DEF LocalRequest
  <2> DEFINE r == BeforeLocalRequest(w.r, ModelCallsLeft < 2, late)
  <2>2. /\ w.at = "loop" /\ pipe' = pipe \o <<Decides(r)>> /\ inbox' = inbox
        /\ w' = [w EXCEPT !.r = r, !.at = IF r.decision = "continue" THEN "ask" ELSE "leave"]
    BY <1>2, <2>1 DEF LocalRequest, Working, Emit
  <2>3. Routes(r, w.r.src)
    <3>1. DOMAIN w.r = RouterFields
      BY DEF Shaped
    <3> QED
      BY <3>1, RequestRoutes
  <2> HIDE DEF r
  <2>4. Plain(Decides(r))
    BY <2>3, Words DEF Routes
  <2>5. Voice(<<Decides(r)>>)
    BY <2>4, Spoken
  <2>6. /\ DOMAIN w' = WorkerFields /\ w'.r = r /\ w'.phase = w.phase /\ w'.orphan = w.orphan
        /\ w'.at \in {"ask", "leave"}
    BY <2>2 DEF Shaped, WorkerFields
  <2>7. Fits
    BY <2>2, <2>3, <2>6 DEF Fits, Routes, Paced
  <2>8. Adds(<<Decides(r)>>) /\ Only(<<Decides(r)>>, Talk)
    BY <2>2, <2>5, Added
  <2> QED
    BY <2>2, <2>6, <2>7, <2>8 DEF Works, Opening, Reading
<1>3. CASE PlanReady
  <2> DEFINE r  == MarkCloudPlanComplete(w.r, ~w.unsettled, w.cancelled)
             ev == <<[type |-> "plan"], Decides(r), PhaseStarts("local")>>
  <2>1. /\ w.at = "answer" /\ pipe' = pipe \o ev /\ inbox' = inbox
        /\ w' = [w EXCEPT !.r = r, !.phase = "local", !.at = "loop"]
    BY <1>3 DEF PlanReady, Working, Emit
  <2>2. Routes(r, w.r.src)
    <3>1. DOMAIN w.r = RouterFields
      BY DEF Shaped
    <3> QED
      BY <3>1, RequestRoutes
  <2> HIDE DEF r
  <2>3. Plain([type |-> "plan"]) /\ Plain(Decides(r)) /\ Plain(PhaseStarts("local"))
    BY <2>2, Words DEF Routes
  <2>4. Voice(ev)
    BY <2>3, Spoken
  <2>5. /\ DOMAIN w' = WorkerFields /\ w'.r = r /\ w'.phase = "local" /\ w'.orphan = w.orphan
        /\ w'.at = "loop"
    BY <2>1 DEF Shaped, WorkerFields
  <2>6. Fits
    BY <2>2, <2>5 DEF Fits, Routes, Paced
  <2>7. Adds(ev) /\ Only(ev, Talk)
    BY <2>1, <2>4, Added
  <2> HIDE DEF ev
  <2> QED
    BY <2>1, <2>5, <2>6, <2>7 DEF Works, Opening, Reading
<1> QED
  BY <1>1, <1>2, <1>3

\* A word, and a new place.
LEMMA OneWord ==
    ASSUME Shaped, Paced(w), NEW ev, Voice(ev), pipe' = pipe \o ev, Reading, w.at \in Opening,
           DOMAIN w' = WorkerFields, DOMAIN w'.r = RouterFields, w'.orphan = w.orphan, w'.phase = w.phase,
           w'.at \in {"leave", "command", "ran", "critic", "context", "failing", "loop", "ask", "verdict"},
           w'.at \in {"command", "ran", "loop"} => w.phase = "local",
           w'.at = "verdict" => w.phase = "critic" /\ w.at = "answer" /\ w'.live = w.live /\ w'.r = w.r,
           w'.at = "ask" => w.phase # "critic",
           w'.at # "failing" => w.at \notin {"admission", "wire"}
    PROVE  Fits /\ Works
<1>1. Fits
  BY DEF Fits, Paced
<1>2. Adds(ev) /\ Only(ev, Talk)
  BY Added
<1> QED
  BY <1>1, <1>2 DEF Works

\* Commands, checks and what the router makes of them.
LEMMA ToolSteps ==
    ASSUME Shaped, Paced(w),
           \/ ActionDenied \/ RunCommand \/ CommandRan \/ CommandObserved \/ VisibleCheck \/ Help
    PROVE  Fits /\ Works
<1>0. DOMAIN w.r = RouterFields /\ DOMAIN w = WorkerFields
  BY DEF Shaped
<1>1. CASE ActionDenied
  <2>1. PICK action : pipe' = pipe \o <<[type |-> "denied", call |-> w.r.calls, action |-> action]>>
    BY <1>1 DEF ActionDenied, Emit
  <2>2. w' = [w EXCEPT !.at = "failing", !.outcome = "failed"] /\ w.at = "answer" /\ inbox' = inbox
    BY <1>1 DEF ActionDenied, Working
  <2>3. Plain([type |-> "denied", call |-> w.r.calls, action |-> action])
    BY Words
  <2>4. Voice(<<[type |-> "denied", call |-> w.r.calls, action |-> action]>>)
    BY <2>3, Spoken
  <2>5. /\ DOMAIN w' = WorkerFields /\ DOMAIN w'.r = RouterFields /\ w'.orphan = w.orphan
        /\ w'.phase = w.phase /\ w'.at = "failing"
    BY <1>0, <2>2 DEF WorkerFields
  <2> QED
    BY <2>1, <2>2, <2>4, <2>5, OneWord DEF Reading, Opening
<1>2. CASE RunCommand
  <2>1. /\ pipe' = pipe \o <<[type |-> "command"]>> /\ w.at = "answer" /\ w.phase = "local"
        /\ w' = [w EXCEPT !.at = "command"] /\ inbox' = inbox
    BY <1>2 DEF RunCommand, LocalAnswer, Working, Emit
  <2>2. Plain([type |-> "command"])
    BY Words
  <2>3. Voice(<<[type |-> "command"]>>)
    BY <2>2, Spoken
  <2>4. /\ DOMAIN w' = WorkerFields /\ DOMAIN w'.r = RouterFields /\ w'.orphan = w.orphan
        /\ w'.phase = w.phase /\ w'.at = "command"
    BY <1>0, <2>1 DEF WorkerFields
  <2> QED
    BY <2>1, <2>3, <2>4, OneWord DEF Reading, Opening
<1>3. CASE CommandRan
  <2>1. /\ pipe' = pipe \o <<[type |-> "tool"]>> /\ w.at = "command" /\ inbox' = inbox
        /\ \E src \in Sources, at \in {"ran", "failing"} :
              w' = [w EXCEPT !.live = src, !.at = at, !.outcome = IF at = "failing" THEN "failed" ELSE @]
    BY <1>3 DEF CommandRan, Working, Emit
  <2>2. Plain([type |-> "tool"])
    BY Words
  <2>3. Voice(<<[type |-> "tool"]>>)
    BY <2>2, Spoken
  <2>4. /\ DOMAIN w' = WorkerFields /\ DOMAIN w'.r = RouterFields /\ w'.orphan = w.orphan
        /\ w'.phase = w.phase /\ w'.at \in {"ran", "failing"}
    BY <1>0, <2>1 DEF WorkerFields
  <2>5. w.phase = "local"
    BY <2>1 DEF Paced
  <2> QED
    BY <2>1, <2>3, <2>4, <2>5, OneWord DEF Reading, Opening
<1>4. CASE CommandObserved
  <2>1. PICK repeated \in BOOLEAN :
           LET r == ObserveCommand(w.r, w.live, repeated)
           IN  Emit(<<Decides(r)>>) /\ w' = [w EXCEPT !.r = r, !.at = ToLoop(r)]
    BY <1>4 DEF CommandObserved
  <2> DEFINE r == ObserveCommand(w.r, w.live, repeated)
  <2>2. /\ pipe' = pipe \o <<Decides(r)>> /\ w.at = "ran" /\ inbox' = inbox
        /\ w' = [w EXCEPT !.r = r, !.at = ToLoop(r)]
    BY <1>4, <2>1 DEF CommandObserved, Working, Emit
  <2>3. Routes(r, w.live)
    BY <1>0, ObservationRoutes
  <2> HIDE DEF r
  <2>4. Plain(Decides(r)) /\ ToLoop(r) \in {"loop", "leave"}
    BY <2>3, Words DEF Routes, ToLoop
  <2>5. Voice(<<Decides(r)>>)
    BY <2>4, Spoken
  <2>6. /\ DOMAIN w' = WorkerFields /\ w'.r = r /\ w'.orphan = w.orphan
        /\ w'.phase = w.phase /\ w'.at \in {"loop", "leave"}
    BY <1>0, <2>2, <2>4 DEF WorkerFields
  <2>7. w.phase = "local" /\ DOMAIN w'.r = RouterFields
    BY <2>2, <2>3, <2>6 DEF Paced, Routes
  <2> QED
    BY <2>2, <2>5, <2>6, <2>7, OneWord DEF Reading, Opening
<1>5. CASE VisibleCheck
  <2>1. PICK zeroExit \in BOOLEAN, timedOut \in BOOLEAN, after \in Sources :
           LET r      == ObserveVisibleCheck(w.r, zeroExit, after, timedOut)
               passed == ~timedOut /\ zeroExit /\ after = w.r.src
               check  == [src |-> w.r.src, after |-> after, passed |-> passed, fresh |-> after = w.r.src]
           IN  /\ timedOut => ~zeroExit
               /\ Emit(<<[type |-> "checked", check |-> check], Decides(r)>>)
               /\ w' = [w EXCEPT !.r = r, !.live = after,
                                 !.at = IF timedOut THEN "failing" ELSE ToLoop(r),
                                 !.outcome = IF timedOut THEN "failed" ELSE @]
    BY <1>5 DEF VisibleCheck
  <2> DEFINE r      == ObserveVisibleCheck(w.r, zeroExit, after, timedOut)
             passed == ~timedOut /\ zeroExit /\ after = w.r.src
             check  == [src |-> w.r.src, after |-> after, passed |-> passed, fresh |-> after = w.r.src]
             ev     == <<[type |-> "checked", check |-> check], Decides(r)>>
  <2>2. /\ pipe' = pipe \o ev /\ w.at = "answer" /\ w.phase = "local" /\ inbox' = inbox
        /\ w' = [w EXCEPT !.r = r, !.live = after,
                          !.at = IF timedOut THEN "failing" ELSE ToLoop(r),
                          !.outcome = IF timedOut THEN "failed" ELSE @]
    BY <1>5, <2>1 DEF VisibleCheck, LocalAnswer, Working, Emit
  <2>3. Routes(r, after)
    BY <1>0, ObservationRoutes
  <2>4. Plain([type |-> "checked", check |-> check])
    BY Words
  <2> HIDE DEF r, check
  <2>5. Plain(Decides(r)) /\ ToLoop(r) \in {"loop", "leave"}
    BY <2>3, Words DEF Routes, ToLoop
  <2>6. Voice(ev)
    BY <2>4, <2>5, Spoken
  <2>7. /\ DOMAIN w' = WorkerFields /\ w'.r = r /\ w'.orphan = w.orphan
        /\ w'.phase = w.phase /\ w'.at \in {"loop", "leave", "failing"}
    BY <1>0, <2>2, <2>5 DEF WorkerFields
  <2>8. DOMAIN w'.r = RouterFields
    BY <2>3, <2>7 DEF Routes
  <2> HIDE DEF ev
  <2> QED
    BY <2>2, <2>6, <2>7, <2>8, OneWord DEF Reading, Opening
<1>6. CASE Help
  <2> DEFINE r == RequestHelp(w.r)
  <2>1. /\ pipe' = pipe \o <<Decides(r)>> /\ w.at = "answer" /\ w.phase = "local" /\ inbox' = inbox
        /\ w' = [w EXCEPT !.r = r, !.at = "leave"]
    BY <1>6 DEF Help, LocalAnswer, Working, Emit
  <2>2. Routes(r, w.r.src)
    BY <1>0, RequestRoutes
  <2> HIDE DEF r
  <2>3. Plain(Decides(r))
    BY <2>2, Words DEF Routes
  <2>4. Voice(<<Decides(r)>>)
    BY <2>3, Spoken
  <2>5. /\ DOMAIN w' = WorkerFields /\ w'.r = r /\ w'.orphan = w.orphan
        /\ w'.phase = w.phase /\ w'.at = "leave"
    BY <1>0, <2>1 DEF WorkerFields
  <2>6. DOMAIN w'.r = RouterFields
    BY <2>2, <2>5 DEF Routes
  <2> QED
    BY <2>1, <2>4, <2>5, <2>6, OneWord DEF Reading, Opening
<1> QED
  BY <1>1, <1>2, <1>3, <1>4, <1>5, <1>6

\* Requests that failed, and the ways out of the local phase.
LEMMA OtherSteps ==
    ASSUME Shaped, Paced(w),
           \/ AdmittedTooLate \/ Unanswered \/ NoSubmission \/ Handoff \/ CloudCommand
           \/ FreezeDraft \/ CriticStarts \/ CriticAnswer
    PROVE  Fits /\ Works
<1>0. DOMAIN w.r = RouterFields /\ DOMAIN w = WorkerFields
  BY DEF Shaped
<1>1. CASE AdmittedTooLate \/ Unanswered
  <2>1. /\ w.at \in {"admission", "wire"} /\ Reading
        /\ pipe' = pipe \o <<[type |-> "unsettled"]>>
        /\ w' = [w EXCEPT !.at = "failing", !.unsettled = TRUE,
                          !.outcome = IF w.cancelled THEN "cancelled" ELSE "failed"]
    BY <1>1 DEF AdmittedTooLate, Unanswered, Working, Inbox, Unsettle, Emit, Reading
  <2>2. Plain([type |-> "unsettled"])
    BY Words
  <2>3. Voice(<<[type |-> "unsettled"]>>)
    BY <2>2, Spoken
  <2>4. /\ DOMAIN w' = WorkerFields /\ DOMAIN w'.r = RouterFields /\ w'.orphan = w.orphan
        /\ w'.phase = w.phase /\ w'.at = "failing"
    BY <1>0, <2>1 DEF WorkerFields
  <2> QED
    BY <2>1, <2>3, <2>4, OneWord DEF Opening
<1>2. CASE NoSubmission
  <2>1. PICK reason :
           /\ Emit((IF CriticPolicy(run) THEN <<>> ELSE Recovers(w.live)) \o <<Decides(Stop(w.r, reason))>>)
           /\ w' = [w EXCEPT !.r = Stop(w.r, reason), !.at = "failing", !.outcome = "failed"]
    BY <1>2 DEF NoSubmission
  <2> DEFINE r  == Stop(w.r, reason)
             s  == IF CriticPolicy(run) THEN <<>> ELSE Recovers(w.live)
             ev == s \o <<Decides(r)>>
  <2>2. /\ pipe' = pipe \o ev /\ w.at = "leave" /\ inbox' = inbox
        /\ w' = [w EXCEPT !.r = r, !.at = "failing", !.outcome = "failed"]
    BY <1>2, <2>1 DEF NoSubmission, Emit
  <2>3. Routes(r, w.r.src)
    BY <1>0, Kept
  <2> HIDE DEF r
  <2>4. Plain(Decides(r))
    BY <2>3, Words DEF Routes
  <2>5. Voice(<<Decides(r)>>) /\ Voice(<<>>)
    BY <2>4, Spoken
  <2>6. Voice(s)
    BY <2>5, RecoveredLate
  <2> HIDE DEF s
  <2>7. Voice(ev)
    BY <2>5, <2>6, VoiceJoined
  <2>8. /\ DOMAIN w' = WorkerFields /\ w'.r = r /\ w'.orphan = w.orphan
        /\ w'.phase = w.phase /\ w'.at = "failing"
    BY <1>0, <2>2 DEF WorkerFields
  <2>9. DOMAIN w'.r = RouterFields
    BY <2>3, <2>8 DEF Routes
  <2> HIDE DEF ev
  <2> QED
    BY <2>2, <2>7, <2>8, <2>9, OneWord DEF Reading, Opening
<1>3. CASE Handoff
  <2>1. PICK late \in BOOLEAN :
         LET r     == ConfirmHandoff(w.r, ~w.unsettled, w.cancelled, ModelCallsLeft, late)
             ready == [type |-> "handoff", src |-> w.r.src, chk |-> w.r.chk, patch |-> w.live]
             moves == r.decision = "escalate"
         IN  /\ Emit(Recovers(w.live) \o <<ready, Decides(r)>>
                     \o (IF moves THEN <<PhaseStarts("cloud")>> ELSE <<>>))
             /\ w' = [w EXCEPT !.r = r, !.phase = IF moves THEN "cloud" ELSE @,
                               !.at = IF moves THEN "ask" ELSE "failing",
                               !.outcome = IF moves THEN @ ELSE "failed"]
    BY <1>3 DEF Handoff
  <2> DEFINE r     == ConfirmHandoff(w.r, ~w.unsettled, w.cancelled, ModelCallsLeft, late)
             ready == [type |-> "handoff", src |-> w.r.src, chk |-> w.r.chk, patch |-> w.live]
             moves == r.decision = "escalate"
             a     == Recovers(w.live)
             b     == <<ready, Decides(r)>>
             c     == IF moves THEN <<PhaseStarts("cloud")>> ELSE <<>>
             ev    == a \o b \o c
  <2>2. /\ pipe' = pipe \o ev /\ w.at = "leave" /\ inbox' = inbox
        /\ w' = [w EXCEPT !.r = r, !.phase = IF moves THEN "cloud" ELSE @,
                          !.at = IF moves THEN "ask" ELSE "failing",
                          !.outcome = IF moves THEN @ ELSE "failed"]
    BY <1>3, <2>1 DEF Handoff, Working, Emit
  <2>3. Routes(r, w.r.src)
    BY <1>0, RequestRoutes
  <2>4. Plain(ready)
    BY Words
  <2> HIDE DEF r, ready
  <2>5. Plain(Decides(r)) /\ Plain(PhaseStarts("cloud")) /\ Kind(PhaseStarts("cloud")) = "cloud"
    BY <2>3, Words DEF Routes
  <2>6. Voice(a) /\ Voice(b)
    BY <2>4, <2>5, Spoken, RecoveredLate
  <2>7. Voice(<<>>) /\ Voice(<<PhaseStarts("cloud")>>)
    BY <2>5, Spoken
  <2>8. Voice(c) /\ (moves => Says(c, "cloud"))
    BY <2>5, <2>7, Single
  <2> HIDE DEF a, b, c
  <2>9. Voice(a \o b)
    BY <2>6, VoiceJoined
  <2>10. Voice(ev) /\ (moves => Says(ev, "cloud"))
    BY <2>8, <2>9, VoiceJoined
  <2>11. /\ DOMAIN w' = WorkerFields /\ w'.r = r /\ w'.orphan = w.orphan
         /\ w'.phase = IF moves THEN "cloud" ELSE w.phase
         /\ w'.at = IF moves THEN "ask" ELSE "failing"
    BY <1>0, <2>2 DEF WorkerFields
  <2> HIDE DEF ev, moves
  <2>12. Fits
    BY <2>3, <2>11 DEF Fits, Routes, Paced
  <2>13. Adds(ev) /\ Only(ev, Talk)
    BY <2>2, <2>10, Added
  <2> QED
    BY <2>2, <2>10, <2>11, <2>12, <2>13 DEF Works, Reading, Opening
<1>4. CASE CloudCommand
  <2>1. PICK src \in Sources, timedOut \in BOOLEAN :
         /\ Emit(<<[type |-> "command"], [type |-> "tool"]>> \o (IF timedOut THEN Recovers(src) ELSE <<>>))
         /\ w' = [w EXCEPT !.live = src, !.at = "ask"]
    BY <1>4 DEF CloudCommand
  <2> DEFINE a  == <<[type |-> "command"], [type |-> "tool"]>>
             b  == IF timedOut THEN Recovers(src) ELSE <<>>
             ev == a \o b
  <2>2. /\ pipe' = pipe \o ev /\ w.at = "answer" /\ w.phase = "cloud" /\ inbox' = inbox
        /\ w' = [w EXCEPT !.live = src, !.at = "ask"]
    BY <1>4, <2>1 DEF CloudCommand, Working, Emit
  <2>3. Plain([type |-> "command"]) /\ Plain([type |-> "tool"])
    BY Words
  <2>4. Voice(a) /\ Voice(<<>>)
    BY <2>3, Spoken
  <2>5. Voice(b)
    BY <2>4, RecoveredLate
  <2> HIDE DEF a, b
  <2>6. Voice(ev)
    BY <2>4, <2>5, VoiceJoined
  <2>7. /\ DOMAIN w' = WorkerFields /\ DOMAIN w'.r = RouterFields /\ w'.orphan = w.orphan
        /\ w'.phase = w.phase /\ w'.at = "ask"
    BY <1>0, <2>2 DEF WorkerFields
  <2> HIDE DEF ev
  <2> QED
    BY <2>2, <2>6, <2>7, OneWord DEF Reading, Opening
<1>5. CASE FreezeDraft
  <2>0. w.at = "critic" /\ inbox' = inbox
    BY <1>5 DEF FreezeDraft, Working
  <2>1. CASE w.live = Base
    <3>1. w' = [w EXCEPT !.at = "failing", !.outcome = "failed"] /\ pipe' = pipe
      BY <1>5, <2>1 DEF FreezeDraft
    <3>2. pipe' = pipe \o <<>>
      BY <3>1, Silence DEF Shaped
    <3>3. Plain([type |-> "tool"])
      BY Words
    <3>4. Voice(<<>>)
      BY <3>3, Spoken
    <3>5. /\ DOMAIN w' = WorkerFields /\ DOMAIN w'.r = RouterFields /\ w'.orphan = w.orphan
          /\ w'.phase = w.phase /\ w'.at = "failing"
      BY <1>0, <3>1 DEF WorkerFields
    <3> QED
      BY <2>0, <3>2, <3>4, <3>5, OneWord DEF Reading, Opening
  <2>2. CASE w.live # Base
    <3>1. w' = [w EXCEPT !.at = "context"] /\ pipe' = pipe \o <<[type |-> "context", src |-> w.live]>>
      BY <1>5, <2>2 DEF FreezeDraft, Emit
    <3>2. Plain([type |-> "context", src |-> w.live])
      BY Words
    <3>3. Voice(<<[type |-> "context", src |-> w.live]>>)
      BY <3>2, Spoken
    <3>4. /\ DOMAIN w' = WorkerFields /\ DOMAIN w'.r = RouterFields /\ w'.orphan = w.orphan
          /\ w'.phase = w.phase /\ w'.at = "context"
      BY <1>0, <3>1 DEF WorkerFields
    <3> QED
      BY <2>0, <3>1, <3>3, <3>4, OneWord DEF Reading, Opening
  <2> QED
    BY <2>1, <2>2
<1>6. CASE CriticStarts
  <2> DEFINE r  == MarkCriticStarted(w.r)
             ev == <<Decides(r), PhaseStarts("critic")>>
  <2>1. /\ pipe' = pipe \o ev /\ w.at = "context" /\ w.live = w.r.src
        /\ w' = [w EXCEPT !.r = r, !.phase = "critic", !.at = "ask"]
        /\ inbox # <<>> /\ inbox' = Tail(inbox)
    BY <1>6 DEF CriticStarts, Working, Inbox, Emit, MayStartCritic
  <2>2. Routes(r, w.r.src)
    BY <1>0, SubmissionRoutes
  <2> HIDE DEF r
  <2>3. Plain(Decides(r)) /\ Plain(PhaseStarts("critic"))
    BY <2>2, Words DEF Routes
  <2>4. Voice(ev)
    BY <2>3, Spoken
  <2>5. /\ DOMAIN w' = WorkerFields /\ w'.r = r /\ w'.orphan = w.orphan /\ w'.live = w.live
        /\ w'.phase = "critic" /\ w'.at = "ask"
    BY <1>0, <2>1 DEF WorkerFields
  <2>6. Fits
    BY <2>1, <2>2, <2>5 DEF Fits, Routes, Paced
  <2>7. Adds(ev) /\ Only(ev, Talk)
    BY <2>1, <2>4, Added
  <2> HIDE DEF ev
  <2> QED
    BY <2>1, <2>5, <2>6, <2>7 DEF Works, Reading, Opening
<1>7. CASE CriticAnswer
  <2>1. /\ pipe' = pipe \o <<[type |-> "response", src |-> w.live]>> /\ w.at = "answer"
        /\ w.phase = "critic" /\ inbox' = inbox /\ w' = [w EXCEPT !.at = "verdict"]
    BY <1>7 DEF CriticAnswer, Working, Emit
  <2>2. Plain([type |-> "response", src |-> w.live])
    BY Words
  <2>3. Voice(<<[type |-> "response", src |-> w.live]>>)
    BY <2>2, Spoken
  <2>4. /\ DOMAIN w' = WorkerFields /\ DOMAIN w'.r = RouterFields /\ w'.orphan = w.orphan
        /\ w'.phase = w.phase /\ w'.at = "verdict" /\ w'.live = w.live /\ w'.r = w.r
    BY <1>0, <2>1 DEF WorkerFields
  <2> QED
    BY <2>1, <2>3, <2>4, OneWord DEF Reading, Opening
<1> QED
  BY <1>1, <1>2, <1>3, <1>4, <1>5, <1>6, <1>7

\* A submission ends the work, or has it reviewed.
LEMMA SubmitSteps ==
    ASSUME Inv, Shaped, Paced(w), SubmitTask \/ VerdictRead
    PROVE  Fits /\ (Works \/ Submits)
<1>0. DOMAIN w.r = RouterFields /\ DOMAIN w = WorkerFields
  BY DEF Shaped
<1>1. CASE SubmitTask
  <2> DEFINE r == Submit(w.r, w.live)
  <2>1. /\ pipe' = pipe \o <<Decides(r)>> /\ w.at = "answer" /\ w.phase = "local" /\ inbox' = inbox
        /\ w.live = w.r.src
        /\ w' = [w EXCEPT !.r = r, !.at = CASE r.state = "submitted" -> "finish"
                                            [] r.state = "critic" -> "critic"
                                            [] OTHER -> "leave"]
    BY <1>1 DEF SubmitTask, LocalAnswer, Working, Emit, MaySubmit
  <2>2. \/ Routes(r, w.r.src) /\ r.state # "submitted"
        \/ DOMAIN r = RouterFields /\ r.src = w.r.src /\ r.state = "submitted" /\ r.decision = "submit"
    BY <1>0, SubmissionRoutes
  <2> HIDE DEF r
  <2>3. /\ DOMAIN w' = WorkerFields /\ w'.r = r /\ w'.orphan = w.orphan /\ w'.live = w.live
        /\ w'.phase = "local" /\ DOMAIN w'.r = RouterFields
        /\ w'.at \in IF r.state = "submitted" THEN {"finish"} ELSE {"critic", "leave"}
    BY <1>0, <2>1, <2>2 DEF WorkerFields, Routes
  <2>4. CASE r.state = "submitted"
    <3>1. Fits
      BY <2>3, <2>4 DEF Fits, Paced
    <3>2. Submits
      BY <2>1, <2>2, <2>3, <2>4 DEF Submits, Reading
    <3> QED
      BY <3>1, <3>2
  <2>5. CASE r.state # "submitted"
    <3>1. Plain(Decides(r))
      BY <2>2, <2>5, Words DEF Routes
    <3>2. Voice(<<Decides(r)>>)
      BY <3>1, Spoken
    <3>3. w'.at \in {"critic", "leave"} /\ w'.phase = w.phase /\ w'.orphan = w.orphan
          /\ DOMAIN w' = WorkerFields /\ DOMAIN w'.r = RouterFields
      BY <2>1, <2>3, <2>5
    <3>4. pipe' = pipe \o <<Decides(r)>> /\ Reading /\ w.at \in Opening /\ w.at = "answer"
      BY <2>1 DEF Reading, Opening
    <3> QED
      BY <3>2, <3>3, <3>4, OneWord
  <2> QED
    BY <2>4, <2>5
<1>2. CASE VerdictRead
  <2> DEFINE verdict == Head(inbox).verdict
             r       == MarkCriticComplete(w.r, verdict, ~w.unsettled, w.cancelled)
             repair  == r.decision = "continue"
             tail    == IF repair THEN <<PhaseStarts("local")>> ELSE <<>>
             ev      == <<Decides(r)>> \o tail
  <2>1. /\ pipe' = pipe \o ev /\ w.at = "verdict" /\ w.phase = "critic" /\ w.live = w.r.src
        /\ inbox # <<>> /\ Head(inbox).type = "verdict" /\ inbox' = Tail(inbox)
        /\ w' = [w EXCEPT !.r = r, !.phase = IF repair THEN "local" ELSE @,
                          !.at = CASE repair -> "loop"
                                   [] r.decision = "submit" -> "finish"
                                   [] OTHER -> "failing",
                          !.outcome = IF r.decision = "stop" THEN "failed" ELSE @]
    BY <1>2 DEF VerdictRead, Working, Inbox, Emit, Paced
  <2>2. verdict \in {"acceptable", "repair_required", "insufficient_context"}
    <3>1. Head(inbox) \in Answers
      BY <2>1 DEF Inv
    <3> QED
      BY <2>1, <3>1 DEF Answers
  <2> HIDE DEF verdict
  <2>3. \/ Routes(r, w.r.src)
        \/ DOMAIN r = RouterFields /\ r.src = w.r.src /\ r.state = "submitted" /\ r.decision = "submit"
    BY <1>0, <2>2, SubmissionRoutes
  <2> HIDE DEF r
  <2>4. /\ DOMAIN w' = WorkerFields /\ w'.r = r /\ w'.orphan = w.orphan /\ w'.live = w.live
        /\ w'.phase = (IF repair THEN "local" ELSE "critic") /\ DOMAIN w'.r = RouterFields
        /\ w'.at = CASE repair -> "loop"
                     [] r.decision = "submit" -> "finish"
                     [] OTHER -> "failing"
    BY <1>0, <2>1, <2>3 DEF WorkerFields, Routes
  <2>5. Fits
    BY <2>4 DEF Fits, Paced
  <2>6. CASE r.decision = "submit"
    <3>1. ev = <<Decides(r)>>
      <4>1. IsPipe(<<Decides(r)>>)
        BY Single
      <4>2. <<Decides(r)>> \o <<>> = <<Decides(r)>>
        BY <4>1, Silence
      <4> QED
        BY <2>6, <4>2
    <3> HIDE DEF ev
    <3>2. r.state = "submitted" /\ r.src = w.live
      BY <2>1, <2>3, <2>6 DEF Routes
    <3>3. Submits
      BY <2>1, <2>4, <2>6, <3>1, <3>2 DEF Submits, Reading
    <3> QED
      BY <2>5, <3>3
  <2>7. CASE r.decision # "submit"
    <3>1. Plain(Decides(r)) /\ Plain(PhaseStarts("local"))
      BY <2>7, Words
    <3>2. Voice(<<Decides(r)>>) /\ Voice(<<>>) /\ Voice(<<PhaseStarts("local")>>)
      BY <3>1, Spoken
    <3>3. Voice(tail)
      BY <3>2
    <3> HIDE DEF tail
    <3>4. Voice(ev)
      BY <3>2, <3>3, VoiceJoined
    <3>5. Adds(ev) /\ Only(ev, Talk)
      BY <2>1, <3>4, Added
    <3> HIDE DEF ev
    <3>6. w'.at \in {"loop", "failing"} /\ w'.phase # "cloud"
      BY <2>4, <2>7
    <3>7. Works
      BY <2>1, <3>5, <3>6 DEF Works, Reading, Opening
    <3> QED
      BY <2>5, <3>7
  <2> QED
    BY <2>6, <2>7
<1> QED
  BY <1>1, <1>2

\* Requests, the way into the final check, and the check.
LEMMA ExactSteps ==
    ASSUME Shaped, Paced(w)
    PROVE  /\ Ask => Fits /\ Asks
           /\ Send => Fits /\ Sends
           /\ Answered => Fits /\ Hears
           /\ CloudSubmit => Fits /\ CloudSubmits
           /\ Export => Fits /\ Exports
           /\ Verify => Fits /\ Verifies
<1>0. DOMAIN w.r = RouterFields /\ DOMAIN w = WorkerFields
  BY DEF Shaped
<1>1. ASSUME Ask PROVE Fits /\ Asks
  <2>1. /\ w.at = "ask" /\ inbox' = inbox /\ w' = [w EXCEPT !.at = "admission", !.calls = @ + 1]
        /\ pipe' = pipe \o <<[type |-> "prepare", phase |-> w.phase, call |-> w.r.calls]>>
    BY <1>1 DEF Ask, Working, Emit
  <2>2. /\ DOMAIN w' = WorkerFields /\ w'.orphan = w.orphan /\ w'.at = "admission" /\ Rests
    BY <1>0, <2>1 DEF WorkerFields, Rests
  <2> QED
    BY <1>0, <2>1, <2>2 DEF Fits, Paced, Asks, Rests, Listens
<1>2. ASSUME Send PROVE Fits /\ Sends
  <2>1. /\ w.at = "admission" /\ w' = [w EXCEPT !.at = "wire", !.sends = @ + 1]
        /\ pipe' = pipe /\ inbox # <<>> /\ Head(inbox).type = "admitted" /\ inbox' = Tail(inbox)
    BY <1>2 DEF Send, Working, Inbox
  <2>2. /\ DOMAIN w' = WorkerFields /\ w'.orphan = w.orphan /\ w'.at = "wire" /\ Rests
    BY <1>0, <2>1 DEF WorkerFields, Rests
  <2> QED
    BY <1>0, <2>1, <2>2 DEF Fits, Paced, Sends, Rests
<1>3. ASSUME Answered PROVE Fits /\ Hears
  <2>1. /\ w.at = "wire" /\ inbox' = inbox /\ w' = [w EXCEPT !.at = "answer"]
        /\ \E cost : pipe' = pipe \o <<[type |-> "finished", cost |-> cost]>>
    BY <1>3 DEF Answered, Emit
  <2>2. /\ DOMAIN w' = WorkerFields /\ w'.orphan = w.orphan /\ w'.at = "answer" /\ Rests
    BY <1>0, <2>1 DEF WorkerFields, Rests
  <2> QED
    BY <1>0, <2>1, <2>2 DEF Fits, Paced, Hears, Rests, Listens
<1>4. ASSUME CloudSubmit PROVE Fits /\ CloudSubmits
  <2>1. /\ w.at = "answer" /\ w.phase = "cloud" /\ inbox' = inbox /\ pipe' = pipe
        /\ w' = [w EXCEPT !.at = "finish"]
    BY <1>4 DEF CloudSubmit, Working
  <2>2. /\ DOMAIN w' = WorkerFields /\ w'.orphan = w.orphan /\ w'.at = "finish" /\ Rests
    BY <1>0, <2>1 DEF WorkerFields, Rests
  <2> QED
    BY <1>0, <2>1, <2>2 DEF Fits, Paced, CloudSubmits, Rests, Listens
<1>5. ASSUME Export PROVE Fits /\ Exports
  <2>1. /\ w.at = "finish" /\ inbox' = inbox /\ pipe' = pipe \o Exported(w.live)
        /\ w' = [w EXCEPT !.saved = TRUE, !.at = "verify"]
    BY <1>5 DEF Export, Working, Emit
  <2>2. /\ DOMAIN w' = WorkerFields /\ w'.orphan = w.orphan /\ w'.at = "verify" /\ Rests
    BY <1>0, <2>1 DEF WorkerFields, Rests
  <2> QED
    BY <1>0, <2>1, <2>2 DEF Fits, Paced, Exports, Rests, Listens
<1>6. ASSUME Verify PROVE Fits /\ Verifies
  <2>1. PICK zeroExit \in BOOLEAN, after \in Sources :
         LET passed == zeroExit /\ after = FinalTree
         IN  /\ Emit(<<[type |-> "verified", src |-> FinalTree, after |-> after, passed |-> passed]>>)
             /\ w' = [w EXCEPT !.at = "ending", !.outcome = IF passed THEN "completed" ELSE "checks_failed"]
    BY <1>6 DEF Verify
  <2>2. /\ w.at = "verify" /\ inbox' = inbox
        /\ \E passed : pipe' = pipe \o <<[type |-> "verified", src |-> w.live, after |-> after, passed |-> passed]>>
        /\ \E outcome : w' = [w EXCEPT !.at = "ending", !.outcome = outcome]
    BY <1>6, <2>1 DEF Verify, Working, Emit, FinalTree
  <2>3. /\ DOMAIN w' = WorkerFields /\ w'.orphan = w.orphan /\ w'.at = "ending" /\ Rests
    BY <1>0, <2>2 DEF WorkerFields, Rests
  <2> QED
    BY <1>0, <2>2, <2>3 DEF Fits, Paced, Verifies, Rests, Listens
<1> QED
  BY <1>1, <1>2, <1>3, <1>4, <1>5, <1>6

\* The worker that is stopped, gives up or reports its end.
LEMMA LastSteps ==
    ASSUME Shaped, Paced(w),
           \/ WorkerCancelled \/ WorkerKilled \/ OrphanEnds \/ WorkerRaises
           \/ StopRouter \/ Salvage \/ End
    PROVE  Fits /\ (Quits \/ Notices)
<1>0. DOMAIN w.r = RouterFields /\ DOMAIN w = WorkerFields
  BY DEF Shaped
<1>1. ASSUME NEW outcome
      PROVE  /\ DOMAIN Gone(outcome) = WorkerFields /\ DOMAIN Gone(outcome).r = RouterFields
             /\ Gone(outcome).orphan = w.orphan /\ Gone(outcome).at = "gone" /\ Gone(outcome).phase = "none"
             /\ Paced(Gone(outcome))
  BY DEF Gone, NoWorker, NoRouter, WorkerFields, RouterFields, Paced
<1>2. ASSUME NEW outcome, w' = Gone(outcome), pipe' = pipe, inbox' = inbox, w.at \notin {"none", "gone"}
      PROVE  Fits /\ Quits
  <2>1. Adds(<<>>) /\ Only(<<>>, {"early", "late"}) /\ Only(<<>>, {"late"})
    BY <1>2, Unsaid
  <2> QED
    BY <1>1, <1>2, <2>1 DEF Fits, Quits, Quitting, Listens
<1>3. CASE WorkerCancelled
  <2>1. CASE w' = [w EXCEPT !.cancelled = TRUE]
    <3>1. DOMAIN w' = WorkerFields /\ w'.orphan = w.orphan /\ w'.phase = w.phase /\ w'.at = w.at /\ Rests
      BY <1>0, <2>1 DEF WorkerFields, Rests
    <3>2. Fits
      BY <1>0, <3>1 DEF Fits, Paced, Rests
    <3> QED
      BY <1>3, <3>1, <3>2 DEF WorkerCancelled, Notices, Listens
  <2>2. CASE w.at = "boot" /\ w' = Gone("none")
    BY <1>2, <1>3, <2>2 DEF WorkerCancelled
  <2> QED
    BY <1>3, <2>1, <2>2 DEF WorkerCancelled
<1>4. CASE WorkerKilled
  BY <1>2, <1>4 DEF WorkerKilled, WorkerAlive
<1>5. CASE OrphanEnds
  BY <1>2, <1>5 DEF OrphanEnds, WorkerAlive
<1>6. CASE WorkerRaises
  <2>1. /\ w.at \notin {"none", "gone"} /\ pipe' = pipe /\ inbox' = inbox
        /\ w' = [w EXCEPT !.at = "failing", !.outcome = IF w.cancelled THEN "cancelled" ELSE "failed"]
    BY <1>6 DEF WorkerRaises, WorkerAlive
  <2>2. DOMAIN w' = WorkerFields /\ w'.r = w.r /\ w'.orphan = w.orphan /\ w'.phase = w.phase /\ w'.at = "failing"
    BY <1>0, <2>1 DEF WorkerFields
  <2>3. Fits
    BY <1>0, <2>2 DEF Fits, Paced
  <2>4. Adds(<<>>) /\ Only(<<>>, {"early", "late"}) /\ Only(<<>>, {"late"})
    BY <2>1, Unsaid
  <2> QED
    BY <2>1, <2>2, <2>3, <2>4 DEF Quits, Quitting, Listens
<1>7. CASE StopRouter
  <2>1. PICK reason :
         LET open == w.r.state \notin {"none", "stopped", "submitted"}
             r    == Stop(w.r, reason)
         IN  /\ Emit(IF open THEN <<Decides(r)>> ELSE <<>>)
             /\ w' = [w EXCEPT !.r = IF open THEN r ELSE @, !.at = IF w.saved THEN "ending" ELSE "salvage"]
    BY <1>7 DEF StopRouter
  <2> DEFINE open == w.r.state \notin {"none", "stopped", "submitted"}
             r    == Stop(w.r, reason)
             ev   == IF open THEN <<Decides(r)>> ELSE <<>>
  <2>2. /\ w.at = "failing" /\ inbox' = inbox /\ pipe' = pipe \o ev
        /\ w' = [w EXCEPT !.r = IF open THEN r ELSE @, !.at = IF w.saved THEN "ending" ELSE "salvage"]
    BY <1>7, <2>1 DEF StopRouter, Emit
  <2>3. Routes(r, w.r.src)
    BY <1>0, Kept
  <2> HIDE DEF r
  <2>4. Plain(Decides(r)) /\ Kind(Decides(r)) = "early"
    BY <2>3, Words DEF Routes
  <2>5. /\ IsPipe(<<>>) /\ Formed(<<>>) /\ Only(<<>>, {"early", "late"}) /\ Only(<<>>, {"late"})
        /\ IsPipe(<<Decides(r)>>) /\ Formed(<<Decides(r)>>) /\ Only(<<Decides(r)>>, {"early", "late"})
    BY <2>4, Single DEF Plain
  <2>6. Adds(ev) /\ Only(ev, {"early", "late"}) /\ (~open => Only(ev, {"late"}))
    BY <2>2, <2>5 DEF Adds
  <2>7. /\ DOMAIN w' = WorkerFields /\ w'.r = (IF open THEN r ELSE w.r) /\ w'.orphan = w.orphan
        /\ w'.at \in {"ending", "salvage"}
    BY <1>0, <2>2 DEF WorkerFields
  <2> HIDE DEF ev
  <2>8. Fits
    BY <1>0, <2>3, <2>7 DEF Fits, Paced, Routes
  <2> QED
    BY <2>2, <2>6, <2>7, <2>8 DEF Quits, Quitting, Listens
<1>8. CASE Salvage
  <2>1. /\ w.at = "salvage" /\ inbox' = inbox /\ w' = [w EXCEPT !.at = "ending"]
        /\ pipe' = pipe \o Recovers(w.live) \/ pipe' = pipe \o <<>>
    BY <1>8 DEF Salvage, Emit
  <2>2. PICK ev \in {Recovers(w.live), <<>>} : pipe' = pipe \o ev
    BY <2>1
  <2>3. IsPipe(ev) /\ Formed(ev) /\ Only(ev, {"late"})
    BY RecoveredLate, Single DEF Voice
  <2>4. Adds(ev) /\ Only(ev, {"early", "late"}) /\ Only(ev, {"late"})
    BY <2>2, <2>3 DEF Adds, Only
  <2>5. DOMAIN w' = WorkerFields /\ w'.r = w.r /\ w'.orphan = w.orphan /\ w'.phase = w.phase /\ w'.at = "ending"
    BY <1>0, <2>1 DEF WorkerFields
  <2>6. Fits
    BY <1>0, <2>5 DEF Fits, Paced
  <2> QED
    BY <2>1, <2>4, <2>5, <2>6 DEF Quits, Quitting, Listens
<1>9. CASE End
  <2> DEFINE x == [type |-> "terminal", status |-> w.outcome]
  <2>1. w.at = "ending" /\ inbox' = inbox /\ w' = Gone(w.outcome) /\ pipe' = pipe \o <<x>>
    BY <1>9 DEF End, Emit
  <2>2. Kind(x) = "late" /\ Phrased(x)
    BY DEF Kind, Phrased
  <2> HIDE DEF x
  <2>3. Adds(<<x>>) /\ Only(<<x>>, {"early", "late"}) /\ Only(<<x>>, {"late"})
    BY <2>1, <2>2, Single DEF Adds
  <2> QED
    BY <1>1, <2>1, <2>3 DEF Fits, Quits, Quitting, Listens
<1> QED
  BY <1>3, <1>4, <1>5, <1>6, <1>7, <1>8, <1>9

\* Every step of the worker says what its place allows.
LEMMA WorkerSays ==
    ASSUME Inv, Shaped, Paced(w), WorkerNext
    PROVE  /\ Fits /\ run' = run /\ host' = host
           /\ \/ Works \/ Asks \/ Sends \/ Hears \/ Submits \/ CloudSubmits \/ Exports
              \/ Verifies \/ Quits \/ Notices
<1>1. run' = run /\ host' = host
  BY DEF WorkerNext, WorkerStep, WorkerCancelled, WorkerKilled, OrphanEnds, WorkerStarts, WorkerRaises,
         LocalRequest, Ask, Send, AdmittedTooLate, Answered, Unanswered, PlanReady, ActionDenied,
         RunCommand, CommandRan, CommandObserved, VisibleCheck, Help, SubmitTask, NoSubmission,
         Handoff, CloudCommand, CloudSubmit, FreezeDraft, CriticStarts, CriticAnswer, VerdictRead,
         Export, Verify, StopRouter, Salvage, End, Unsettle
<1> QED
  BY <1>1, EarlySteps, ToolSteps, OtherSteps, SubmitSteps, ExactSteps, LastSteps DEF WorkerNext

-----------------------------------------------------------------------------
(***************************************************************************)
(* The invariant of the submission. Nothing is filed of it before the      *)
(* worker has ended its work; then its decision, its patch and its check   *)
(* are about one tree, and the patch comes before the check.               *)
(***************************************************************************)
Silent == ~Says(pipe, "patch") /\ ~Says(pipe, "verifying") /\ ~Says(pipe, "verified")
Unfiled ==
    /\ run.patch.kind # "submitted" /\ run.checks.status = "not_run" /\ run.phase # "checking"
    /\ host.await # "candidate" /\ Silent
Undecided == run.cp.decision # "submit" /\ ~Says(pipe, "submit")
Fresh ==
    /\ w.at = "none" /\ inbox = <<>> /\ Unfiled
    /\ run.cp.decision # "submit" /\ run.recoveries = 0 /\ run.check.passed = FALSE

Placed ==
    /\ host.place \in {"preparing", "working"} => Running(run)
    /\ host.place = "working" => w.orphan = FALSE
    /\ host.await # "none" => host.place = "working"
    /\ run.status = "created" \/ host.place = "preparing" => Fresh

Filed ==
    /\ w.at \in Opening \cup {"none", "finish"} => Unfiled
    /\ w.at \in Opening \cup {"none"} => Undecided
    /\ run.phase = "checking" => run.patch.kind = "submitted"
    /\ host.await = "candidate" => CriticPolicy(run)

\* All that is filed and still to be filed is about the tree t.
About(t) ==
    /\ Agree(pipe, t)
    /\ run.cp.decision = "submit" => run.cp.src = t
    /\ run.patch.kind = "submitted" => run.patch = [kind |-> "submitted", src |-> t]
    /\ run.checks.status # "not_run" => run.checks.src = t
    /\ w.at \in {"finish", "verify"} => w.live = t
OneTree == \E t : About(t)

\* The host follows a worker that it has not told to stop.
Live == host.place = "working" /\ ~host.stopped
Announced ==
    Live => run.patch.kind = "submitted" \/ host.await = "candidate" \/ Leads(pipe, "patch", "verifying")

Filing == Shaped /\ Paced(w) /\ Placed /\ Filed /\ OneTree /\ Announced

\* What is not in the talk was not said.
LEMMA Mute ==
    ASSUME NEW s, NEW K, Only(s, K)
    PROVE  /\ \A k : k \notin K => ~Says(s, k)
           /\ \A a, b : b \notin K => Leads(s, a, b)
           /\ K \cap {"submit", "patch", "verified"} = {} => \A t : Agree(s, t)
           /\ "submit" \notin K => Closes(s)
           /\ "prepare" \notin K => \A phase : PreparedLast(s, phase)
BY DEF Only, Says, Leads, Agree, Closes, PreparedLast

\* A pipe that reports no submission is about any tree.
LEMMA Untold ==
    ASSUME NEW s, ~Says(s, "submit"), ~Says(s, "patch"), ~Says(s, "verified"), NEW t
    PROVE  Agree(s, t)
BY DEF Says, Agree

\* The patch, and then the check.
LEMMA ExportedOrder ==
    ASSUME NEW src
    PROVE  LET ev == Exported(src)
           IN  /\ IsPipe(ev) /\ Formed(ev) /\ Closes(ev) /\ Only(ev, {"patch", "verifying"})
               /\ Agree(ev, src) /\ Leads(ev, "patch", "verifying")
<1> DEFINE x == [type |-> "patch", kind |-> "submitted", src |-> src]
           y == [type |-> "verifying"]
           ev == <<x, y>>
<1>1. /\ Kind(x) = "patch" /\ Kind(y) = "verifying" /\ Phrased(x) /\ Phrased(y) /\ x.src = src
  BY DEF Kind, Phrased
<1>2. Exported(src) = ev
  BY DEF Exported
<1> HIDE DEF x, y
<1>3. ev \in Seq({x, y}) /\ DOMAIN ev = {1, 2} /\ ev[1] = x /\ ev[2] = y
  OBVIOUS
<1>4. IsPipe(ev)
  BY <1>3 DEF IsPipe
<1> HIDE DEF ev
<1>5. Formed(ev) /\ Only(ev, {"patch", "verifying"})
  BY <1>1, <1>3 DEF Formed, Only
<1>6. Agree(ev, src)
  BY <1>1, <1>3 DEF Agree, Tree
<1>7. Leads(ev, "patch", "verifying")
  BY <1>1, <1>3 DEF Leads
<1>8. Closes(ev)
  BY <1>5, Mute
<1> QED
  BY <1>2, <1>4, <1>5, <1>6, <1>7, <1>8

\* What the pipe says after a step of the worker.
LEMMA PipeMore ==
    ASSUME Shaped, NEW ev, Adds(ev)
    PROVE  /\ IsPipe(pipe') /\ Formed(pipe')
           /\ \A k : Says(pipe', k) <=> Says(pipe, k) \/ Says(ev, k)
           /\ \A x : Agree(pipe, x) /\ Agree(ev, x) => Agree(pipe', x)
           /\ \A a, b : Leads(pipe, a, b) /\ (~Says(ev, b) \/ Says(pipe, a) \/ Leads(ev, a, b)) => Leads(pipe', a, b)
<1>1. IsPipe(pipe \o ev)
  BY Joined DEF Shaped, Adds, Joins
<1>2. /\ Formed(pipe \o ev)
      /\ \A k : Says(pipe \o ev, k) <=> Says(pipe, k) \/ Says(ev, k)
      /\ \A x : Agree(pipe, x) /\ Agree(ev, x) => Agree(pipe \o ev, x)
      /\ \A a, b : Leads(pipe, a, b) /\ (~Says(ev, b) \/ Says(pipe, a) \/ Leads(ev, a, b)) => Leads(pipe \o ev, a, b)
  BY SaidMore DEF Shaped, Adds
<1> QED
  BY <1>1, <1>2 DEF Adds

\* A worker that reports nothing of a submission changes nothing that is filed.
LEMMA TalkFiles ==
    ASSUME Filing, Fits, UNCHANGED <<run, host>>, NEW ev, Adds(ev),
           \A k \in {"submit", "patch", "verifying", "verified"} : ~Says(ev, k),
           w'.at \in Opening \cup {"none"} => w.at \in Opening \cup {"none"},
           w'.at \in {"finish", "verify"} => w'.at = w.at /\ w'.live = w.live,
           w.at = "none" => w'.at = "none" /\ inbox' = inbox
    PROVE  Filing'
<1>1. /\ IsPipe(pipe') /\ Formed(pipe')
      /\ \A k : Says(pipe', k) <=> Says(pipe, k) \/ Says(ev, k)
      /\ \A x : Agree(pipe, x) /\ Agree(ev, x) => Agree(pipe', x)
      /\ \A a, b : Leads(pipe, a, b) /\ (~Says(ev, b) \/ Says(pipe, a) \/ Leads(ev, a, b)) => Leads(pipe', a, b)
  BY PipeMore DEF Filing
<1>2. \A t : Agree(ev, t)
  BY Untold
<1>3. Shaped' /\ Paced(w')
  BY <1>1 DEF Filing, Fits, Shaped
<1>4. Silent => Silent'
  BY <1>1 DEF Silent
<1>5. Placed'
  BY <1>4 DEF Filing, Placed, Fits, Running, Fresh, Unfiled
<1>6. Filed'
  BY <1>1, <1>4 DEF Filing, Filed, Unfiled, Undecided, CriticPolicy
<1>7. OneTree'
  <2>1. PICK t : About(t)
    BY DEF Filing, OneTree
  <2>2. About(t)'
    BY <1>1, <1>2, <2>1 DEF About
  <2> QED
    BY <2>2 DEF OneTree
<1>8. Announced'
  BY <1>1 DEF Filing, Announced, Live
<1> QED
  BY <1>3, <1>5, <1>6, <1>7, <1>8 DEF Filing

\* The decision to submit, the patch and its check are said of one tree.
LEMMA SubmissionFiles ==
    ASSUME Filing, Fits, UNCHANGED <<run, host>>, Submits \/ CloudSubmits \/ Exports \/ Verifies
    PROVE  Filing'
<1>1. CASE Submits
  <2> DEFINE ev == <<Decides(w'.r)>>
  <2>1. Kind(Decides(w'.r)) = "submit" /\ Phrased(Decides(w'.r)) /\ Tree(Decides(w'.r)) = w.live
    BY <1>1 DEF Submits, Decides, Kind, Phrased, Tree
  <2>2. IsPipe(ev) /\ Formed(ev) /\ Agree(ev, w.live) /\ \A k : Says(ev, k) <=> k = "submit"
    BY <2>1, Single
  <2>3. Adds(ev)
    BY <1>1, <2>2 DEF Submits, Adds
  <2> HIDE DEF ev
  <2>4. /\ IsPipe(pipe') /\ Formed(pipe')
        /\ \A k : Says(pipe', k) <=> Says(pipe, k) \/ Says(ev, k)
        /\ \A x : Agree(pipe, x) /\ Agree(ev, x) => Agree(pipe', x)
        /\ \A a, b : Leads(pipe, a, b) /\ (~Says(ev, b) \/ Says(pipe, a) \/ Leads(ev, a, b)) => Leads(pipe', a, b)
    BY <2>3, PipeMore DEF Filing
  <2>5. w.at \in Opening /\ w'.at = "finish" /\ w'.live = w.live
    BY <1>1 DEF Submits, Opening
  <2>6. Unfiled /\ Undecided
    BY <2>5 DEF Filing, Filed
  <2>7. Agree(pipe, w.live)
    BY <2>6, Untold DEF Unfiled, Undecided, Silent
  <2>8. About(w.live)'
    BY <2>2, <2>4, <2>5, <2>6, <2>7 DEF About, Unfiled, Undecided
  <2>9. Shaped' /\ Paced(w')
    BY <2>4 DEF Filing, Fits, Shaped
  <2>10. Unfiled'
    BY <2>2, <2>4, <2>6 DEF Unfiled, Silent
  <2>11. Filed'
    BY <2>5, <2>10 DEF Filing, Filed, Opening, CriticPolicy
  <2>12. Placed'
    BY <2>5 DEF Filing, Placed, Fresh, Fits, Running, Opening
  <2>13. Announced'
    BY <2>2, <2>4 DEF Filing, Announced, Live
  <2> QED
    BY <2>8, <2>9, <2>11, <2>12, <2>13 DEF Filing, OneTree
<1>2. CASE CloudSubmits
  <2>1. w.at \in Opening /\ w'.at = "finish" /\ w'.live = w.live /\ pipe' = pipe
    BY <1>2 DEF CloudSubmits, Rests, Opening
  <2>2. Unfiled /\ Undecided
    BY <2>1 DEF Filing, Filed
  <2>3. Agree(pipe, w.live)
    BY <2>2, Untold DEF Unfiled, Undecided, Silent
  <2>4. About(w.live)'
    BY <2>1, <2>2, <2>3 DEF About, Unfiled, Undecided
  <2>5. Shaped' /\ Paced(w')
    BY <2>1 DEF Filing, Fits, Shaped
  <2>6. Unfiled'
    BY <2>1, <2>2 DEF Unfiled, Silent
  <2>7. Filed'
    BY <2>1, <2>6 DEF Filing, Filed, Opening, CriticPolicy
  <2>8. Placed'
    BY <2>1 DEF Filing, Placed, Fresh, Fits, Running, Opening
  <2>9. Announced'
    BY <2>1 DEF Filing, Announced, Live
  <2> QED
    BY <2>4, <2>5, <2>7, <2>8, <2>9 DEF Filing, OneTree
<1>3. CASE Exports
  <2> DEFINE ev == Exported(w.live)
  <2>1. /\ IsPipe(ev) /\ Formed(ev) /\ Agree(ev, w.live) /\ Leads(ev, "patch", "verifying")
    BY ExportedOrder
  <2>2. Adds(ev)
    BY <1>3, <2>1 DEF Exports, Adds
  <2> HIDE DEF ev
  <2>3. /\ IsPipe(pipe') /\ Formed(pipe')
        /\ \A x : Agree(pipe, x) /\ Agree(ev, x) => Agree(pipe', x)
        /\ \A a, b : Leads(pipe, a, b) /\ (~Says(ev, b) \/ Says(pipe, a) \/ Leads(ev, a, b)) => Leads(pipe', a, b)
    BY <2>2, PipeMore DEF Filing
  <2>4. w.at = "finish" /\ w'.at = "verify" /\ w'.live = w.live
    BY <1>3 DEF Exports, Rests
  <2>5. PICK t : About(t)
    BY DEF Filing, OneTree
  <2>6. t = w.live
    BY <2>4, <2>5 DEF About
  <2>7. About(t)'
    BY <2>1, <2>3, <2>4, <2>5, <2>6 DEF About
  <2>8. Shaped' /\ Paced(w')
    BY <2>3 DEF Filing, Fits, Shaped
  <2>9. Filed'
    BY <2>4 DEF Filing, Filed, Opening, CriticPolicy
  <2>10. Placed'
    BY <2>4 DEF Filing, Placed, Fresh, Fits, Running
  <2>11. Announced'
    BY <2>1, <2>3 DEF Filing, Announced, Live
  <2> QED
    BY <2>7, <2>8, <2>9, <2>10, <2>11 DEF Filing, OneTree
<1>4. CASE Verifies
  <2>1. PICK after, passed :
           pipe' = pipe \o <<[type |-> "verified", src |-> w.live, after |-> after, passed |-> passed]>>
    BY <1>4 DEF Verifies
  <2> DEFINE x  == [type |-> "verified", src |-> w.live, after |-> after, passed |-> passed]
             ev == <<x>>
  <2>2. Kind(x) = "verified" /\ Phrased(x) /\ Tree(x) = w.live
    BY DEF Kind, Phrased, Tree
  <2>3. pipe' = pipe \o ev
    BY <2>1
  <2> HIDE DEF x
  <2>4. IsPipe(ev) /\ Formed(ev) /\ Agree(ev, w.live) /\ ~Says(ev, "verifying")
    BY <2>2, Single
  <2>5. Adds(ev)
    BY <2>3, <2>4 DEF Adds
  <2> HIDE DEF ev
  <2>6. /\ IsPipe(pipe') /\ Formed(pipe')
        /\ \A y : Agree(pipe, y) /\ Agree(ev, y) => Agree(pipe', y)
        /\ \A a, b : Leads(pipe, a, b) /\ (~Says(ev, b) \/ Says(pipe, a) \/ Leads(ev, a, b)) => Leads(pipe', a, b)
    BY <2>5, PipeMore DEF Filing
  <2>7. w.at = "verify" /\ w'.at = "ending"
    BY <1>4 DEF Verifies
  <2>8. PICK t : About(t)
    BY DEF Filing, OneTree
  <2>9. t = w.live
    BY <2>7, <2>8 DEF About
  <2>10. About(t)'
    BY <2>4, <2>6, <2>7, <2>8, <2>9 DEF About
  <2>11. Shaped' /\ Paced(w')
    BY <2>6 DEF Filing, Fits, Shaped
  <2>12. Filed'
    BY <2>7 DEF Filing, Filed, Opening, CriticPolicy
  <2>13. Placed'
    BY <2>7 DEF Filing, Placed, Fresh, Fits, Running
  <2>14. Announced'
    BY <2>4, <2>6 DEF Filing, Announced, Live
  <2> QED
    BY <2>10, <2>11, <2>12, <2>13, <2>14 DEF Filing, OneTree
<1> QED
  BY <1>1, <1>2, <1>3, <1>4

\* The worker files one submission, once its work has ended.
LEMMA WorkerFiles ==
    ASSUME Inv, Filing, WorkerNext
    PROVE  Filing'
<1>1. /\ Fits /\ UNCHANGED <<run, host>>
      /\ \/ Works \/ Asks \/ Sends \/ Hears \/ Submits \/ CloudSubmits \/ Exports
         \/ Verifies \/ Quits \/ Notices
  BY WorkerSays DEF Filing
<1>2. CASE Works
  <2>1. PICK ev : Adds(ev) /\ Only(ev, Talk)
    BY <1>2 DEF Works
  <2>2. \A k \in {"submit", "patch", "verifying", "verified"} : ~Says(ev, k)
    BY <2>1, Mute DEF Talk
  <2> QED
    BY <1>1, <1>2, <2>1, <2>2, TalkFiles DEF Works, Opening
<1>3. CASE Quits
  <2>1. PICK ev : Adds(ev) /\ Only(ev, {"early", "late"})
    BY <1>3 DEF Quits
  <2>2. \A k \in {"submit", "patch", "verifying", "verified"} : ~Says(ev, k)
    BY <2>1, Mute
  <2>3. w.at # "none" /\ w'.at \notin {"none", "finish", "verify"} /\ w'.at \notin Opening
    BY <1>3 DEF Quits, Quitting, Opening
  <2> QED
    BY <1>1, <2>1, <2>2, <2>3, TalkFiles
<1>4. CASE Asks \/ Hears
  <2>1. PICK x : /\ pipe' = pipe \o <<x>> /\ Kind(x) \in {"prepare", "finished"} /\ Phrased(x)
    <3>1. CASE Asks
      <4>1. PICK call : pipe' = pipe \o <<[type |-> "prepare", phase |-> w.phase, call |-> call]>>
        BY <3>1 DEF Asks
      <4> DEFINE y == [type |-> "prepare", phase |-> w.phase, call |-> call]
      <4>2. Kind(y) = "prepare" /\ Phrased(y)
        BY DEF Kind, Phrased
      <4>3. pipe' = pipe \o <<y>>
        BY <4>1
      <4> HIDE DEF y
      <4> QED
        BY <4>2, <4>3
    <3>2. CASE Hears
      <4>1. PICK cost : pipe' = pipe \o <<[type |-> "finished", cost |-> cost]>>
        BY <3>2 DEF Hears
      <4> DEFINE y == [type |-> "finished", cost |-> cost]
      <4>2. Kind(y) = "finished" /\ Phrased(y)
        BY DEF Kind, Phrased
      <4>3. pipe' = pipe \o <<y>>
        BY <4>1
      <4> HIDE DEF y
      <4> QED
        BY <4>2, <4>3
    <3> QED
      BY <1>4, <3>1, <3>2
  <2>2. Adds(<<x>>)
    BY <2>1, Single DEF Adds
  <2>3. \A k \in {"submit", "patch", "verifying", "verified"} : ~Says(<<x>>, k)
    BY <2>1, Single
  <2>4. w.at \in Opening /\ w'.at \in Opening
    BY <1>4 DEF Asks, Hears, Opening
  <2> QED
    BY <1>1, <2>2, <2>3, <2>4, TalkFiles DEF Opening
<1>5. CASE Sends \/ Notices
  <2>1. Adds(<<>>)
    BY <1>5, Unsaid DEF Sends, Notices, Filing
  <2>2. \A k \in {"submit", "patch", "verifying", "verified"} : ~Says(<<>>, k)
    BY Single
  <2>3. CASE Sends
    BY <1>1, <2>1, <2>2, <2>3, TalkFiles DEF Sends, Opening
  <2>4. CASE Notices
    BY <1>1, <2>1, <2>2, <2>4, TalkFiles DEF Notices, Rests, Listens
  <2> QED
    BY <1>5, <2>3, <2>4
<1> QED
  BY <1>1, <1>2, <1>3, <1>4, <1>5, SubmissionFiles

-----------------------------------------------------------------------------
(* What the store's operations leave of a row. *)

Told == {"policy", "status", "phase", "cp", "handoff", "recoveries", "patch", "checks"}
SameCheck(r) == /\ r.check.src = run.check.src /\ r.check.after = run.check.after
                /\ r.check.passed = run.check.passed
Keeps(r, F) == Row(r) /\ (\A f \in F : r[f] = run[f]) /\ SameCheck(r)

\* Most operations write none of it.
LEMMA RowKeeps ==
    ASSUME Row(run)
    PROVE  /\ Keeps(run, Told) /\ Keeps(RecordTool(run), Told) /\ Keeps(InvalidateCheckpointCheck(run), Told)
           /\ Keeps([run EXCEPT !.plan = TRUE], Told)
           /\ \A x : /\ Keeps(RecordCriticDraft(run, x), Told) /\ Keeps(RecordCriticReceipt(run, x), Told)
                     /\ Keeps([run EXCEPT !.decision = x], Told)
                     /\ Keeps(ReserveRequest(run, x), Told) /\ Keeps(StartRequest(ReserveRequest(run, x)), Told)
           /\ \A outcome, cost : Keeps(Settle(run, outcome, cost), Told)
<1>1. /\ Keeps(run, Told) /\ Keeps(RecordTool(run), Told)
      /\ Keeps([run EXCEPT !.plan = TRUE], Told)
  BY DEF Keeps, Row, Told, SameCheck, RowFields, RecordTool
<1>2. Keeps(InvalidateCheckpointCheck(run), Told)
  <2> DEFINE q == InvalidateCheckpointCheck(run)
  <2>1. DOMAIN q = RowFields /\ q.check = [run.check EXCEPT !.fresh = FALSE]
        /\ \A f \in Told : q[f] = run[f]
    BY DEF Row, Told, RowFields, InvalidateCheckpointCheck
  <2> HIDE DEF q
  <2>2. Keeps(q, Told)
    BY <2>1 DEF Keeps, Row, SameCheck, CheckFields
  <2> QED
    BY <2>2 DEF q
<1>3. ASSUME NEW x
      PROVE  /\ Keeps(RecordCriticDraft(run, x), Told) /\ Keeps(RecordCriticReceipt(run, x), Told)
             /\ Keeps([run EXCEPT !.decision = x], Told)
  BY DEF Keeps, Row, Told, SameCheck, RowFields, RecordCriticDraft, RecordCriticReceipt
<1>4. ASSUME NEW x
      PROVE  Keeps(ReserveRequest(run, x), Told) /\ Keeps(StartRequest(ReserveRequest(run, x)), Told)
  <2> DEFINE q == ReserveRequest(run, x)
             t == StartRequest(q)
  <2>1. DOMAIN q = RowFields /\ q.check = run.check /\ \A f \in Told : q[f] = run[f]
    BY DEF Row, Told, RowFields, ReserveRequest
  <2> HIDE DEF q
  <2>2. DOMAIN t = RowFields /\ t.check = q.check /\ \A f \in Told : t[f] = q[f]
    BY <2>1 DEF Told, RowFields, StartRequest
  <2> HIDE DEF t
  <2>3. Keeps(q, Told) /\ Keeps(t, Told)
    BY <2>1, <2>2 DEF Keeps, Row, SameCheck
  <2> QED
    BY <2>3 DEF q, t
<1>5. ASSUME NEW outcome, NEW cost
      PROVE  Keeps(Settle(run, outcome, cost), Told)
  <2> DEFINE q == Settle(run, outcome, cost)
  <2>1. DOMAIN q = RowFields /\ q.check = run.check /\ \A f \in Told : q[f] = run[f]
    BY DEF Row, Told, RowFields, Settle
  <2> HIDE DEF q
  <2>2. Keeps(q, Told)
    BY <2>1 DEF Keeps, Row, SameCheck
  <2> QED
    BY <2>2 DEF q
<1> QED
  BY <1>1, <1>2, <1>3, <1>4, <1>5

\* The others write what they are there for.
LEMMA RowWrites ==
    ASSUME Row(run)
    PROVE  /\ Keeps(Start(run), Told \ {"status", "phase"}) /\ Start(run).status = "running"
           /\ Start(run).phase = "preparing"
           /\ \A x : Keeps(SetPhase(run, x), Told \ {"phase"}) /\ SetPhase(run, x).phase = x
           /\ Keeps(BeginCloudRecovery(run), Told \ {"phase", "recoveries"})
           /\ BeginCloudRecovery(run).phase = "cloud_solver" /\ BeginCloudRecovery(run).recoveries = 1
           /\ \A x : Keeps([run EXCEPT !.handoff = x], Told \ {"handoff"}) /\ [run EXCEPT !.handoff = x].handoff = x
           /\ \A x : Keeps(RecordChecks(run, x), Told \ {"checks"}) /\ RecordChecks(run, x).checks = x
           /\ \A x : Keeps(RecordCheckpoint(run, x), Told \ {"cp"}) /\ RecordCheckpoint(run, x).cp = x
           /\ \A x : DOMAIN x = CheckFields =>
                 /\ Row(RecordCheckpointCheck(run, x)) /\ RecordCheckpointCheck(run, x).check = x
                 /\ \A f \in Told : RecordCheckpointCheck(run, x)[f] = run[f]
<1>1. /\ Keeps(Start(run), Told \ {"status", "phase"}) /\ Start(run).status = "running"
      /\ Start(run).phase = "preparing"
  BY DEF Keeps, Row, Told, SameCheck, RowFields, Start
<1>2. \A x : Keeps(SetPhase(run, x), Told \ {"phase"}) /\ SetPhase(run, x).phase = x
  BY DEF Keeps, Row, Told, SameCheck, RowFields, SetPhase
<1>3. /\ Keeps(BeginCloudRecovery(run), Told \ {"phase", "recoveries"})
      /\ BeginCloudRecovery(run).phase = "cloud_solver" /\ BeginCloudRecovery(run).recoveries = 1
  BY DEF Keeps, Row, Told, SameCheck, RowFields, BeginCloudRecovery
<1>4. \A x : Keeps([run EXCEPT !.handoff = x], Told \ {"handoff"}) /\ [run EXCEPT !.handoff = x].handoff = x
  BY DEF Keeps, Row, Told, SameCheck, RowFields
<1>5. \A x : Keeps(RecordChecks(run, x), Told \ {"checks"}) /\ RecordChecks(run, x).checks = x
  BY DEF Keeps, Row, Told, SameCheck, RowFields, RecordChecks
<1>6. ASSUME NEW x
      PROVE  Keeps(RecordCheckpoint(run, x), Told \ {"cp"}) /\ RecordCheckpoint(run, x).cp = x
  <2> DEFINE q == RecordCheckpoint(run, x)
  <2>1. DOMAIN q = RowFields /\ q.cp = x /\ (\A f \in Told \ {"cp"} : q[f] = run[f])
        /\ \E fresh : q.check = [run.check EXCEPT !.fresh = fresh]
    BY DEF Row, Told, RowFields, RecordCheckpoint
  <2> HIDE DEF q
  <2>2. Keeps(q, Told \ {"cp"}) /\ q.cp = x
    BY <2>1 DEF Keeps, Row, SameCheck, CheckFields
  <2> QED
    BY <2>2 DEF q
<1>7. ASSUME NEW x, DOMAIN x = CheckFields
      PROVE  /\ Row(RecordCheckpointCheck(run, x)) /\ RecordCheckpointCheck(run, x).check = x
             /\ \A f \in Told : RecordCheckpointCheck(run, x)[f] = run[f]
  BY <1>7 DEF Row, Told, RowFields, RecordCheckpointCheck
<1> QED
  BY <1>1, <1>2, <1>3, <1>4, <1>5, <1>6, <1>7

\* A submission is filed for good; edits that were kept replace other edits only.
LEMMA RowPatched ==
    ASSUME Row(run), NEW src
    PROVE  /\ Keeps(RecordPatch(run, "submitted", src), Told \ {"patch"})
           /\ RecordPatch(run, "submitted", src).patch = [kind |-> "submitted", src |-> src]
           /\ run.patch.kind = "submitted" => RecordPatch(run, "recovered", src) = run
           /\ run.patch.kind # "submitted" =>
                /\ Keeps(RecordPatch(run, "recovered", src), Told \ {"patch", "checks"})
                /\ RecordPatch(run, "recovered", src).patch.kind = "recovered"
                /\ RecordPatch(run, "recovered", src).checks.status = "not_run"
<1>1. /\ Keeps(RecordPatch(run, "submitted", src), Told \ {"patch"})
      /\ RecordPatch(run, "submitted", src).patch = [kind |-> "submitted", src |-> src]
  <2>1. RecordPatch(run, "submitted", src) = [run EXCEPT !.patch = [kind |-> "submitted", src |-> src]]
    BY DEF RecordPatch
  <2> QED
    BY <2>1 DEF Keeps, Row, Told, SameCheck, RowFields
<1>2. run.patch.kind = "submitted" => RecordPatch(run, "recovered", src) = run
  BY DEF RecordPatch
<1>3. ASSUME run.patch.kind # "submitted"
      PROVE  /\ Keeps(RecordPatch(run, "recovered", src), Told \ {"patch", "checks"})
             /\ RecordPatch(run, "recovered", src).patch.kind = "recovered"
             /\ RecordPatch(run, "recovered", src).checks.status = "not_run"
  <2> DEFINE none == NewRun(run.policy).checks
             p    == [kind |-> "recovered", src |-> src]
  <2>1. RecordPatch(run, "recovered", src) = [run EXCEPT !.patch = p, !.checks = none]
    BY <1>3 DEF RecordPatch
  <2>2. none.status = "not_run" /\ p.kind = "recovered"
    BY DEF NewRun
  <2> HIDE DEF none, p
  <2> QED
    BY <2>1, <2>2 DEF Keeps, Row, Told, SameCheck, RowFields
<1> QED
  BY <1>1, <1>2, <1>3

\* The end of a run keeps what was filed.
LEMMA RowFinished ==
    ASSUME Row(run), NEW status
    PROVE  /\ Keeps(Finish(run, status), Told \ {"status", "phase"})
           /\ Finish(run, status).status = status /\ Finish(run, status).phase = "finished"
<1> DEFINE c == Closed(run)
           q == Finish(run, status)
<1>1. Keeps(c, Told)
  <2>1. c = run \/ \E outcome : c = Settle(run, outcome, 0)
    BY DEF Closed
  <2> HIDE DEF c
  <2> QED
    BY <2>1, RowKeeps
<1> HIDE DEF c
<1>2. q = [c EXCEPT !.status = status, !.phase = "finished"]
  BY DEF Finish, c
<1>3. /\ DOMAIN q = RowFields /\ q.check = c.check /\ q.status = status /\ q.phase = "finished"
      /\ \A f \in Told \ {"status", "phase"} : q[f] = c[f]
  BY <1>1, <1>2 DEF Keeps, Row, RowFields, Told
<1> HIDE DEF q
<1>4. Keeps(q, Told \ {"status", "phase"})
  BY <1>1, <1>3 DEF Keeps, Row, SameCheck
<1> QED
  BY <1>3, <1>4 DEF q

\* The host that gives up.
LEMMA HostFailed ==
    ASSUME NEW h, DOMAIN h = HostFields, NEW kind
    PROVE  /\ DOMAIN Failed(h, kind) = HostFields /\ Failed(h, kind).stopped = TRUE
           /\ Failed(h, kind).place = h.place /\ Failed(h, kind).await = h.await
           /\ Failed(h, kind).up = h.up
BY DEF Failed, HostFields

-----------------------------------------------------------------------------
(***************************************************************************)
(* The steps of the host, by what they file.                               *)
(***************************************************************************)
Takes == host.place = "working" /\ host.await = "none" /\ pipe # <<>> /\ pipe' = Tail(pipe) /\ w' = w
Stays(await) ==
    /\ DOMAIN host' = HostFields /\ host'.place = host.place /\ host'.await = await
    /\ host.stopped => host'.stopped
\* While the run goes on its books and the worker's admissions are left alone.
Calm ==
    /\ host'.stopped \/ QuietRow(run')
    /\ inbox' = inbox \/ \E x \in Answers : x.type # "admitted" /\ inbox' = Append(inbox, x)

\* A phase may start, but not the cloud's, and a handoff be recorded.
Passes ==
    /\ Takes /\ (Stays("none") \/ Stays("context"))
    /\ Keeps(run', Told \ {"phase", "handoff"}) /\ Calm
    /\ run'.phase # run.phase => {run.phase, run'.phase} \cap {"checking", "cloud_solver"} = {}
    /\ run'.handoff # run.handoff => run.recoveries = 0
    /\ host'.stopped \/ Kind(Event) \in {"early", "late"}
Resumes ==
    /\ host.await = "context" /\ pipe' = pipe /\ w' = w /\ Stays("none")
    /\ Keeps(run', Told) /\ Calm
Admits ==
    /\ Takes /\ Stays("none") /\ Kind(Event) = "prepare" /\ Event.phase \in RequestPhases
    /\ ~Unresolved(run) /\ Keeps(run', Told) /\ run' = StartRequest(ReserveRequest(run, Event.phase))
    /\ inbox' = Append(inbox, [type |-> "admitted"])
Settles ==
    /\ Takes /\ Stays("none") /\ Kind(Event) = "finished" /\ host.pending
    /\ Keeps(run', Told) /\ run' = Settle(run, "succeeded", Event.cost) /\ inbox' = inbox
Escalates ==
    /\ Takes /\ host' = host /\ Kind(Event) = "cloud" /\ inbox' = inbox
    /\ CanBeginCloudRecovery(run) /\ run' = BeginCloudRecovery(run)
Judges ==
    /\ Takes /\ Stays("none") /\ Event.type = "checkpoint" /\ inbox' = inbox
    /\ CanRecordCheckpoint(run, Event.cp) /\ run' = RecordCheckpoint(run, Event.cp)
Checks ==
    /\ Takes /\ Stays("none") /\ Event.type = "checked" /\ inbox' = inbox
    /\ CanRecordCheckpointCheck(run, Event.check) /\ run' = RecordCheckpointCheck(run, Event.check)
Recovered ==
    /\ Takes /\ host' = host /\ Event.type = "patch" /\ Event.kind = "recovered" /\ inbox' = inbox
    /\ run.patch.kind # "submitted" /\ run' = RecordPatch(run, "recovered", Event.src)
Files ==
    /\ Takes /\ host' = host /\ Kind(Event) = "patch" /\ inbox' = inbox
    /\ run' = RecordPatch(run, "submitted", Event.src)
\* The submission of a critic run, before and after its tree was reconstructed.
Rebuilds ==
    /\ Takes /\ Stays("candidate") /\ Kind(Event) = "patch" /\ inbox' = inbox
    /\ CriticPolicy(run) /\ run.cp.decision = "submit" /\ run' = run
Confirms ==
    /\ host.await = "candidate" /\ pipe' = pipe /\ w' = w /\ Stays("none") /\ inbox' = inbox
    /\ \/ run' = run /\ host'.stopped
       \/ CanRecordPatch(run, "submitted", run.cp.src) /\ run' = RecordPatch(run, "submitted", run.cp.src)
Finals ==
    /\ Takes /\ Stays("none") /\ Kind(Event) = "verified" /\ inbox' = inbox
    /\ \E status, after : run' = RecordChecks(run, [status |-> status, src |-> Event.src, after |-> after])
Verifying ==
    /\ Takes /\ host' = host /\ Kind(Event) = "verifying" /\ inbox' = inbox
    /\ HostRuns /\ run' = SetPhase(run, "checking")

\* An event that is refused or ends the run.
LEMMA FailsPass ==
    ASSUME Inv, Shaped, Takes, NEW kind, Fails(kind)
    PROVE  Passes
<1>1. /\ DOMAIN host' = HostFields /\ host'.stopped = TRUE /\ host'.place = host.place
      /\ host'.await = "none" /\ run' = run /\ inbox' = inbox
  BY HostFailed DEF Fails, Shaped, Takes
<1>2. Keeps(run, Told)
  BY RowKeeps DEF Shaped
<1>3. Keeps(run', Told \ {"phase", "handoff"}) /\ run'.phase = run.phase /\ run'.handoff = run.handoff
  BY <1>1, <1>2 DEF Keeps, SameCheck
<1> QED
  BY <1>1, <1>3 DEF Passes, Stays, Calm

\* An event that writes nothing of the submission.
LEMMA NotedPass ==
    ASSUME Inv, Shaped, Takes, Stays("none") \/ Stays("context"), Keeps(run', Told), Calm,
           host'.stopped \/ Kind(Event) \in {"early", "late"}
    PROVE  Passes
<1>1. Keeps(run', Told \ {"phase", "handoff"}) /\ run'.phase = run.phase /\ run'.handoff = run.handoff
  BY DEF Keeps, Told, SameCheck
<1> QED
  BY <1>1 DEF Passes

\* What an admitted event finds.
LEMMA EventRead ==
    ASSUME NEW type, Reads(type), Handled
    PROVE  Takes /\ Event.type = type
BY DEF Reads, Handled, Takes, Event

\* The host as its handlers leave it.
LEMMA HostStays ==
    ASSUME Shaped, host.await = "none"
    PROVE  /\ host' = host => Stays("none")
           /\ \A x : /\ host' = [host EXCEPT !.action = x] => Stays("none")
                     /\ host' = [host EXCEPT !.granted = x] => Stays("none")
                     /\ host' = [host EXCEPT !.terminal = x] => Stays("none")
                     /\ host' = [host EXCEPT !.final = x] => Stays("none")
                     /\ host' = [host EXCEPT !.pending = x] => Stays("none")
                     /\ host' = [host EXCEPT !.await = x] => Stays(x)
BY DEF Shaped, HostFields, Stays

\* The events that only pass.
LEMMA PlainEvents ==
    ASSUME Inv, Shaped, Placed,
           \/ Ready \/ Dropped \/ TerminalReceipt \/ ContextPrepare \/ CriticResponse
           \/ CommandStarted \/ CommandFinished \/ DeniedAction \/ PlanReceived
    PROVE  Passes
<1>0. PICK type : Reads(type) /\ Handled /\ Event.type = type
  BY EventRead DEF Ready, Dropped, TerminalReceipt, ContextPrepare, CriticResponse, CommandStarted,
        CommandFinished, DeniedAction, PlanReceived, Admitted
<1>1. Takes
  BY <1>0, EventRead
<1>2. host.await = "none"
  BY <1>1 DEF Takes
<1>3. CASE \E kind : Fails(kind)
  BY <1>1, <1>3, FailsPass
<1>4. CASE ~\E kind : Fails(kind)
  <2>1. CASE Ready
    <3>1. run' = run /\ host' = host /\ inbox' = Append(inbox, [type |-> "start"])
      BY <1>4, <2>1 DEF Ready
    <3>2. [type |-> "start"] \in Answers
      BY DEF Answers
    <3>3. Calm
      BY <3>1, <3>2, RowQuiet DEF Calm
    <3>4. Kind(Event) = "early"
      BY <2>1 DEF Ready, Reads, Event, Kind
    <3>5. Keeps(run', Told)
      BY <3>1, RowKeeps DEF Shaped
    <3> QED
      BY <1>1, <1>2, <3>1, <3>3, <3>4, <3>5, HostStays, NotedPass
  <2>2. CASE Dropped
    <3>1. run' = run /\ host' = host /\ inbox' = inbox /\ ~HostRuns
      BY <2>2 DEF Dropped
    <3>2. host'.stopped
      BY <1>1, <3>1 DEF HostRuns, Takes, Placed
    <3>3. Keeps(run', Told)
      BY <3>1, RowKeeps DEF Shaped
    <3> QED
      BY <1>1, <1>2, <3>1, <3>2, <3>3, HostStays, NotedPass DEF Calm
  <2>3. CASE TerminalReceipt
    <3>1. run' = run /\ inbox' = inbox /\ Kind(Event) = "late"
          /\ host' = [host EXCEPT !.terminal = Event.status]
      BY <2>3 DEF TerminalReceipt, Reads, Event, Kind
    <3>2. Keeps(run', Told)
      BY <3>1, RowKeeps DEF Shaped
    <3>3. Calm
      BY <3>1, RowQuiet DEF Calm
    <3> QED
      BY <1>1, <1>2, <3>1, <3>2, <3>3, HostStays, NotedPass
  <2>4. CASE ContextPrepare
    <3>1. run' = run /\ inbox' = inbox /\ Kind(Event) = "early"
          /\ host' = [host EXCEPT !.await = "context"]
      BY <1>4, <2>4 DEF ContextPrepare, Admitted, Reads, Event, Kind
    <3>2. Keeps(run', Told)
      BY <3>1, RowKeeps DEF Shaped
    <3>3. Calm
      BY <3>1, RowQuiet DEF Calm
    <3> QED
      BY <1>1, <1>2, <3>1, <3>2, <3>3, HostStays, NotedPass
  <2>5. CASE CriticResponse
    <3>1. PICK verdict \in {"acceptable", "repair_required", "insufficient_context"} :
            /\ run' = RecordCriticReceipt(run, verdict) /\ host' = host
            /\ inbox' = Append(inbox, [type |-> "verdict", verdict |-> verdict])
      BY <1>4, <2>5 DEF CriticResponse
    <3>2. [type |-> "verdict", verdict |-> verdict] \in Answers
      BY DEF Answers
    <3>3. Keeps(run', Told)
      BY <3>1, RowKeeps DEF Shaped
    <3>4. QuietRow(run')
      BY <3>1, RowQuiet
    <3>5. Calm
      BY <3>1, <3>2, <3>4 DEF Calm
    <3>6. Kind(Event) = "early"
      BY <2>5 DEF CriticResponse, Admitted, Reads, Event, Kind
    <3> QED
      BY <1>1, <1>2, <3>1, <3>3, <3>5, <3>6, HostStays, NotedPass
  <2>6. CASE CommandStarted \/ CommandFinished
    <3>1. /\ run' \in {run, InvalidateCheckpointCheck(run), RecordTool(run)} /\ inbox' = inbox
          /\ host' = host \/ \E x : host' = [host EXCEPT !.action = x]
      BY <1>4, <2>6 DEF CommandStarted, CommandFinished
    <3>2. Keeps(run', Told)
      BY <3>1, RowKeeps DEF Shaped
    <3>3. Calm
      BY <3>1, RowQuiet DEF Calm
    <3>4. Kind(Event) = "early"
      BY <2>6 DEF CommandStarted, CommandFinished, Admitted, Reads, Event, Kind
    <3> QED
      BY <1>1, <1>2, <3>1, <3>2, <3>3, <3>4, HostStays, NotedPass
  <2>7. CASE DeniedAction
    BY <1>4, <2>7 DEF DeniedAction
  <2>8. CASE PlanReceived
    <3>1. run' = [run EXCEPT !.plan = TRUE] /\ inbox' = inbox /\ host' = host
      BY <1>4, <2>8 DEF PlanReceived, Records
    <3>2. Keeps(run', Told)
      BY <3>1, RowKeeps DEF Shaped
    <3>3. Calm
      BY <3>1, RowQuiet DEF Calm
    <3>4. Kind(Event) = "early"
      BY <2>8 DEF PlanReceived, Admitted, Reads, Event, Kind
    <3> QED
      BY <1>1, <1>2, <3>1, <3>2, <3>3, <3>4, HostStays, NotedPass
  <2> QED
    BY <2>1, <2>2, <2>3, <2>4, <2>5, <2>6, <2>7, <2>8
<1> QED
  BY <1>3, <1>4

\* The requests of the worker.
LEMMA RequestEvents ==
    ASSUME Inv, Shaped, RequestPrepare \/ RequestFinished \/ RequestUnsettled
    PROVE  Passes \/ Admits \/ Settles
<1>0. PICK type : Reads(type) /\ Handled /\ Event.type = type
  BY EventRead DEF RequestPrepare, RequestFinished, RequestUnsettled, Admitted
<1>1. Takes
  BY <1>0, EventRead
<1>2. host.await = "none"
  BY <1>1 DEF Takes
<1>3. CASE \E kind : Fails(kind)
  BY <1>1, <1>3, FailsPass
<1>4. CASE RequestPrepare /\ ~\E kind : Fails(kind)
  <2>1. /\ Authorized(Event.phase, Event.call)
        /\ run' = StartRequest(ReserveRequest(run, Event.phase))
        /\ host' = [host EXCEPT !.pending = TRUE]
        /\ inbox' = Append(inbox, [type |-> "admitted"])
    BY <1>4 DEF RequestPrepare
  <2>2. Event.phase \in RequestPhases /\ ~Unresolved(run) /\ Kind(Event) = "prepare"
    BY <1>4, <2>1 DEF Authorized, CanReserve, RequestPrepare, Admitted, Reads, Event, Kind
  <2>3. Keeps(run', Told)
    BY <2>1, RowKeeps DEF Shaped
  <2> QED
    BY <1>1, <1>2, <2>1, <2>2, <2>3, HostStays DEF Admits
<1>5. CASE RequestFinished /\ ~\E kind : Fails(kind)
  <2> DEFINE settled == [host EXCEPT !.pending = FALSE]
  <2>1. /\ host.pending /\ run' = Settle(run, "succeeded", Event.cost) /\ inbox' = inbox
        /\ host' = settled \/ host' = Failed(settled, "ended")
    BY <1>5 DEF RequestFinished
  <2>2. /\ DOMAIN settled = HostFields /\ settled.place = host.place /\ settled.await = "none"
        /\ settled.stopped = host.stopped
    BY <1>2 DEF Shaped, HostFields
  <2> HIDE DEF settled
  <2>3. Stays("none")
    BY <2>1, <2>2, HostFailed DEF Stays
  <2>4. Kind(Event) = "finished"
    BY <1>5 DEF RequestFinished, Admitted, Reads, Event, Kind
  <2>5. Keeps(run', Told)
    BY <2>1, RowKeeps DEF Shaped
  <2> QED
    BY <1>1, <2>1, <2>3, <2>4, <2>5 DEF Settles
<1>6. CASE RequestUnsettled /\ ~\E kind : Fails(kind)
  <2> DEFINE settled == [host EXCEPT !.pending = FALSE]
  <2>1. /\ run' = Settle(run, "unknown", 0) /\ inbox' = inbox
        /\ host' = Failed(settled, "ended")
    BY <1>6 DEF RequestUnsettled
  <2>2. DOMAIN settled = HostFields /\ settled.place = host.place /\ settled.await = "none"
    BY <1>2 DEF Shaped, HostFields
  <2> HIDE DEF settled
  <2>3. Stays("none") /\ host'.stopped
    BY <2>1, <2>2, HostFailed DEF Stays
  <2>4. Keeps(run', Told)
    BY <2>1, RowKeeps DEF Shaped
  <2>5. Calm
    BY <2>1, <2>3 DEF Calm
  <2> QED
    BY <1>1, <2>3, <2>4, <2>5, NotedPass
<1> QED
  BY <1>3, <1>4, <1>5, <1>6

\* Two phases the store may start without an end of the work.
LEMMA PhaseEvents ==
    ASSUME Inv, Shaped, PhaseStarted \/ HandoffReady
    PROVE  Passes \/ Escalates
<1>0. PICK type : Reads(type) /\ Handled /\ Event.type = type
  BY EventRead DEF PhaseStarted, HandoffReady, Admitted
<1>1. Takes
  BY <1>0, EventRead
<1>2. host.await = "none"
  BY <1>1 DEF Takes
<1>3. CASE \E kind : Fails(kind)
  BY <1>1, <1>3, FailsPass
<1>4. CASE PhaseStarted /\ ~\E kind : Fails(kind)
  <2>1. Event.type = "phase" /\ PhaseAllowed(Event.phase)
    BY <1>4 DEF PhaseStarted, Admitted, Reads, Event
  <2>2. Phrased(Event)
    BY <1>1, SaidLess DEF Shaped, Takes, Event
  <2>3. CASE Event.phase = "cloud"
    <3>1. run' = BeginCloudRecovery(run) /\ host' = host /\ inbox' = inbox
      BY <1>4, <2>1, <2>3 DEF PhaseStarted, Records
    <3>2. CanBeginCloudRecovery(run) /\ Kind(Event) = "cloud"
      BY <2>1, <2>3 DEF PhaseAllowed, Kind
    <3> QED
      BY <1>1, <3>1, <3>2 DEF Escalates
  <2>4. CASE Event.phase # "cloud"
    <3>1. Event.phase \in {"planner", "local", "critic"}
      BY <2>1, <2>2, <2>4 DEF Phrased
    <3> DEFINE phase == StorePhase[Event.phase]
    <3>2. phase \in {"cloud_planner", "local_solver", "cloud_critic"}
      BY <3>1 DEF StorePhase
    <3>3. /\ run' = SetPhase(run, phase) /\ inbox' = inbox
          /\ \E x : host' = [host EXCEPT !.granted = x]
      BY <1>4, <2>1, <2>4 DEF PhaseStarted
    <3> HIDE DEF phase
    <3>4. Keeps(run', Told \ {"phase"}) /\ run'.phase = phase
      BY <3>3, RowWrites DEF Shaped
    <3>5. Keeps(run', Told \ {"phase", "handoff"}) /\ run'.handoff = run.handoff
      BY <3>4 DEF Keeps, Told, SameCheck
    <3>6. run.phase \notin {"checking", "cloud_solver"} /\ Kind(Event) = "early"
      BY <2>1, <2>4 DEF PhaseAllowed, Kind
    <3>7. Calm
      BY <3>3, RowQuiet DEF Calm
    <3>8. Stays("none")
      BY <1>2, <3>3, HostStays
    <3> QED
      BY <1>1, <3>2, <3>4, <3>5, <3>6, <3>7, <3>8 DEF Passes
  <2> QED
    BY <2>3, <2>4
<1>5. CASE HandoffReady /\ ~\E kind : Fails(kind)
  <2>1. /\ run.recoveries = 0 /\ run' = [run EXCEPT !.handoff = Event.src] /\ host' = host /\ inbox' = inbox
    BY <1>5 DEF HandoffReady, CanRecordHandoff, Records
  <2>2. Keeps(run', Told \ {"handoff"})
    BY <2>1, RowWrites DEF Shaped
  <2>3. Keeps(run', Told \ {"phase", "handoff"}) /\ run'.phase = run.phase
    BY <2>2 DEF Keeps, Told, SameCheck
  <2>4. Calm
    BY <2>1, RowQuiet DEF Calm
  <2>5. Kind(Event) = "early"
    BY <1>5 DEF HandoffReady, Admitted, Reads, Event, Kind
  <2> QED
    BY <1>1, <1>2, <2>1, <2>3, <2>4, <2>5, HostStays DEF Passes
<1> QED
  BY <1>3, <1>4, <1>5

\* Checks and checkpoints.
LEMMA RouterEvents ==
    ASSUME Inv, Shaped, CheckReceipt \/ RoutingCheckpoint
    PROVE  Passes \/ Judges \/ Checks
<1>0. PICK type : Reads(type) /\ Handled /\ Event.type = type
  BY EventRead DEF CheckReceipt, RoutingCheckpoint, Admitted
<1>1. Takes
  BY <1>0, EventRead
<1>2. host.await = "none"
  BY <1>1 DEF Takes
<1>3. CASE \E kind : Fails(kind)
  BY <1>1, <1>3, FailsPass
<1>4. CASE CheckReceipt /\ ~\E kind : Fails(kind)
  <2>1. /\ CanRecordCheckpointCheck(run, Event.check) /\ run' = RecordCheckpointCheck(run, Event.check)
        /\ inbox' = inbox /\ (host' = host \/ \E x : host' = [host EXCEPT !.action = x])
    BY <1>4 DEF CheckReceipt
  <2>2. Event.type = "checked"
    BY <1>4 DEF CheckReceipt, Admitted, Reads, Event
  <2> QED
    BY <1>1, <1>2, <2>1, <2>2, HostStays DEF Checks
<1>5. CASE RoutingCheckpoint /\ ~\E kind : Fails(kind)
  <2>1. /\ CanRecordCheckpoint(run, Event.cp) /\ run' = RecordCheckpoint(run, Event.cp)
        /\ inbox' = inbox /\ host' = [host EXCEPT !.action = "none"]
    BY <1>5 DEF RoutingCheckpoint
  <2>2. Event.type = "checkpoint"
    BY <1>5 DEF RoutingCheckpoint, Admitted, Reads, Event
  <2> QED
    BY <1>1, <1>2, <2>1, <2>2, HostStays DEF Judges
<1> QED
  BY <1>3, <1>4, <1>5

\* The patch and its check.
LEMMA SubmissionEvents ==
    ASSUME Inv, Shaped, PatchEvent \/ VerificationStarted \/ VerificationFinished
    PROVE  Passes \/ Recovered \/ Files \/ Rebuilds \/ Finals \/ Verifying
<1>0. PICK type : Reads(type) /\ Handled /\ Event.type = type
  BY EventRead DEF PatchEvent, VerificationStarted, VerificationFinished, Admitted
<1>1. Takes
  BY <1>0, EventRead
<1>2. host.await = "none"
  BY <1>1 DEF Takes
<1>3. CASE \E kind : Fails(kind)
  BY <1>1, <1>3, FailsPass
<1>4. CASE PatchEvent /\ ~\E kind : Fails(kind)
  <2>1. Event.type = "patch"
    BY <1>4 DEF PatchEvent, Admitted, Reads, Event
  <2>2. Phrased(Event)
    BY <1>1, SaidLess DEF Shaped, Takes, Event
  <2>3. Event.kind \in {"submitted", "recovered"}
    BY <2>1, <2>2 DEF Phrased
  <2>4. CASE Event.kind = "submitted" /\ Strict
    <3>1. /\ host' = [host EXCEPT !.await = "candidate"] /\ run' = run /\ inbox' = inbox
          /\ run.cp.decision = "submit"
      BY <1>4, <2>4 DEF PatchEvent
    <3>2. Kind(Event) = "patch"
      BY <2>1, <2>4 DEF Kind
    <3> QED
      BY <1>1, <1>2, <2>4, <3>1, <3>2, HostStays DEF Rebuilds, Strict
  <2>5. CASE Event.kind = "submitted" /\ ~Strict
    <3>1. host' = host /\ run' = RecordPatch(run, "submitted", Event.src) /\ inbox' = inbox
      BY <1>4, <2>5 DEF PatchEvent, Records
    <3>2. Kind(Event) = "patch"
      BY <2>1, <2>5 DEF Kind
    <3> QED
      BY <1>1, <3>1, <3>2 DEF Files
  <2>6. CASE Event.kind = "recovered"
    <3>1. host' = host /\ run' = RecordPatch(run, "recovered", Event.src) /\ inbox' = inbox
      BY <1>4, <2>6 DEF PatchEvent, Records
    <3>2. CASE run.patch.kind = "submitted"
      <4>1. run' = run
        BY <3>1, <3>2, RowPatched DEF Shaped
      <4>2. Keeps(run', Told)
        BY <4>1, RowKeeps DEF Shaped
      <4>3. Kind(Event) = "late"
        BY <2>1, <2>6 DEF Kind
      <4>4. Calm
        BY <3>1, <4>1, RowQuiet DEF Calm
      <4> QED
        BY <1>1, <1>2, <3>1, <4>2, <4>3, <4>4, HostStays, NotedPass
    <3>3. CASE run.patch.kind # "submitted"
      BY <1>1, <2>1, <2>6, <3>1, <3>3 DEF Recovered
    <3> QED
      BY <3>2, <3>3
  <2> QED
    BY <2>3, <2>4, <2>5, <2>6
<1>5. CASE VerificationStarted /\ ~\E kind : Fails(kind)
  <2>1. host' = host /\ run' = SetPhase(run, "checking") /\ inbox' = inbox
    BY <1>5 DEF VerificationStarted, Records
  <2>2. Event.type = "verifying" /\ HostRuns
    BY <1>5 DEF VerificationStarted, Admitted, Inert, Reads, Event
  <2> QED
    BY <1>1, <2>1, <2>2 DEF Verifying, Kind
<1>6. CASE VerificationFinished /\ ~\E kind : Fails(kind)
  <2>1. /\ \E x : host' = [host EXCEPT !.final = x]
        /\ inbox' = inbox
        /\ \E status, after : run' = RecordChecks(run, [status |-> status, src |-> Event.src, after |-> after])
    BY <1>6 DEF VerificationFinished
  <2>2. Event.type = "verified"
    BY <1>6 DEF VerificationFinished, Admitted, Reads, Event
  <2> QED
    BY <1>1, <1>2, <2>1, <2>2, HostStays DEF Finals, Kind
<1> QED
  BY <1>3, <1>4, <1>5, <1>6

\* What the host had put off.
LEMMA AwaitedEvents ==
    ASSUME Inv, Shaped, ContextPrepared \/ CandidateVerified
    PROVE  Resumes \/ Confirms
<1> DEFINE resumed == [host EXCEPT !.await = "none"]
           noted   == [resumed EXCEPT !.context = TRUE]
<1>1. /\ DOMAIN resumed = HostFields /\ resumed.place = host.place /\ resumed.await = "none"
      /\ resumed.stopped = host.stopped
  BY DEF Shaped, HostFields
<1>2. CASE ContextPrepared
  <2>1. /\ host.await = "context" /\ w' = w /\ pipe' = pipe
        /\ \/ /\ run' = RecordCriticDraft(run, run.cp.src) /\ host' = noted
              /\ inbox' = Append(inbox, [type |-> "context"])
           \/ host' = Failed(resumed, "ended") /\ run' = run /\ inbox' = inbox
    BY <1>2 DEF ContextPrepared
  <2> HIDE DEF resumed
  <2>2. DOMAIN noted = HostFields /\ noted.place = host.place /\ noted.await = "none" /\ noted.stopped = host.stopped
    BY <1>1 DEF HostFields
  <2> HIDE DEF noted
  <2>3. Stays("none")
    <3>1. CASE host' = noted
      BY <2>2, <3>1 DEF Stays
    <3>2. CASE host' = Failed(resumed, "ended")
      BY <1>1, <3>2, HostFailed DEF Stays
    <3> QED
      BY <2>1, <3>1, <3>2
  <2>4. Keeps(run', Told)
    BY <2>1, RowKeeps DEF Shaped
  <2>5. [type |-> "context"] \in Answers
    BY DEF Answers
  <2>6. QuietRow(run')
    BY <2>1, RowQuiet
  <2>7. Calm
    BY <2>1, <2>5, <2>6 DEF Calm
  <2> QED
    BY <2>1, <2>3, <2>4, <2>7 DEF Resumes
<1>3. CASE CandidateVerified
  <2>1. /\ host.await = "candidate" /\ w' = w /\ pipe' = pipe /\ inbox' = inbox
        /\ \/ /\ CanRecordPatch(run, "submitted", run.cp.src) /\ host' = resumed
              /\ run' = RecordPatch(run, "submitted", run.cp.src)
           \/ run' = run /\ \E kind : host' = Failed(resumed, kind)
    BY <1>3 DEF CandidateVerified
  <2> HIDE DEF resumed
  <2>2. ASSUME NEW kind, host' = Failed(resumed, kind)
        PROVE  Stays("none") /\ host'.stopped
    <3>1. DOMAIN resumed = HostFields
      BY <1>1
    <3>2. /\ DOMAIN host' = HostFields /\ host'.stopped = TRUE
          /\ host'.place = resumed.place /\ host'.await = resumed.await
      BY <2>2, <3>1, HostFailed
    <3> QED
      BY <1>1, <3>2 DEF Stays
  <2>3. host' = resumed => Stays("none")
    BY <1>1 DEF Stays
  <2> QED
    BY <2>1, <2>2, <2>3 DEF Confirms
<1> QED
  BY <1>2, <1>3

\* Every step of the host is one of these, or the end of the run.
LEMMA HostSays ==
    ASSUME Inv, Shaped, Placed, HostNext
    PROVE  \/ Passes \/ Resumes \/ Admits \/ Settles \/ Escalates \/ Judges \/ Checks
           \/ Recovered \/ Files \/ Rebuilds \/ Confirms \/ Finals \/ Verifying \/ WorkerClosed
BY PlainEvents, RequestEvents, PhaseEvents, RouterEvents, SubmissionEvents, AwaitedEvents DEF HostNext

-----------------------------------------------------------------------------
(* What the host files of the submission. *)

\* The fields of a row that the store left alone.
LEMMA KeptFields ==
    ASSUME NEW r, Row(run), NEW F
    PROVE  Keeps(r, F) =>
             /\ DOMAIN r = RowFields /\ DOMAIN r.check = CheckFields
             /\ "policy" \in F => r.policy = run.policy
             /\ "status" \in F => r.status = run.status
             /\ "phase" \in F => r.phase = run.phase
             /\ "cp" \in F => r.cp = run.cp
             /\ "handoff" \in F => r.handoff = run.handoff
             /\ "recoveries" \in F => r.recoveries = run.recoveries
             /\ "patch" \in F => r.patch = run.patch
             /\ "checks" \in F => r.checks = run.checks
             /\ r.check.src = run.check.src /\ r.check.after = run.check.after
             /\ r.check.passed = run.check.passed
BY DEF Keeps, Row, SameCheck

\* A handler of the host in a run that goes on: all that is left to show of the invariant.
LEMMA HostFiles ==
    ASSUME Filing, Row(run'), run'.policy = run.policy, run'.status = run.status, w' = w,
           DOMAIN host' = HostFields, host.place = "working", host'.place = "working",
           IsPipe(pipe'), Formed(pipe'), \A k : Says(pipe', k) => Says(pipe, k),
           w.at \in Opening \cup {"none", "finish"} =>
               /\ run'.patch.kind # "submitted" /\ run'.checks.status = "not_run" /\ run'.phase # "checking"
               /\ host'.await # "candidate",
           w.at \in Opening \cup {"none"} => run'.cp.decision # "submit",
           run'.phase = "checking" => run'.patch.kind = "submitted",
           host'.await = "candidate" => CriticPolicy(run), OneTree', Announced'
    PROVE  Filing'
<1>1. Shaped' /\ Paced(w')
  BY DEF Filing, Shaped
<1>2. Running(run')
  BY DEF Filing, Placed, Running
<1>3. Placed'
  BY <1>2 DEF Filing, Placed, Running
<1>4. Filed'
  BY DEF Filing, Filed, Unfiled, Undecided, Silent, CriticPolicy
<1> QED
  BY <1>1, <1>3, <1>4 DEF Filing

\* What an event leaves in the pipe.
LEMMA Taken ==
    ASSUME Filing, Takes
    PROVE  /\ IsPipe(pipe') /\ Formed(pipe') /\ Phrased(Event)
           /\ \A k : Says(pipe', k) => Says(pipe, k)
           /\ Says(pipe, Kind(Event))
           /\ \A t : Agree(pipe, t) => Agree(pipe', t)
           /\ \A t : Agree(pipe, t) /\ Kind(Event) \in {"submit", "patch", "verified"} => Tree(Event) = t
           /\ \A a, b : Leads(pipe, a, b) => Kind(Event) # b
           /\ \A a, b : Leads(pipe, a, b) /\ Kind(Event) # a => Leads(pipe', a, b)
<1>1. IsPipe(pipe) /\ pipe # <<>> /\ pipe' = Tail(pipe) /\ Formed(pipe)
  BY DEF Filing, Shaped, Takes
<1>2. IsPipe(Tail(pipe)) /\ Says(pipe, Kind(Head(pipe)))
  BY <1>1, Tailed DEF Says
<1> QED
  BY <1>1, <1>2, SaidLess DEF Event

\* Events that file nothing.
LEMMA PassFiles ==
    ASSUME Inv, Filing, Passes
    PROVE  Filing'
<1>1. Takes /\ Keeps(run', Told \ {"phase", "handoff"}) /\ host'.await # "candidate"
  BY DEF Passes, Stays
<1>2. /\ Row(run') /\ run'.policy = run.policy /\ run'.status = run.status /\ run'.cp = run.cp
      /\ run'.patch = run.patch /\ run'.checks = run.checks
  BY <1>1, KeptFields DEF Filing, Shaped, Told, Row
<1>3. /\ IsPipe(pipe') /\ Formed(pipe') /\ \A k : Says(pipe', k) => Says(pipe, k)
  BY <1>1, Taken
<1>4. run'.phase = "checking" => run.phase = "checking"
  BY DEF Passes
<1>5. w' = w /\ DOMAIN host' = HostFields /\ host.place = "working" /\ host'.place = "working"
      /\ (host.stopped => host'.stopped)
  BY DEF Passes, Takes, Stays
<1>6. OneTree'
  <2>1. PICK t : About(t)
    BY DEF Filing, OneTree
  <2>2. Agree(pipe', t)
    BY <1>1, <2>1, Taken DEF About
  <2>3. About(t)'
    BY <1>2, <1>5, <2>1, <2>2 DEF About
  <2> QED
    BY <2>3 DEF OneTree
<1>7. Announced'
  <2>1. SUFFICES ASSUME ~host'.stopped
                 PROVE  run'.patch.kind = "submitted" \/ Leads(pipe', "patch", "verifying")
    BY DEF Announced, Live
  <2>2. Kind(Event) # "patch"
    BY <2>1 DEF Passes
  <2>3. run.patch.kind = "submitted" \/ Leads(pipe, "patch", "verifying")
    BY <1>1, <1>5, <2>1 DEF Filing, Announced, Live, Takes
  <2>4. Leads(pipe, "patch", "verifying") => Leads(pipe', "patch", "verifying")
    BY <1>1, <2>2, Taken
  <2> QED
    BY <1>2, <2>3, <2>4
<1>8. /\ w.at \in Opening \cup {"none", "finish"} => Unfiled
      /\ w.at \in Opening \cup {"none"} => Undecided
      /\ run.phase = "checking" => run.patch.kind = "submitted"
  BY DEF Filing, Filed
<1> QED
  BY <1>1, <1>2, <1>3, <1>4, <1>5, <1>6, <1>7, <1>8, HostFiles DEF Unfiled, Undecided

\* A row whose submission is as before, after an event that reports none.
LEMMA SameFiles ==
    ASSUME Inv, Filing, Takes, Stays("none"), Kind(Event) # "patch", Row(run'), run'.policy = run.policy,
           run'.status = run.status, run'.cp = run.cp, run'.patch = run.patch, run'.checks = run.checks,
           run'.phase = "checking" => run.phase = "checking" \/ run.patch.kind = "submitted",
           run'.phase = "checking" /\ run.phase # "checking" => w.at \notin Opening \cup {"none", "finish"}
    PROVE  Filing'
<1>3. /\ IsPipe(pipe') /\ Formed(pipe') /\ \A k : Says(pipe', k) => Says(pipe, k)
  BY Taken
<1>5. w' = w /\ DOMAIN host' = HostFields /\ host.place = "working" /\ host'.place = "working"
      /\ host'.await # "candidate" /\ (host.stopped => host'.stopped)
  BY DEF Takes, Stays
<1>6. OneTree'
  <2>1. PICK t : About(t)
    BY DEF Filing, OneTree
  <2>2. Agree(pipe', t)
    BY <2>1, Taken DEF About
  <2>3. About(t)'
    BY <1>5, <2>1, <2>2 DEF About
  <2> QED
    BY <2>3 DEF OneTree
<1>7. Announced'
  <2>1. SUFFICES ASSUME ~host'.stopped
                 PROVE  run'.patch.kind = "submitted" \/ Leads(pipe', "patch", "verifying")
    BY DEF Announced, Live
  <2>3. run.patch.kind = "submitted" \/ Leads(pipe, "patch", "verifying")
    BY <1>5, <2>1 DEF Filing, Announced, Live, Takes
  <2>4. Leads(pipe, "patch", "verifying") => Leads(pipe', "patch", "verifying")
    BY Taken
  <2> QED
    BY <2>3, <2>4
<1>8. /\ w.at \in Opening \cup {"none", "finish"} => Unfiled
      /\ w.at \in Opening \cup {"none"} => Undecided
      /\ run.phase = "checking" => run.patch.kind = "submitted"
  BY DEF Filing, Filed
<1> QED
  BY <1>3, <1>5, <1>6, <1>7, <1>8, HostFiles DEF Unfiled, Undecided

\* Requests, the cloud's start, checks, and the start of the final check.
LEMMA RequestFiles ==
    ASSUME Inv, Filing, Admits \/ Settles \/ Escalates \/ Checks \/ Verifying
    PROVE  Filing'
<1>1. Takes /\ Stays("none") /\ Kind(Event) # "patch"
  <2>1. Takes /\ Kind(Event) # "patch"
    BY DEF Admits, Settles, Escalates, Checks, Verifying, Kind
  <2>2. Stays("none")
    BY <2>1, HostStays DEF Admits, Settles, Escalates, Checks, Verifying, Filing, Takes
  <2> QED
    BY <2>1, <2>2
<1>2. CASE Admits \/ Settles
  <2>1. Keeps(run', Told)
    BY <1>2 DEF Admits, Settles
  <2> QED
    BY <1>1, <2>1, KeptFields, SameFiles DEF Filing, Shaped, Told, Row
<1>3. CASE Escalates
  <2>1. Keeps(run', Told \ {"phase", "recoveries"}) /\ run'.phase = "cloud_solver"
    BY <1>3, RowWrites DEF Escalates, Filing, Shaped
  <2> QED
    BY <1>1, <2>1, KeptFields, SameFiles DEF Filing, Shaped, Told, Row
<1>4. CASE Checks
  <2>1. DOMAIN Event.check = CheckFields
    BY <1>1, <1>4, Taken DEF Checks, Phrased
  <2>2. Row(run') /\ \A f \in Told : run'[f] = run[f]
    BY <1>4, <2>1, RowWrites DEF Checks, Filing, Shaped
  <2>3. /\ run'.policy = run.policy /\ run'.status = run.status /\ run'.cp = run.cp /\ run'.patch = run.patch
        /\ run'.checks = run.checks /\ run'.phase = run.phase
    BY <2>2 DEF Told
  <2> QED
    BY <1>1, <2>2, <2>3, SameFiles
<1>5. CASE Verifying
  <2>1. Keeps(run', Told \ {"phase"})
    BY <1>5, RowWrites DEF Verifying, Filing, Shaped
  <2>2. Says(pipe, "verifying")
    BY <1>1, <1>5, Taken DEF Verifying
  <2>3. w.at \notin Opening \cup {"none", "finish"}
    BY <2>2 DEF Filing, Filed, Unfiled, Silent
  <2>4. run.patch.kind = "submitted"
    <3>1. Live /\ host.await # "candidate"
      BY <1>1, <1>5 DEF Verifying, HostRuns, Takes, Live
    <3>2. ~Leads(pipe, "patch", "verifying")
      BY <1>1, <1>5, Taken DEF Verifying
    <3> QED
      BY <3>1, <3>2 DEF Filing, Announced
  <2> QED
    BY <1>1, <2>1, <2>3, <2>4, KeptFields, SameFiles DEF Filing, Shaped, Told, Row
<1> QED
  BY <1>2, <1>3, <1>4, <1>5

\* A checkpoint is about the tree of the submission if it decides to submit.
LEMMA JudgeFiles ==
    ASSUME Inv, Filing, Judges
    PROVE  Filing'
<1>1. /\ Takes /\ Stays("none") /\ Event.type = "checkpoint" /\ run' = RecordCheckpoint(run, Event.cp)
      /\ Kind(Event) = IF Event.cp.decision = "submit" THEN "submit" ELSE "early"
  BY DEF Judges, Kind
<1>2. Keeps(run', Told \ {"cp"}) /\ run'.cp = Event.cp
  BY <1>1, RowWrites DEF Filing, Shaped
<1>3. /\ Row(run') /\ run'.policy = run.policy /\ run'.status = run.status /\ run'.phase = run.phase
      /\ run'.patch = run.patch /\ run'.checks = run.checks
  BY <1>2, KeptFields DEF Filing, Shaped, Told, Row
<1>4. /\ IsPipe(pipe') /\ Formed(pipe') /\ \A k : Says(pipe', k) => Says(pipe, k)
  BY <1>1, Taken
<1>5. w' = w /\ DOMAIN host' = HostFields /\ host.place = "working" /\ host'.place = "working"
      /\ host'.await = "none" /\ (host.stopped => host'.stopped) /\ host.await = "none"
  BY <1>1 DEF Takes, Stays
<1>6. OneTree'
  <2>1. PICK t : About(t)
    BY DEF Filing, OneTree
  <2>2. Agree(pipe', t) /\ (Kind(Event) = "submit" => Tree(Event) = t)
    BY <1>1, <2>1, Taken DEF About
  <2>3. run'.cp.decision = "submit" => run'.cp.src = t
    BY <1>1, <1>2, <2>2 DEF Tree
  <2>4. About(t)'
    BY <1>3, <1>5, <2>1, <2>2, <2>3 DEF About
  <2> QED
    BY <2>4 DEF OneTree
<1>7. Announced'
  <2>1. Leads(pipe, "patch", "verifying") => Leads(pipe', "patch", "verifying")
    BY <1>1, Taken
  <2> QED
    BY <1>3, <1>5, <2>1 DEF Filing, Announced, Live
<1>8. w.at \in Opening \cup {"none"} => run'.cp.decision # "submit"
  <2>1. Says(pipe, Kind(Event))
    BY <1>1, Taken
  <2> QED
    BY <1>1, <1>2, <2>1 DEF Filing, Filed, Undecided
<1>9. /\ w.at \in Opening \cup {"none", "finish"} => Unfiled
      /\ run.phase = "checking" => run.patch.kind = "submitted"
  BY DEF Filing, Filed
<1> QED
  BY <1>3, <1>4, <1>5, <1>6, <1>7, <1>8, <1>9, HostFiles DEF Unfiled

\* The patch of the submission, and edits that were kept.
LEMMA PatchFiles ==
    ASSUME Inv, Filing, Recovered \/ Files \/ Rebuilds
    PROVE  Filing'
<1>1. /\ Takes /\ Event.type = "patch" /\ inbox' = inbox
      /\ Recovered => Kind(Event) = "late"
      /\ Files \/ Rebuilds => Kind(Event) = "patch"
  BY DEF Recovered, Files, Rebuilds, Kind
<1>2. /\ IsPipe(pipe') /\ Formed(pipe') /\ \A k : Says(pipe', k) => Says(pipe, k)
  BY <1>1, Taken
<1>3. w' = w /\ host.place = "working" /\ host.await = "none" /\ DOMAIN host = HostFields
  BY <1>1 DEF Takes, Filing, Shaped
<1>4. /\ w.at \in Opening \cup {"none", "finish"} => Unfiled
      /\ w.at \in Opening \cup {"none"} => Undecided
      /\ run.phase = "checking" => run.patch.kind = "submitted"
  BY DEF Filing, Filed
<1>5. PICK t : About(t)
  BY DEF Filing, OneTree
<1>6. Agree(pipe', t) /\ (Kind(Event) = "patch" => Tree(Event) = t)
  BY <1>1, <1>5, Taken DEF About
<1>7. Kind(Event) = "patch" => w.at \notin Opening \cup {"none", "finish"} /\ Event.src = t
  <2>1. Says(pipe, Kind(Event))
    BY <1>1, Taken
  <2> QED
    BY <1>4, <1>6, <2>1 DEF Unfiled, Silent, Tree
<1>8. CASE Recovered
  <2>1. /\ Keeps(run', Told \ {"patch", "checks"}) /\ run'.patch.kind = "recovered"
        /\ run'.checks.status = "not_run" /\ run.patch.kind # "submitted" /\ host' = host
    BY <1>8, RowPatched DEF Recovered, Filing, Shaped
  <2>2. /\ Row(run') /\ run'.policy = run.policy /\ run'.status = run.status /\ run'.phase = run.phase
        /\ run'.cp = run.cp
    BY <2>1, KeptFields DEF Filing, Shaped, Told, Row
  <2>3. About(t)'
    BY <1>3, <1>5, <1>6, <2>1, <2>2 DEF About
  <2>4. Leads(pipe, "patch", "verifying") => Leads(pipe', "patch", "verifying")
    BY <1>1, <1>8, Taken
  <2>5. Announced'
    BY <1>3, <2>1, <2>4 DEF Filing, Announced, Live
  <2> QED
    BY <1>2, <1>3, <1>4, <2>1, <2>2, <2>3, <2>5, HostFiles DEF Unfiled, Undecided, OneTree
<1>9. CASE Files
  <2>1. /\ Keeps(run', Told \ {"patch"}) /\ run'.patch = [kind |-> "submitted", src |-> Event.src] /\ host' = host
    BY <1>9, RowPatched DEF Files, Filing, Shaped
  <2>2. /\ Row(run') /\ run'.policy = run.policy /\ run'.status = run.status /\ run'.phase = run.phase
        /\ run'.cp = run.cp /\ run'.checks = run.checks
    BY <2>1, KeptFields DEF Filing, Shaped, Told, Row
  <2>3. Kind(Event) = "patch"
    BY <1>1, <1>9
  <2>4. About(t)'
    BY <1>3, <1>5, <1>6, <1>7, <2>1, <2>2, <2>3 DEF About
  <2>5. run'.patch.kind = "submitted"
    BY <2>1
  <2>6. Announced'
    BY <2>5 DEF Announced
  <2> QED
    BY <1>2, <1>3, <1>4, <1>7, <2>1, <2>2, <2>3, <2>4, <2>5, <2>6, HostFiles DEF Undecided, OneTree
<1>10. CASE Rebuilds
  <2>1. /\ run' = run /\ DOMAIN host' = HostFields /\ host'.place = host.place /\ host'.await = "candidate"
        /\ CriticPolicy(run) /\ Kind(Event) = "patch"
    BY <1>10 DEF Rebuilds, Stays
  <2>2. About(t)'
    BY <1>3, <1>5, <1>6, <2>1 DEF About
  <2>3. Announced'
    BY <2>1 DEF Announced
  <2> QED
    BY <1>2, <1>3, <1>4, <1>7, <2>1, <2>2, <2>3, HostFiles DEF Undecided, OneTree, Filing, Shaped
<1> QED
  BY <1>8, <1>9, <1>10

\* What was put off, and the receipt of the final check.
LEMMA AwaitedFiles ==
    ASSUME Inv, Filing, Resumes \/ Confirms \/ Finals
    PROVE  Filing'
<1>1. /\ w' = w /\ DOMAIN host' = HostFields /\ host'.await = "none" /\ (host.stopped => host'.stopped)
      /\ host'.place = host.place /\ host.place = "working" /\ Shaped
  BY DEF Resumes, Confirms, Finals, Takes, Stays, Filing, Placed
<1>2. /\ w.at \in Opening \cup {"none", "finish"} => Unfiled
      /\ w.at \in Opening \cup {"none"} => Undecided
      /\ run.phase = "checking" => run.patch.kind = "submitted"
  BY DEF Filing, Filed
<1>3. PICK t : About(t)
  BY DEF Filing, OneTree
<1>4. CASE Resumes
  <2>1. pipe' = pipe /\ Keeps(run', Told) /\ host.await = "context"
    BY <1>4 DEF Resumes
  <2>2. /\ Row(run') /\ run'.policy = run.policy /\ run'.status = run.status /\ run'.phase = run.phase
        /\ run'.cp = run.cp /\ run'.patch = run.patch /\ run'.checks = run.checks
    BY <1>1, <2>1, KeptFields DEF Shaped, Told, Row
  <2>3. About(t)'
    BY <1>1, <1>3, <2>1, <2>2 DEF About
  <2>4. Announced'
    BY <1>1, <2>1, <2>2 DEF Filing, Announced, Live
  <2> QED
    BY <1>1, <1>2, <2>1, <2>2, <2>3, <2>4, HostFiles DEF Unfiled, Undecided, OneTree, Shaped
<1>5. CASE Confirms /\ run' = run
  <2>1. pipe' = pipe /\ host.await = "candidate"
    BY <1>5 DEF Confirms
  <2>2. About(t)'
    BY <1>1, <1>3, <1>5, <2>1 DEF About
  <2>3. run.patch.kind = "submitted" \/ host'.stopped
    <3>1. RecordPatch(run, "submitted", run.cp.src).patch = [kind |-> "submitted", src |-> run.cp.src]
      BY <1>1, RowPatched DEF Shaped
    <3> QED
      BY <1>5, <3>1 DEF Confirms
  <2>4. Announced'
    BY <1>5, <2>3 DEF Announced, Live
  <2> QED
    BY <1>1, <1>2, <1>5, <2>1, <2>2, <2>4, HostFiles DEF Unfiled, Undecided, OneTree, Shaped
<1>6. CASE Confirms /\ run' # run
  <2>1. /\ pipe' = pipe /\ host.await = "candidate" /\ CanRecordPatch(run, "submitted", run.cp.src)
        /\ run' = RecordPatch(run, "submitted", run.cp.src)
    BY <1>6 DEF Confirms
  <2>2. run.cp.decision = "submit"
    BY <2>1 DEF Filing, Filed, CanRecordPatch
  <2>3. Keeps(run', Told \ {"patch"}) /\ run'.patch = [kind |-> "submitted", src |-> run.cp.src]
    BY <1>1, <2>1, RowPatched DEF Shaped
  <2>4. /\ Row(run') /\ run'.policy = run.policy /\ run'.status = run.status /\ run'.phase = run.phase
        /\ run'.cp = run.cp /\ run'.checks = run.checks
    BY <1>1, <2>3, KeptFields DEF Shaped, Told, Row
  <2>5. About(t)'
    BY <1>1, <1>3, <2>1, <2>2, <2>3, <2>4 DEF About
  <2>6. run'.patch.kind = "submitted"
    BY <2>3
  <2>7. Announced'
    BY <2>6 DEF Announced
  <2>8. w.at \notin Opening \cup {"none", "finish"}
    BY <1>2, <2>1 DEF Unfiled
  <2> QED
    BY <1>1, <1>2, <2>1, <2>4, <2>5, <2>6, <2>7, <2>8, HostFiles DEF OneTree, Shaped
<1>7. CASE Finals
  <2>1. PICK status, after : run' = RecordChecks(run, [status |-> status, src |-> Event.src, after |-> after])
    BY <1>7 DEF Finals
  <2>2. Takes /\ Kind(Event) = "verified"
    BY <1>7 DEF Finals
  <2> DEFINE checks == [status |-> status, src |-> Event.src, after |-> after]
  <2>3. Keeps(run', Told \ {"checks"}) /\ run'.checks = checks /\ checks.src = Event.src
    BY <1>1, <2>1, RowWrites DEF Shaped
  <2> HIDE DEF checks
  <2>4. /\ Row(run') /\ run'.policy = run.policy /\ run'.status = run.status /\ run'.phase = run.phase
        /\ run'.cp = run.cp /\ run'.patch = run.patch
    BY <1>1, <2>3, KeptFields DEF Shaped, Told, Row
  <2>5. /\ IsPipe(pipe') /\ Formed(pipe') /\ \A k : Says(pipe', k) => Says(pipe, k)
    BY <2>2, Taken
  <2>6. Says(pipe, "verified") /\ Agree(pipe', t) /\ Event.src = t
    <3>1. Says(pipe, "verified")
      BY <2>2, Taken
    <3>2. Agree(pipe', t) /\ Tree(Event) = t
      BY <1>3, <2>2, Taken DEF About
    <3> QED
      BY <2>2, <3>1, <3>2 DEF Tree
  <2>7. w.at \notin Opening \cup {"none", "finish"}
    BY <1>2, <2>6 DEF Unfiled, Silent
  <2>8. About(t)'
    BY <1>1, <1>3, <2>3, <2>4, <2>6 DEF About
  <2>9. Leads(pipe, "patch", "verifying") => Leads(pipe', "patch", "verifying")
    BY <2>2, Taken
  <2>10. Announced'
    BY <1>1, <2>2, <2>4, <2>9 DEF Filing, Announced, Live, Takes
  <2> QED
    BY <1>1, <1>2, <2>4, <2>5, <2>7, <2>8, <2>10, HostFiles DEF OneTree
<1> QED
  BY <1>4, <1>5, <1>6, <1>7

-----------------------------------------------------------------------------
(* The controller, and the end of a run. *)

\* A new row, a new host and a new worker.
LEMMA NewShapes ==
    /\ \A policy : LET r == NewRun(policy)
                   IN  /\ Row(r) /\ r.status = "created" /\ r.phase = "pending" /\ r.cp.decision # "submit"
                       /\ r.patch.kind = "none" /\ r.checks.status = "not_run" /\ r.recoveries = 0
                       /\ r.check.passed = FALSE
    /\ DOMAIN NewHost = HostFields /\ NewHost.place = "idle" /\ NewHost.await = "none"
    /\ DOMAIN NoWorker = WorkerFields /\ DOMAIN NoWorker.r = RouterFields /\ NoWorker.at = "none"
    /\ NoWorker.orphan = FALSE
<1>1. ASSUME NEW policy
      PROVE  LET r == NewRun(policy)
             IN  /\ Row(r) /\ r.status = "created" /\ r.phase = "pending" /\ r.cp.decision # "submit"
                 /\ r.patch.kind = "none" /\ r.checks.status = "not_run" /\ r.recoveries = 0
                 /\ r.check.passed = FALSE
  <2> DEFINE r == NewRun(policy)
  <2>1. DOMAIN r = RowFields /\ r.cp = NoRouter /\ r.check = NoCheck /\ r.status = "created"
        /\ r.phase = "pending" /\ r.patch.kind = "none" /\ r.checks.status = "not_run" /\ r.recoveries = 0
    BY DEF NewRun, RowFields
  <2> HIDE DEF r
  <2>2. Row(r) /\ r.cp.decision # "submit" /\ r.check.passed = FALSE
    BY <2>1 DEF Row, NoCheck, CheckFields, NoRouter
  <2>3. /\ Row(r) /\ r.status = "created" /\ r.phase = "pending" /\ r.cp.decision # "submit"
        /\ r.patch.kind = "none" /\ r.checks.status = "not_run" /\ r.recoveries = 0
        /\ r.check.passed = FALSE
    BY <2>1, <2>2
  <2> QED
    BY <2>3 DEF r
<1>2. DOMAIN NewHost = HostFields /\ NewHost.place = "idle" /\ NewHost.await = "none"
  BY DEF NewHost, HostFields
<1>3. DOMAIN NoWorker = WorkerFields /\ NoWorker.r = NoRouter /\ NoWorker.at = "none" /\ NoWorker.orphan = FALSE
  BY DEF NoWorker, WorkerFields
<1>4. DOMAIN NoRouter = RouterFields
  BY DEF NoRouter, RouterFields
<1> QED
  BY <1>1, <1>2, <1>3, <1>4

\* The invariant holds of a run that was created.
LEMMA InitFiles == Init => Filing
<1> SUFFICES ASSUME Init
             PROVE  Filing
  OBVIOUS
<1>1. PICK policy \in Policies : run = NewRun(policy)
  BY DEF Init
<1>2. host = NewHost /\ w = NoWorker /\ pipe = <<>> /\ inbox = <<>>
  BY DEF Init
<1>3. /\ Row(run) /\ run.status = "created" /\ run.phase = "pending" /\ run.cp.decision # "submit"
      /\ run.patch.kind = "none" /\ run.checks.status = "not_run" /\ run.recoveries = 0
      /\ run.check.passed = FALSE
  BY <1>1, NewShapes
<1>4. /\ DOMAIN host = HostFields /\ host.place = "idle" /\ host.await = "none"
      /\ DOMAIN w = WorkerFields /\ DOMAIN w.r = RouterFields /\ w.at = "none"
  BY <1>2, NewShapes
<1>5. IsPipe(pipe) /\ Formed(pipe) /\ (\A k : ~Says(pipe, k)) /\ (\A t : Agree(pipe, t))
  BY <1>2, Single
<1>6. Shaped /\ Paced(w)
  BY <1>3, <1>4, <1>5 DEF Shaped, Paced
<1>7. Unfiled /\ Undecided
  BY <1>3, <1>4, <1>5 DEF Unfiled, Undecided, Silent
<1>8. Placed
  BY <1>2, <1>3, <1>4, <1>7 DEF Placed, Fresh
<1>9. Filed
  BY <1>3, <1>4, <1>7 DEF Filed
<1>10. About(Base)
  BY <1>3, <1>4, <1>5 DEF About
<1>11. Announced
  BY <1>4 DEF Announced, Live
<1> QED
  BY <1>6, <1>8, <1>9, <1>10, <1>11 DEF Filing, OneTree

\* The end of a run, its host idle.
LEMMA EndFiles ==
    ASSUME Filing, NEW status, status # "created", status # "running", run' = Finish(run, status),
           w' = w, pipe' = pipe, DOMAIN host' = HostFields, host'.place = "idle", host'.await = "none"
    PROVE  Filing'
<1>1. Keeps(run', Told \ {"status", "phase"}) /\ run'.status = status /\ run'.phase = "finished"
  BY RowFinished DEF Filing, Shaped
<1>2. /\ Row(run') /\ run'.policy = run.policy /\ run'.cp = run.cp /\ run'.patch = run.patch
      /\ run'.checks = run.checks
  BY <1>1, KeptFields DEF Filing, Shaped, Told, Row
<1>3. Shaped' /\ Paced(w')
  BY <1>2 DEF Filing, Shaped
<1>4. Placed'
  BY <1>1 DEF Placed
<1>5. Filed'
  BY <1>1, <1>2 DEF Filing, Filed, Unfiled, Undecided, Silent
<1>6. PICK t : About(t)
  BY DEF Filing, OneTree
<1>7. About(t)'
  BY <1>2, <1>6 DEF About
<1>8. Announced'
  BY DEF Announced, Live
<1> QED
  BY <1>3, <1>4, <1>5, <1>7, <1>8 DEF Filing, OneTree

\* A row that kept what was filed, and a host that is no longer ahead.
LEMMA IdleFiles ==
    ASSUME Filing, Row(run'), run'.policy = run.policy, run'.status = run.status, run'.phase = run.phase,
           run'.cp = run.cp, run'.recoveries = run.recoveries, run'.patch = run.patch, run'.checks = run.checks,
           run'.check.passed = run.check.passed, inbox' = inbox,
           DOMAIN w' = WorkerFields, w'.r = w.r, w'.at = w.at, w'.live = w.live, w'.phase = w.phase,
           pipe' \in {pipe, <<>>}, DOMAIN host' = HostFields, host'.place = "idle", host'.await = "none"
    PROVE  Filing'
<1>1. /\ IsPipe(pipe') /\ Formed(pipe') /\ (\A k : Says(pipe', k) => Says(pipe, k))
      /\ \A t : Agree(pipe, t) => Agree(pipe', t)
  BY Single DEF Filing, Shaped
<1>2. Shaped' /\ Paced(w')
  BY <1>1 DEF Filing, Shaped, Paced
<1>3. Unfiled => Unfiled'
  BY <1>1 DEF Unfiled, Silent
<1>4. Placed'
  BY <1>3 DEF Filing, Placed, Fresh
<1>5. Filed'
  BY <1>1, <1>3 DEF Filing, Filed, Undecided
<1>6. PICK t : About(t)
  BY DEF Filing, OneTree
<1>7. About(t)'
  BY <1>1, <1>6 DEF About
<1>8. Announced'
  BY DEF Announced, Live
<1> QED
  BY <1>2, <1>4, <1>5, <1>7, <1>8 DEF Filing, OneTree

\* A run that starts has filed nothing.
LEMMA StartFiles ==
    ASSUME Inv, Filing, StartRun \/ Launch
    PROVE  Filing'
<1>1. CASE StartRun
  <2>1. /\ run.status = "created" /\ run' = Start(run) /\ host' = [host EXCEPT !.place = "preparing"]
        /\ host.place = "idle" /\ UNCHANGED <<w, pipe, inbox>>
    BY <1>1 DEF StartRun
  <2>2. /\ Keeps(run', Told \ {"status", "phase"}) /\ run'.status = "running" /\ run'.phase = "preparing"
    BY <2>1, RowWrites DEF Filing, Shaped
  <2>3. /\ Row(run') /\ run'.policy = run.policy /\ run'.cp = run.cp /\ run'.patch = run.patch
        /\ run'.checks = run.checks /\ run'.recoveries = run.recoveries /\ run'.check.passed = run.check.passed
    BY <2>2, KeptFields DEF Filing, Shaped, Told, Row
  <2>4. DOMAIN host' = HostFields /\ host'.place = "preparing" /\ host'.await = "none"
    BY <2>1 DEF Filing, Shaped, Placed, HostFields
  <2>5. Fresh
    BY <2>1 DEF Filing, Placed
  <2>6. Shaped' /\ Paced(w')
    BY <2>1, <2>3, <2>4 DEF Filing, Shaped
  <2>7. Unfiled'
    BY <2>1, <2>2, <2>3, <2>4, <2>5 DEF Fresh, Unfiled, Silent
  <2>8. Placed'
    BY <2>1, <2>2, <2>3, <2>4, <2>5, <2>7 DEF Placed, Running, Fresh
  <2>9. Filed'
    BY <2>1, <2>2, <2>3, <2>4, <2>7 DEF Filing, Filed, Undecided
  <2>10. PICK t : About(t)
    BY DEF Filing, OneTree
  <2>11. About(t)'
    BY <2>1, <2>3, <2>10 DEF About
  <2>12. Announced'
    BY <2>4 DEF Announced, Live
  <2> QED
    BY <2>6, <2>8, <2>9, <2>11, <2>12 DEF Filing, OneTree
<1>2. CASE Launch
  <2> DEFINE ready == [type |-> "ready"]
  <2>1. /\ host.place = "preparing" /\ run' = SetPhase(run, "preparing") /\ Running(run)
        /\ host' = [host EXCEPT !.place = "working"]
        /\ w' = [NoWorker EXCEPT !.at = "boot"] /\ pipe' = <<ready>> /\ inbox' = inbox
    BY <1>2 DEF Launch, CanSetPhase
  <2>2. Kind(ready) = "early" /\ Phrased(ready)
    BY DEF Kind, Phrased
  <2> HIDE DEF ready
  <2>3. /\ IsPipe(pipe') /\ Formed(pipe') /\ (\A t : Agree(pipe', t)) /\ \A k : Says(pipe', k) => k = "early"
    BY <2>1, <2>2, Single
  <2>4. Keeps(run', Told \ {"phase"}) /\ run'.phase = "preparing"
    BY <2>1, RowWrites DEF Filing, Shaped
  <2>5. /\ Row(run') /\ run'.policy = run.policy /\ run'.status = run.status /\ run'.cp = run.cp
        /\ run'.patch = run.patch /\ run'.checks = run.checks
    BY <2>4, KeptFields DEF Filing, Shaped, Told, Row
  <2>6. DOMAIN host' = HostFields /\ host'.place = "working" /\ host'.await = "none"
    BY <2>1 DEF Filing, Shaped, Placed, HostFields
  <2>7. /\ DOMAIN w' = WorkerFields /\ DOMAIN w'.r = RouterFields /\ w'.at = "boot" /\ w'.orphan = FALSE
    BY <2>1, NewShapes DEF WorkerFields
  <2>8. Fresh
    BY <2>1 DEF Filing, Placed
  <2>9. Shaped' /\ Paced(w')
    BY <2>3, <2>5, <2>6, <2>7 DEF Shaped, Paced
  <2>10. Unfiled' /\ Undecided'
    BY <2>3, <2>4, <2>5, <2>6, <2>8 DEF Fresh, Unfiled, Undecided, Silent
  <2>11. Placed'
    BY <2>1, <2>5, <2>6, <2>7 DEF Placed, Running
  <2>12. Filed'
    BY <2>4, <2>6, <2>10 DEF Filed
  <2>13. About(Base)'
    BY <2>3, <2>5, <2>7, <2>8 DEF About, Fresh, Unfiled, Undecided
  <2>14. Announced'
    BY <2>3 DEF Announced, Leads, Says
  <2> QED
    BY <2>9, <2>11, <2>12, <2>13, <2>14 DEF Filing, OneTree
<1> QED
  BY <1>1, <1>2

\* The user, the clock, a crash and a restart file nothing of a submission.
LEMMA ControllerFiles ==
    ASSUME Inv, Filing,
           \/ StartRun \/ Preparation \/ Cancel \/ Decide \/ Crash \/ CrashInAdmission \/ Restart
           \/ HostDeadline
    PROVE  Filing'
<1>0. Row(run) /\ DOMAIN host = HostFields /\ DOMAIN w = WorkerFields /\ (host.await # "none" => host.place = "working")
  BY DEF Filing, Shaped, Placed
<1>1. CASE NotLaunched
  <2>1. /\ \E status \in {"cancelled", "blocked", "failed"} : run' = Finish(run, status)
        /\ host' = [host EXCEPT !.place = "idle"] /\ host.place = "preparing" /\ UNCHANGED <<w, pipe>>
    BY <1>1 DEF NotLaunched
  <2>2. DOMAIN host' = HostFields /\ host'.place = "idle" /\ host'.await = "none"
    BY <1>0, <2>1 DEF HostFields
  <2> QED
    BY <2>1, <2>2, EndFiles
<1>2. CASE Cancel /\ host.place = "idle"
  <2>1. run' = Finish(run, "cancelled") /\ UNCHANGED <<host, w, pipe>>
    BY <1>2 DEF Cancel
  <2> QED
    BY <1>0, <1>2, <2>1, EndFiles
<1>3. CASE (Cancel /\ host.place # "idle") \/ HostDeadline
  <2>1. /\ UNCHANGED <<run, w, pipe, inbox>> /\ DOMAIN host' = HostFields /\ host'.place = host.place
        /\ host'.await = host.await /\ (host'.place = "working" => host'.stopped)
    <3>1. CASE Cancel /\ host.place # "idle"
      <4>1. /\ UNCHANGED <<run, w, pipe, inbox>>
            /\ host' = [host EXCEPT !.cancelled = TRUE, !.stopped = @ \/ host.place = "working"]
        BY <3>1 DEF Cancel
      <4> QED
        BY <1>0, <4>1 DEF HostFields
    <3>2. CASE HostDeadline
      <4>1. UNCHANGED <<run, w, pipe, inbox>> /\ host' = Failed(host, "ended")
        BY <3>2 DEF HostDeadline
      <4> QED
        BY <1>0, <4>1, HostFailed
    <3> QED
      BY <1>3, <3>1, <3>2
  <2>2. Shaped' /\ Paced(w')
    BY <2>1 DEF Filing, Shaped
  <2>3. Placed' /\ Filed'
    BY <2>1 DEF Filing, Placed, Fresh, Filed, Unfiled, Undecided, Silent, Running, CriticPolicy
  <2>4. PICK t : About(t)
    BY DEF Filing, OneTree
  <2>5. About(t)'
    BY <2>1, <2>4 DEF About
  <2>6. Announced'
    BY <2>1 DEF Announced, Live
  <2> QED
    BY <2>2, <2>3, <2>5, <2>6 DEF Filing, OneTree
<1>4. CASE Decide
  <2>1. PICK decision : run' = [run EXCEPT !.decision = decision]
    BY <1>4 DEF Decide
  <2>2. UNCHANGED <<host, w, pipe, inbox>>
    BY <1>4 DEF Decide
  <2>3. Keeps(run', Told)
    BY <1>0, <2>1, RowKeeps
  <2>4. /\ Row(run') /\ run'.policy = run.policy /\ run'.status = run.status /\ run'.phase = run.phase
        /\ run'.cp = run.cp /\ run'.patch = run.patch /\ run'.checks = run.checks
        /\ run'.recoveries = run.recoveries /\ run'.check.passed = run.check.passed
    BY <1>0, <2>3, KeptFields DEF Told, Row
  <2>5. Shaped' /\ Paced(w')
    BY <2>2, <2>4 DEF Filing, Shaped
  <2>6. Placed' /\ Filed'
    BY <2>2, <2>4 DEF Filing, Placed, Fresh, Filed, Unfiled, Undecided, Silent, Running, CriticPolicy
  <2>7. PICK t : About(t)
    BY DEF Filing, OneTree
  <2>8. About(t)'
    BY <2>2, <2>4, <2>7 DEF About
  <2>9. Announced'
    BY <2>2, <2>4 DEF Filing, Announced, Live
  <2> QED
    BY <2>5, <2>6, <2>8, <2>9 DEF Filing, OneTree
<1>5. CASE Crash \/ CrashInAdmission
  <2>1. /\ inbox' = inbox /\ w' = [w EXCEPT !.orphan = TRUE] /\ pipe' = <<>>
        /\ host' = [NewHost EXCEPT !.up = FALSE]
    BY <1>5 DEF Crash, CrashInAdmission
  <2>2. Keeps(run', Told)
    <3>1. run' = run \/ \E phase : run' \in {ReserveRequest(run, phase), StartRequest(ReserveRequest(run, phase))}
      BY <1>5 DEF Crash, CrashInAdmission
    <3> QED
      BY <1>0, <3>1, RowKeeps
  <2>3. /\ Row(run') /\ run'.policy = run.policy /\ run'.status = run.status /\ run'.phase = run.phase
        /\ run'.cp = run.cp /\ run'.patch = run.patch /\ run'.checks = run.checks
        /\ run'.recoveries = run.recoveries /\ run'.check.passed = run.check.passed
    BY <1>0, <2>2, KeptFields DEF Told, Row
  <2>4. DOMAIN host' = HostFields /\ host'.place = "idle" /\ host'.await = "none"
    BY <2>1, NewShapes DEF HostFields
  <2>5. DOMAIN w' = WorkerFields /\ w'.r = w.r /\ w'.at = w.at /\ w'.live = w.live /\ w'.phase = w.phase
    BY <1>0, <2>1 DEF WorkerFields
  <2> QED
    BY <2>1, <2>3, <2>4, <2>5, IdleFiles
<1>6. CASE Restart
  <2>1. host' = NewHost /\ UNCHANGED <<w, pipe, inbox>> /\ (run' = run \/ run' = Finish(run, "interrupted"))
    BY <1>6 DEF Restart
  <2>2. DOMAIN host' = HostFields /\ host'.place = "idle" /\ host'.await = "none"
    BY <2>1, NewShapes
  <2>3. CASE run' = run
    BY <1>0, <2>1, <2>2, <2>3, IdleFiles
  <2>4. CASE run' = Finish(run, "interrupted")
    BY <2>1, <2>2, <2>4, EndFiles
  <2> QED
    BY <2>1, <2>3, <2>4
<1> QED
  BY <1>1, <1>2, <1>3, <1>4, <1>5, <1>6, StartFiles DEF Preparation

\* The end of the worker's run.
LEMMA ClosedFiles ==
    ASSUME Inv, Filing, WorkerClosed
    PROVE  Filing'
<1>1. /\ \E removed : run' = Finish(run, Outcome(removed))
      /\ host' = [NewHost EXCEPT !.cancelled = host.cancelled, !.failure = host.failure]
      /\ UNCHANGED <<w, pipe>>
  BY DEF WorkerClosed
<1>2. \A removed : Outcome(removed) \in {"failed", "cancelled", "completed"}
  BY DEF Outcome
<1>3. DOMAIN host' = HostFields /\ host'.place = "idle" /\ host'.await = "none"
  BY <1>1, NewShapes DEF HostFields
<1> QED
  BY <1>1, <1>2, <1>3, EndFiles

\* The invariant of the submission is inductive.
LEMMA FilingInductive ==
    ASSUME Inv, Filing, [Next]_vars
    PROVE  Filing'
<1>1. CASE WorkerNext
  BY <1>1, WorkerFiles
<1>2. CASE HostNext
  <2>1. Shaped /\ Placed
    BY DEF Filing
  <2> QED
    BY <1>2, <2>1, HostSays, PassFiles, RequestFiles, JudgeFiles, PatchFiles, AwaitedFiles, ClosedFiles
<1>3. CASE UNCHANGED vars
  <2>1. Shaped' /\ Paced(w)'
    BY <1>3 DEF vars, Filing, Shaped, Paced
  <2>2. Placed' /\ Filed'
    BY <1>3 DEF vars, Filing, Placed, Fresh, Filed, Unfiled, Undecided, Silent, Running, CriticPolicy
  <2>3. PICK t : About(t)
    BY DEF Filing, OneTree
  <2>4. About(t)'
    BY <1>3, <2>3 DEF vars, About
  <2>5. Announced'
    BY <1>3 DEF vars, Filing, Announced, Live
  <2> QED
    BY <2>1, <2>2, <2>4, <2>5 DEF Filing, OneTree
<1> QED
  BY <1>1, <1>2, <1>3, ControllerFiles DEF Next

\* Once a submission is filed it stays as it is.
LEMMA PatchStays ==
    ASSUME Inv, Filing, [Next]_vars, run.patch.kind = "submitted"
    PROVE  run'.patch = run.patch
<1>0. Shaped /\ Placed /\ Row(run)
  BY DEF Filing, Shaped
<1>1. CASE WorkerNext
  BY <1>0, <1>1, WorkerSays DEF Filing
<1>2. CASE HostNext
  <2>1. CASE Passes \/ Resumes \/ Admits \/ Settles
    <3>1. Keeps(run', Told \ {"phase", "handoff"}) \/ Keeps(run', Told)
      BY <2>1 DEF Passes, Resumes, Admits, Settles
    <3> QED
      BY <1>0, <3>1, KeptFields DEF Told
  <2>2. CASE Escalates \/ Verifying \/ Judges
    <3>1. \/ Keeps(run', Told \ {"phase", "recoveries"}) \/ Keeps(run', Told \ {"phase"})
          \/ Keeps(run', Told \ {"cp"})
      <4>1. CASE Escalates
        BY <1>0, <4>1, RowWrites DEF Escalates
      <4>2. CASE Verifying
        BY <1>0, <4>2, RowWrites DEF Verifying
      <4>3. CASE Judges
        BY <1>0, <4>3, RowWrites DEF Judges
      <4> QED
        BY <2>2, <4>1, <4>2, <4>3
    <3> QED
      BY <1>0, <3>1, KeptFields DEF Told
  <2>3. CASE Checks
    <3>1. DOMAIN Event.check = CheckFields
      BY <2>3, Taken DEF Checks, Phrased
    <3> QED
      BY <1>0, <2>3, <3>1, RowWrites DEF Checks, Told
  <2>4. CASE Recovered
    BY <2>4 DEF Recovered
  <2>5. CASE Files
    <3>1. PICK t : About(t)
      BY DEF Filing, OneTree
    <3>2. Takes /\ Event.type = "patch" /\ Kind(Event) = "patch" /\ run' = RecordPatch(run, "submitted", Event.src)
      BY <2>5 DEF Files, Kind
    <3>3. Tree(Event) = t
      BY <3>1, <3>2, Taken DEF About
    <3>4. Event.src = t /\ run.patch = [kind |-> "submitted", src |-> t]
      BY <3>1, <3>2, <3>3 DEF About, Tree
    <3>5. run'.patch = [kind |-> "submitted", src |-> Event.src]
      BY <1>0, <3>2, RowPatched
    <3> QED
      BY <3>4, <3>5
  <2>6. CASE Rebuilds
    BY <2>6 DEF Rebuilds
  <2>7. CASE Confirms
    BY <2>7 DEF Confirms, CanRecordPatch, Filing, Filed
  <2>8. CASE Finals
    <3>1. PICK x : run' = RecordChecks(run, x)
      BY <2>8 DEF Finals
    <3>2. \A y : Keeps(RecordChecks(run, y), Told \ {"checks"})
      BY <1>0, RowWrites
    <3>3. Keeps(run', Told \ {"checks"})
      BY <3>1, <3>2
    <3> QED
      BY <1>0, <3>3, KeptFields DEF Told
  <2>9. CASE WorkerClosed
    <3>1. \E status : run' = Finish(run, status)
      BY <2>9 DEF WorkerClosed
    <3>2. Keeps(run', Told \ {"status", "phase"})
      BY <1>0, <3>1, RowFinished
    <3> QED
      BY <1>0, <3>2, KeptFields DEF Told
  <2> QED
    BY <1>0, <1>2, <2>1, <2>2, <2>3, <2>4, <2>5, <2>6, <2>7, <2>8, <2>9, HostSays
<1>3. CASE Cancel \/ Decide \/ Crash \/ CrashInAdmission \/ HostDeadline
  <2>1. \/ run' = run \/ \E status : run' = Finish(run, status)
        \/ \E decision : run' = [run EXCEPT !.decision = decision]
        \/ \E phase : run' \in {ReserveRequest(run, phase), StartRequest(ReserveRequest(run, phase))}
    BY <1>3 DEF Cancel, Decide, Crash, CrashInAdmission, HostDeadline
  <2>2. run' = run \/ Keeps(run', Told) \/ Keeps(run', Told \ {"status", "phase"})
    <3>1. (\E status : run' = Finish(run, status)) => Keeps(run', Told \ {"status", "phase"})
      BY <1>0, RowFinished
    <3>2. (\E decision : run' = [run EXCEPT !.decision = decision]) => Keeps(run', Told)
      BY <1>0, RowKeeps
    <3>3. (\E phase : run' \in {ReserveRequest(run, phase), StartRequest(ReserveRequest(run, phase))})
            => Keeps(run', Told)
      BY <1>0, RowKeeps
    <3> QED
      BY <2>1, <3>1, <3>2, <3>3
  <2> QED
    BY <1>0, <2>2, KeptFields DEF Told
<1>4. CASE StartRun \/ Preparation \/ Restart
  <2>1. \/ run' = run \/ run' = Start(run) \/ (\E status : run' = Finish(run, status))
        \/ run' = SetPhase(run, "preparing")
    BY <1>4 DEF StartRun, Preparation, Launch, NotLaunched, Restart
  <2>2. \/ run' = run \/ Keeps(run', Told \ {"phase"}) \/ Keeps(run', Told \ {"status", "phase"})
    <3>1. run' = Start(run) => Keeps(run', Told \ {"status", "phase"})
      BY <1>0, RowWrites
    <3>2. run' = SetPhase(run, "preparing") => Keeps(run', Told \ {"phase"})
      BY <1>0, RowWrites
    <3>3. (\E status : run' = Finish(run, status)) => Keeps(run', Told \ {"status", "phase"})
      BY <1>0, RowFinished
    <3> QED
      BY <2>1, <3>1, <3>2, <3>3
  <2>3. Keeps(run', Told \ {"phase"}) => run'.patch = run.patch
    BY <1>0, KeptFields DEF Told
  <2>4. Keeps(run', Told \ {"status", "phase"}) => run'.patch = run.patch
    BY <1>0, KeptFields DEF Told
  <2> QED
    BY <2>2, <2>3, <2>4
<1>5. CASE UNCHANGED vars
  BY <1>5 DEF vars
<1> QED
  BY <1>1, <1>2, <1>3, <1>4, <1>5 DEF Next

(***************************************************************************)
(* "The immutable submitted patch is saved before visible checks, so       *)
(* cancelling or timing out during checking preserves it."                 *)
(* (MVP_CODING_QUICKSTART.md:226): the row enters the final check with a   *)
(* submitted patch, and no event, crash, restart or decision ever writes   *)
(* another (worker.ts:611-636, store.ts:401-438).                          *)
(***************************************************************************)
THEOREM SubmissionKept == Spec => SubmissionSurvives
<1>1. Init => Inv /\ Filing
  BY InitKeeps, InitFiles
<1>2. Inv /\ Filing /\ [Next]_vars => Inv' /\ Filing'
  BY Inductive, FilingInductive
<1>3. Inv /\ Filing /\ [Next]_vars
        => [run.phase = "checking" => run.patch.kind = "submitted" /\ run'.patch = run.patch]_vars
  BY PatchStays DEF Filing, Filed
<1> QED
  BY <1>1, <1>2, <1>3, PTL DEF Spec, SubmissionSurvives

-----------------------------------------------------------------------------
(***************************************************************************)
(* What a submission rests on. Without the cloud it rests on the check     *)
(* that the decision to submit was about; the decision closes the pipe to  *)
(* all but the patch and its check. With the cloud it rests on the one     *)
(* handoff and on a reply: a worker sends a request only when the host has *)
(* read all it wrote, so the reply is ahead of the patch.                  *)
(***************************************************************************)
Honest == run.check.passed => run.check.src = run.check.after
Once ==
    /\ run.recoveries \in {0, 1}
    /\ run.recoveries = 1 => HasHandoff(run) /\ (Running(run) => run.phase \in {"cloud_solver", "checking"})
Decided ==
    /\ run.cp.decision = "submit" \/ Says(pipe, "submit") =>
         w.at \in {"finish", "verify"} \cup Quitting /\ (w.at # "gone" => w.r.state = "submitted")
    /\ Closes(pipe)
    /\ run.cp.decision = "submit" =>
         /\ Only(pipe, Closing) /\ run.recoveries = 0
         /\ run.check.passed /\ run.check.src = run.cp.src

\* The request that was sent last.
Opens(phase) == run.last = [phase |-> phase, state |-> "started"]
Asked ==
    \/ w.at \in Quitting
    \/ /\ Says(pipe, "prepare") => w.at = "admission" /\ Granted(inbox) = 0
       /\ PreparedLast(pipe, w.phase)
       /\ Granted(inbox) # 0 => w.at = "admission" /\ Granted(inbox) = 1 /\ pipe = <<>> /\ Opens(w.phase)
       /\ w.at = "wire" => pipe = <<>> /\ Opens(w.phase)

Replied == run.receipts["cloud"] >= 1
Heard == run.recoveries = 1 \/ Says(pipe, "cloud")
Reply == Replied \/ (Opens("cloud") /\ Says(pipe, "finished"))
Clouded ==
    /\ w.phase = "cloud" /\ w.at \notin {"gone", "none"} => Heard
    /\ w.phase = "cloud" /\ w.at \in {"answer", "finish"} => Reply
    /\ w.phase # "cloud" /\ w.at = "finish" => run.cp.decision = "submit" \/ Says(pipe, "submit")
    /\ \/ run.cp.decision = "submit" \/ Leads(pipe, "submit", "patch")
       \/ /\ run.recoveries = 1 \/ Leads(pipe, "cloud", "patch")
          /\ Replied \/ (Opens("cloud") /\ Leads(pipe, "finished", "patch"))
    /\ run.patch.kind = "submitted" \/ host.await = "candidate" =>
         run.cp.decision = "submit" \/ (run.recoveries = 1 /\ Replied)

Backed == Honest /\ Once /\ Decided /\ (Live => Asked /\ Clouded) /\ CompletedAsChecked

\* A request is the last thing said.
LEMMA PreparedNow ==
    ASSUME NEW s, IsPipe(s), ~Says(s, "prepare"), NEW x
    PROVE  PreparedLast(s \o <<x>>, x.phase)
<1> DEFINE t == <<x>>
           u == s \o t
<1>1. DOMAIN t = {1} /\ t[1] = x /\ Len(t) = 1 /\ IsPipe(t)
  BY Single
<1>2. Joins(s, t, u)
  BY <1>1, Joined
<1> HIDE DEF t, u
<1>3. ASSUME NEW i \in DOMAIN u, Kind(u[i]) = "prepare"
      PROVE  i = Len(u) /\ u[i].phase = x.phase
  <2>1. i \notin DOMAIN s
    BY <1>2, <1>3 DEF Joins, Says
  <2>2. i = Len(s) + 1
    BY <1>1, <1>2, <2>1 DEF Joins
  <2> QED
    BY <1>1, <1>2, <2>2 DEF Joins
<1>4. PreparedLast(u, x.phase)
  BY <1>3 DEF PreparedLast
<1> QED
  BY <1>4 DEF u, t

\* Nothing prepared is nothing to be last.
LEMMA Unprepared ==
    ASSUME NEW s, ~Says(s, "prepare"), NEW phase
    PROVE  PreparedLast(s, phase)
BY DEF Says, PreparedLast

\* Where nothing is said, anything leads.
LEMMA Unled ==
    ASSUME NEW s, NEW b, ~Says(s, b), NEW a
    PROVE  Leads(s, a, b)
BY DEF Says, Leads

\* The admissions of an inbox that is read on.
LEMMA ReadOn ==
    ASSUME Inv, Reading
    PROVE  /\ Granted(inbox) \in Nat /\ Granted(inbox') \in Nat
           /\ Granted(inbox) = 0 => Granted(inbox') = 0
<1>1. Granted(inbox) \in Nat
  BY GrantedFinite DEF Inv
<1>2. CASE inbox' = inbox
  BY <1>1, <1>2
<1>3. CASE inbox # <<>> /\ inbox' = Tail(inbox)
  <2>1. /\ Tail(inbox) \in Seq(Answers)
        /\ Granted(Tail(inbox)) = Granted(inbox) - IF Head(inbox).type = "admitted" THEN 1 ELSE 0
    BY <1>3, GrantedTail DEF Inv
  <2>2. Granted(Tail(inbox)) \in Nat
    BY <2>1, GrantedFinite
  <2> QED
    BY <1>1, <1>3, <2>1, <2>2
<1> QED
  BY <1>2, <1>3 DEF Reading

\* The pipe, closed by a decision, after a step of the worker.
LEMMA CloseMore ==
    ASSUME Shaped, NEW ev, Adds(ev), Closes(pipe), Closes(ev), Says(pipe, "submit") => Only(ev, Closing)
    PROVE  /\ Closes(pipe')
           /\ Only(pipe, Closing) /\ Only(ev, Closing) => Only(pipe', Closing)
<1>1. Closes(pipe \o ev) /\ (Only(pipe, Closing) /\ Only(ev, Closing) => Only(pipe \o ev, Closing))
  BY SaidMore DEF Shaped, Adds
<1> QED
  BY <1>1 DEF Adds

\* The row and the host are as they were.
LEMMA RowBacks ==
    ASSUME Backed, UNCHANGED <<run, host>>, Decided', Live => (Asked /\ Clouded)'
    PROVE  Backed'
<1>1. Honest' /\ Once' /\ CompletedAsChecked' /\ (Live' <=> Live)
  BY DEF Backed, Honest, Once, CompletedAsChecked, Live, HasHandoff, Running
<1> QED
  BY <1>1 DEF Backed

\* The worker at work decides nothing.
LEMMA WorkBacks ==
    ASSUME Inv, Filing, Backed, Fits, UNCHANGED <<run, host>>, Works
    PROVE  Backed'
<1>1. PICK ev : /\ Adds(ev) /\ Only(ev, Talk)
                /\ w'.phase = "cloud" => w.phase = "cloud" \/ Says(ev, "cloud")
  BY DEF Works
<1>2. Closes(ev) /\ \A k : k \notin Talk => ~Says(ev, k)
  BY <1>1, Mute DEF Talk
<1>3. w.at \in Opening /\ Unfiled /\ Undecided
  BY DEF Works, Filing, Filed
<1>4. /\ \A k : Says(pipe', k) <=> Says(pipe, k) \/ Says(ev, k)
      /\ Closes(pipe')
  BY <1>1, <1>2, <1>3, PipeMore, CloseMore DEF Filing, Backed, Decided, Undecided
<1>5. ~Says(pipe', "submit") /\ ~Says(pipe', "patch") /\ run'.cp.decision # "submit"
  BY <1>2, <1>3, <1>4 DEF Unfiled, Undecided, Silent, Talk
<1>6. Decided'
  BY <1>4, <1>5 DEF Decided
<1>7. ASSUME Live
      PROVE  Asked'
  <2>1. CASE w'.at = "failing"
    BY <2>1 DEF Asked, Quitting
  <2>2. CASE w'.at # "failing"
    <3>1. Asked /\ w.at \notin Quitting /\ w.at # "admission" /\ w'.at \notin {"wire", "admission"}
      BY <1>3, <1>7, <2>2 DEF Works, Backed, Opening, Quitting
    <3>2. ~Says(pipe, "prepare") /\ Granted(inbox) = 0
      BY <3>1 DEF Asked
    <3>3. Granted(inbox') = 0
      BY <3>2, ReadOn DEF Works
    <3>4. ~Says(pipe', "prepare")
      BY <1>2, <1>4, <3>2 DEF Talk
    <3>5. PreparedLast(pipe', w'.phase)
      BY <3>4, Unprepared
    <3> QED
      BY <3>1, <3>3, <3>4, <3>5 DEF Asked
  <2> QED
    BY <2>1, <2>2
<1>8. ASSUME Live
      PROVE  Clouded'
  <2>1. w'.at \notin {"answer", "finish"}
    BY DEF Works
  <2>2. w'.phase = "cloud" => Heard'
    BY <1>1, <1>3, <1>4, <1>8 DEF Backed, Clouded, Heard, Opening
  <2>3. Leads(pipe', "submit", "patch")
    BY <1>5, Unled
  <2>4. ~(run'.patch.kind = "submitted" \/ host'.await = "candidate")
    BY <1>3 DEF Unfiled
  <2> QED
    BY <2>1, <2>2, <2>3, <2>4 DEF Clouded
<1> QED
  BY <1>6, <1>7, <1>8, RowBacks

\* A request, its admission and its answer.
LEMMA RequestBacks ==
    ASSUME Inv, Filing, Backed, Fits, UNCHANGED <<run, host>>, Asks \/ Sends \/ Hears
    PROVE  Backed'
<1>1. w.at \in Opening /\ w'.at \in Opening /\ Unfiled /\ Undecided /\ Rests /\ w.at \notin Quitting
  BY DEF Asks, Sends, Hears, Filing, Filed, Opening, Quitting
<1>2. PICK ev : /\ Adds(ev) /\ pipe' = pipe \o ev
                /\ \A k : Says(ev, k) => k \in {"prepare", "finished"}
                /\ Hears => Says(ev, "finished")
                /\ ~Asks => ~Says(ev, "prepare")
                /\ Asks => \E x : Kind(x) = "prepare" /\ x.phase = w.phase /\ ev = <<x>>
                /\ Sends => pipe' = pipe
  <2>1. CASE Asks
    <3>1. PICK call : pipe' = pipe \o <<[type |-> "prepare", phase |-> w.phase, call |-> call]>>
      BY <2>1 DEF Asks
    <3> DEFINE x == [type |-> "prepare", phase |-> w.phase, call |-> call]
    <3>2. Kind(x) = "prepare" /\ Phrased(x) /\ x.phase = w.phase
      BY DEF Kind, Phrased
    <3>3. pipe' = pipe \o <<x>> /\ ~Sends /\ ~Hears
      BY <2>1, <3>1 DEF Asks, Sends, Hears
    <3> HIDE DEF x
    <3>4. Adds(<<x>>) /\ \A k : Says(<<x>>, k) => k \in {"prepare", "finished"}
      BY <3>2, <3>3, Single DEF Adds
    <3> QED
      BY <2>1, <3>2, <3>3, <3>4
  <2>2. CASE Hears
    <3>1. PICK cost : pipe' = pipe \o <<[type |-> "finished", cost |-> cost]>>
      BY <2>2 DEF Hears
    <3> DEFINE x == [type |-> "finished", cost |-> cost]
    <3>2. Kind(x) = "finished" /\ Phrased(x)
      BY DEF Kind, Phrased
    <3>3. pipe' = pipe \o <<x>> /\ ~Asks /\ ~Sends
      BY <2>2, <3>1 DEF Asks, Sends, Hears
    <3> HIDE DEF x
    <3>4. Adds(<<x>>) /\ \A k : Says(<<x>>, k) <=> k = "finished"
      BY <3>2, <3>3, Single DEF Adds
    <3> QED
      BY <3>3, <3>4
  <2>3. CASE Sends
    <3>1. pipe' = pipe /\ ~Asks /\ ~Hears
      BY <2>3 DEF Asks, Sends, Hears
    <3>2. Adds(<<>>) /\ \A k : ~Says(<<>>, k)
      BY <3>1, Unsaid, Single DEF Filing
    <3> QED
      BY <3>1, <3>2 DEF Adds
  <2> QED
    BY <2>1, <2>2, <2>3
<1>3. Closes(ev)
  BY <1>2 DEF Closes, Says
<1>4. /\ \A k : Says(pipe', k) <=> Says(pipe, k) \/ Says(ev, k)
      /\ Closes(pipe')
  BY <1>1, <1>2, <1>3, PipeMore, CloseMore DEF Filing, Backed, Decided, Undecided
<1>5. ~Says(pipe', "submit") /\ ~Says(pipe', "patch") /\ run'.cp.decision # "submit"
  BY <1>1, <1>2, <1>4 DEF Unfiled, Undecided, Silent
<1>6. Decided'
  BY <1>4, <1>5 DEF Decided
<1>7. ASSUME Live
      PROVE  Asked' /\ (Hears => Opens(w.phase))
  <2>1. Asked
    BY <1>7 DEF Backed
  <2>2. Granted(inbox) \in Nat
    BY GrantedFinite DEF Inv
  <2>3. CASE Asks
    <3>1. w.at = "ask" /\ w'.at = "admission" /\ inbox' = inbox /\ w'.phase = w.phase
      BY <2>3 DEF Asks, Rests, Listens
    <3>2. ~Says(pipe, "prepare") /\ Granted(inbox) = 0
      BY <1>1, <2>1, <3>1 DEF Asked
    <3>3. PICK x : x.phase = w.phase /\ ev = <<x>>
      BY <1>2, <2>3
    <3>4. PreparedLast(pipe \o <<x>>, x.phase)
      BY <3>2, PreparedNow DEF Filing, Shaped
    <3>5. PreparedLast(pipe', w'.phase)
      BY <1>2, <3>1, <3>3, <3>4
    <3> QED
      BY <2>3, <3>1, <3>2, <3>5 DEF Asked, Asks, Hears
  <2>4. CASE Sends
    <3>1. w.at = "admission" /\ w'.at = "wire" /\ w'.phase = w.phase /\ pipe' = pipe
          /\ inbox # <<>> /\ Head(inbox).type = "admitted" /\ inbox' = Tail(inbox)
      BY <2>4 DEF Sends, Rests
    <3>2. Tail(inbox) \in Seq(Answers) /\ Granted(Tail(inbox)) = Granted(inbox) - 1
      BY <3>1, GrantedTail DEF Inv
    <3>3. Granted(Tail(inbox)) \in Nat
      BY <3>2, GrantedFinite
    <3>4. Granted(inbox) # 0
      BY <2>2, <3>2, <3>3
    <3>5. Granted(inbox) = 1 /\ pipe = <<>> /\ Opens(w.phase)
      BY <1>1, <2>1, <3>4 DEF Asked
    <3>6. Granted(inbox') = 0
      BY <3>1, <3>2, <3>5
    <3>7. ~Says(pipe', "prepare")
      BY <3>1, <3>5, Single
    <3>8. PreparedLast(pipe', w'.phase)
      BY <3>7, Unprepared
    <3>9. run'.last = [phase |-> w'.phase, state |-> "started"]
      BY <3>1, <3>5 DEF Opens
    <3>10. Asked'
      BY <3>1, <3>5, <3>6, <3>7, <3>8, <3>9 DEF Asked, Opens
    <3> QED
      BY <3>1, <3>10 DEF Hears
  <2>5. CASE Hears
    <3>1. w.at = "wire" /\ w'.at = "answer" /\ inbox' = inbox
      BY <2>5 DEF Hears, Listens
    <3>2. ~Says(pipe, "prepare") /\ Granted(inbox) = 0 /\ Opens(w.phase)
      BY <1>1, <2>1, <3>1 DEF Asked
    <3>3. ~Asks
      BY <3>1 DEF Asks
    <3>4. ~Says(pipe', "prepare")
      BY <1>2, <1>4, <3>2, <3>3
    <3>5. PreparedLast(pipe', w'.phase)
      BY <3>4, Unprepared
    <3> QED
      BY <3>1, <3>2, <3>4, <3>5 DEF Asked
  <2> QED
    BY <2>3, <2>4, <2>5
<1>8. ASSUME Live
      PROVE  Clouded'
  <2>1. w'.at # "finish" /\ w'.phase = w.phase /\ (w'.at = "answer" => Hears)
    BY <1>1 DEF Asks, Sends, Hears, Opening, Rests
  <2>2. w'.phase = "cloud" => Heard'
    BY <1>1, <1>4, <1>8, <2>1 DEF Backed, Clouded, Heard, Opening
  <2>3. w'.phase = "cloud" /\ w'.at = "answer" => Reply'
    BY <1>2, <1>4, <1>7, <1>8, <2>1 DEF Reply, Opens
  <2>4. Leads(pipe', "submit", "patch")
    BY <1>5, Unled
  <2>5. ~(run'.patch.kind = "submitted" \/ host'.await = "candidate")
    BY <1>1 DEF Unfiled
  <2> QED
    BY <2>1, <2>2, <2>3, <2>4, <2>5 DEF Clouded
<1> QED
  BY <1>6, <1>7, <1>8, RowBacks

\* A word that is neither a patch nor a request leaves what came before the patch.
LEMMA StillClouded ==
    ASSUME Shaped, Clouded, UNCHANGED <<run, host>>, NEW ev, Adds(ev), ~Says(ev, "patch"),
           w'.at \notin {"answer", "finish"},
           w'.phase = "cloud" /\ w'.at \notin {"gone", "none"} => w.phase = "cloud" /\ w.at \notin {"gone", "none"}
    PROVE  Clouded'
<1>1. /\ \A k : Says(pipe', k) <=> Says(pipe, k) \/ Says(ev, k)
      /\ \A a : Leads(pipe, a, "patch") => Leads(pipe', a, "patch")
  BY PipeMore
<1>2. w'.phase = "cloud" /\ w'.at \notin {"gone", "none"} => Heard'
  BY <1>1 DEF Clouded, Heard
<1>3. \/ run'.cp.decision = "submit" \/ Leads(pipe', "submit", "patch")
      \/ /\ run'.recoveries = 1 \/ Leads(pipe', "cloud", "patch")
         /\ Replied' \/ (Opens("cloud")' /\ Leads(pipe', "finished", "patch"))
  BY <1>1 DEF Clouded, Replied, Opens
<1>4. run'.patch.kind = "submitted" \/ host'.await = "candidate" =>
        run'.cp.decision = "submit" \/ (run'.recoveries = 1 /\ Replied')
  BY DEF Clouded, Replied
<1> QED
  BY <1>2, <1>3, <1>4 DEF Clouded

\* The worker decides to submit, or the cloud does.
LEMMA DecisionBacks ==
    ASSUME Inv, Filing, Backed, Fits, UNCHANGED <<run, host>>, Submits \/ CloudSubmits
    PROVE  Backed'
<1>1. /\ w.at \in Opening /\ w.at \notin Quitting /\ w.at \notin {"admission", "wire"} /\ w'.at = "finish"
      /\ Unfiled /\ Undecided /\ Reading
  BY DEF Submits, CloudSubmits, Filing, Filed, Opening, Quitting, Reading, Listens
<1>2. PICK ev : /\ Adds(ev) /\ \A k : Says(ev, k) => k = "submit"
                /\ Closes(ev) /\ (Submits => Says(ev, "submit"))
                /\ CloudSubmits => ~Says(ev, "submit")
  <2>1. CASE Submits
    <3> DEFINE x == Decides(w'.r)
    <3>1. Kind(x) = "submit" /\ Phrased(x) /\ pipe' = pipe \o <<x>> /\ ~CloudSubmits
      BY <2>1 DEF Submits, CloudSubmits, Rests, Decides, Kind, Phrased
    <3> HIDE DEF x
    <3>2. Adds(<<x>>) /\ Closes(<<x>>) /\ \A k : Says(<<x>>, k) <=> k = "submit"
      BY <3>1, Single DEF Adds
    <3> QED
      BY <3>1, <3>2
  <2>2. CASE CloudSubmits
    <3>1. pipe' = pipe /\ ~Submits
      BY <2>2 DEF Submits, CloudSubmits, Rests
    <3>2. Adds(<<>>) /\ Closes(<<>>) /\ \A k : ~Says(<<>>, k)
      BY <3>1, Unsaid, Single DEF Filing
    <3> QED
      BY <3>1, <3>2
  <2> QED
    BY <2>1, <2>2
<1>3. /\ \A k : Says(pipe', k) <=> Says(pipe, k) \/ Says(ev, k)
      /\ Closes(pipe')
  BY <1>1, <1>2, PipeMore, CloseMore DEF Filing, Backed, Decided, Undecided
<1>4. ~Says(pipe', "patch") /\ run'.cp.decision # "submit"
  BY <1>1, <1>2, <1>3 DEF Unfiled, Silent, Undecided
<1>5. Decided'
  <2>1. Says(pipe', "submit") => Submits
    BY <1>1, <1>2, <1>3 DEF Undecided
  <2>2. Submits => w'.at = "finish" /\ w'.r.state = "submitted"
    BY DEF Submits
  <2> QED
    BY <1>3, <1>4, <2>1, <2>2 DEF Decided
<1>6. ASSUME Live
      PROVE  Asked'
  <2>1. ~Says(pipe, "prepare") /\ Granted(inbox) = 0
    BY <1>1, <1>6 DEF Backed, Asked
  <2>2. Granted(inbox') = 0 /\ ~Says(pipe', "prepare")
    BY <1>1, <1>2, <1>3, <2>1, ReadOn
  <2>3. PreparedLast(pipe', w'.phase)
    BY <2>2, Unprepared
  <2> QED
    BY <1>1, <2>2, <2>3 DEF Asked
<1>7. ASSUME Live
      PROVE  Clouded'
  <2>1. CASE Submits
    <3>1. w'.phase # "cloud" /\ Says(pipe', "submit")
      BY <1>2, <1>3, <2>1 DEF Submits
    <3>2. Leads(pipe', "submit", "patch")
      BY <1>4, Unled
    <3>3. ~(run'.patch.kind = "submitted" \/ host'.await = "candidate")
      BY <1>1 DEF Unfiled
    <3> QED
      BY <3>1, <3>2, <3>3 DEF Clouded
  <2>2. CASE CloudSubmits
    <3>1. w.phase = "cloud" /\ w.at = "answer" /\ w'.phase = "cloud" /\ pipe' = pipe
      BY <2>2 DEF CloudSubmits, Rests
    <3>2. Heard /\ Reply
      BY <1>7, <3>1 DEF Backed, Clouded
    <3>3. Heard' /\ Reply'
      BY <3>1, <3>2 DEF Heard, Reply, Replied, Opens
    <3>4. Leads(pipe', "submit", "patch")
      BY <1>4, Unled
    <3>5. ~(run'.patch.kind = "submitted" \/ host'.await = "candidate")
      BY <1>1 DEF Unfiled
    <3> QED
      BY <3>1, <3>3, <3>4, <3>5 DEF Clouded
  <2> QED
    BY <2>1, <2>2
<1> QED
  BY <1>5, <1>6, <1>7, RowBacks

\* The patch is exported after the decision, or after the cloud's reply.
LEMMA ExportBacks ==
    ASSUME Inv, Filing, Backed, Fits, UNCHANGED <<run, host>>, Exports
    PROVE  Backed'
<1> DEFINE ev == Exported(w.live)
<1>1. IsPipe(ev) /\ Formed(ev) /\ Closes(ev) /\ Only(ev, {"patch", "verifying"})
  BY ExportedOrder
<1>2. Adds(ev)
  BY <1>1 DEF Exports, Adds
<1> HIDE DEF ev
<1>3. Only(ev, Closing) /\ ~Says(ev, "submit") /\ ~Says(ev, "prepare") /\ ~Says(ev, "cloud")
  <2>1. Only(ev, Closing)
    BY <1>1 DEF Only, Closing
  <2> QED
    BY <1>1, <2>1, Mute
<1>4. w.at = "finish" /\ w'.at = "verify" /\ w'.phase = w.phase /\ w'.r = w.r /\ inbox' = inbox /\ Unfiled
  BY DEF Exports, Rests, Listens, Filing, Filed
<1>5. /\ \A k : Says(pipe', k) <=> Says(pipe, k) \/ Says(ev, k)
      /\ Closes(pipe')
      /\ \A a : Says(pipe, a) => Leads(pipe', a, "patch")
      /\ Only(pipe, Closing) => Only(pipe', Closing)
  <2>1. \A a : Leads(pipe, a, "patch")
    BY <1>4, Unled DEF Unfiled, Silent
  <2>2. Closes(pipe)
    BY DEF Backed, Decided
  <2> QED
    BY <1>1, <1>2, <1>3, <2>1, <2>2, PipeMore, CloseMore DEF Filing
<1>6. Decided'
  BY <1>3, <1>4, <1>5 DEF Backed, Decided
<1>7. ASSUME Live
      PROVE  Asked'
  <2>1. ~Says(pipe, "prepare") /\ Granted(inbox) = 0
    BY <1>4, <1>7 DEF Backed, Asked, Quitting
  <2>2. ~Says(pipe', "prepare") /\ Granted(inbox') = 0
    BY <1>3, <1>4, <1>5, <2>1
  <2>3. PreparedLast(pipe', w'.phase)
    BY <2>2, Unprepared
  <2> QED
    BY <1>4, <2>2, <2>3 DEF Asked
<1>8. ASSUME Live
      PROVE  Clouded'
  <2>1. Clouded
    BY <1>8 DEF Backed
  <2>2. w'.phase = "cloud" => Heard'
    BY <1>4, <1>5, <2>1 DEF Clouded, Heard
  <2>3. \/ run'.cp.decision = "submit" \/ Leads(pipe', "submit", "patch")
        \/ /\ run'.recoveries = 1 \/ Leads(pipe', "cloud", "patch")
           /\ Replied' \/ (Opens("cloud")' /\ Leads(pipe', "finished", "patch"))
    <3>1. CASE w.phase = "cloud"
      <4>1. Heard /\ Reply
        BY <1>4, <2>1, <3>1 DEF Clouded
      <4>2. run.recoveries = 1 \/ Leads(pipe', "cloud", "patch")
        BY <1>5, <4>1 DEF Heard
      <4>3. Replied \/ (Opens("cloud") /\ Leads(pipe', "finished", "patch"))
        BY <1>5, <4>1 DEF Reply
      <4> QED
        BY <4>2, <4>3 DEF Replied, Opens
    <3>2. CASE w.phase # "cloud"
      BY <1>4, <1>5, <2>1, <3>2 DEF Clouded
    <3> QED
      BY <3>1, <3>2
  <2>4. ~(run'.patch.kind = "submitted" \/ host'.await = "candidate")
    BY <1>4 DEF Unfiled
  <2> QED
    BY <1>4, <2>2, <2>3, <2>4 DEF Clouded
<1> QED
  BY <1>6, <1>7, <1>8, RowBacks

\* The final check, the end of the work and a cancellation say nothing more of a submission.
LEMMA RestBacks ==
    ASSUME Inv, Filing, Backed, Fits, UNCHANGED <<run, host>>, Verifies \/ Quits
    PROVE  Backed'
<1>1. PICK ev : /\ Adds(ev) /\ Only(ev, {"early", "late", "verified"})
                /\ w.r.state = "submitted" \/ Verifies => Only(ev, Closing)
  <2>1. CASE Verifies
    <3>1. PICK after, passed :
             pipe' = pipe \o <<[type |-> "verified", src |-> w.live, after |-> after, passed |-> passed]>>
      BY <2>1 DEF Verifies
    <3> DEFINE x == [type |-> "verified", src |-> w.live, after |-> after, passed |-> passed]
    <3>2. Kind(x) = "verified" /\ Phrased(x) /\ pipe' = pipe \o <<x>>
      BY <3>1 DEF Kind, Phrased
    <3> HIDE DEF x
    <3>3. Adds(<<x>>) /\ Only(<<x>>, {"early", "late", "verified"}) /\ Only(<<x>>, Closing)
      BY <3>2, Single DEF Adds, Closing
    <3> QED
      BY <3>3
  <2>2. CASE Quits /\ ~Verifies
    <3>1. PICK ev : Adds(ev) /\ Only(ev, {"early", "late"}) /\ (w.r.state = "submitted" => Only(ev, {"late"}))
      BY <2>2 DEF Quits
    <3>2. Only(ev, {"late"}) => Only(ev, Closing)
      BY DEF Only, Closing
    <3>3. Only(ev, {"early", "late", "verified"})
      BY <3>1 DEF Only
    <3> QED
      BY <2>2, <3>1, <3>2, <3>3
  <2> QED
    BY <2>1, <2>2
<1>2. ~Says(ev, "submit") /\ ~Says(ev, "patch") /\ Closes(ev)
  BY <1>1, Mute
<1>3. w.at \notin {"none", "gone"} /\ w'.at \in Quitting
      /\ (w.r.state = "submitted" /\ w'.at # "gone" => w'.r.state = "submitted")
      /\ (w'.at # "gone" => w'.phase \in {w.phase, "none"})
  BY DEF Verifies, Quits, Rests, Quitting
<1>4. run.cp.decision = "submit" \/ Says(pipe, "submit") => w.r.state = "submitted"
  BY <1>3 DEF Backed, Decided
<1>5. /\ \A k : Says(pipe', k) <=> Says(pipe, k) \/ Says(ev, k)
      /\ Closes(pipe')
      /\ Only(pipe, Closing) /\ Only(ev, Closing) => Only(pipe', Closing)
  <2>1. Closes(pipe)
    BY DEF Backed, Decided
  <2> QED
    BY <1>1, <1>2, <1>4, <2>1, PipeMore, CloseMore DEF Filing
<1>6. Decided'
  BY <1>1, <1>2, <1>3, <1>4, <1>5 DEF Backed, Decided
<1>7. Asked'
  BY <1>3 DEF Asked
<1>8. ASSUME Live
      PROVE  Clouded'
  <2>1. Clouded
    BY <1>8 DEF Backed
  <2> QED
    BY <1>1, <1>2, <1>3, <2>1, StillClouded DEF Filing, Quitting
<1> QED
  BY <1>6, <1>7, <1>8, RowBacks

\* No step of the worker takes a submission's grounds away.
LEMMA WorkerBacks ==
    ASSUME Inv, Filing, Backed, WorkerNext
    PROVE  Backed'
<1>1. /\ Fits /\ UNCHANGED <<run, host>>
      /\ \/ Works \/ Asks \/ Sends \/ Hears \/ Submits \/ CloudSubmits \/ Exports
         \/ Verifies \/ Quits \/ Notices
  BY WorkerSays DEF Filing
<1>2. CASE Notices
  <2>1. w'.at = w.at /\ w'.phase = w.phase /\ w'.r = w.r /\ inbox' = inbox /\ pipe' = pipe
    BY <1>2 DEF Notices, Rests, Listens
  <2>2. Decided'
    BY <1>1, <2>1 DEF Backed, Decided
  <2>3. Asked => Asked'
    BY <1>1, <2>1 DEF Asked, Opens
  <2>4. Clouded => Clouded'
    BY <1>1, <2>1 DEF Clouded, Heard, Reply, Replied, Opens
  <2> QED
    BY <1>1, <2>2, <2>3, <2>4, RowBacks DEF Backed
<1> QED
  BY <1>1, <1>2, WorkBacks, RequestBacks, DecisionBacks, ExportBacks, RestBacks

-----------------------------------------------------------------------------
(* What a submission rests on, after a step of the host. *)

\* The rest of the pipe once an event was read.
LEMMA Left ==
    ASSUME Filing, Takes
    PROVE  /\ pipe # <<>> /\ w' = w /\ host.place = "working" /\ host.await = "none"
           /\ \A k : Says(pipe', k) => Says(pipe, k)
           /\ \A k : Says(pipe, k) => Says(pipe', k) \/ Kind(Event) = k
           /\ \A K : Only(pipe, K) => Kind(Event) \in K /\ Only(pipe', K)
           /\ \A a, b : Leads(pipe, a, b) => Kind(Event) # b
           /\ \A a, b : Leads(pipe, a, b) /\ Kind(Event) # a => Leads(pipe', a, b)
           /\ Closes(pipe) => Closes(pipe') /\ (Kind(Event) = "submit" => Only(pipe', Closing))
           /\ \A phase : PreparedLast(pipe, phase) => PreparedLast(pipe', phase)
           /\ \A phase : PreparedLast(pipe, phase) /\ Kind(Event) = "prepare" => pipe' = <<>> /\ Event.phase = phase
<1>1. IsPipe(pipe) /\ pipe # <<>> /\ pipe' = Tail(pipe) /\ w' = w
      /\ host.place = "working" /\ host.await = "none"
  BY DEF Filing, Shaped, Takes
<1>2. /\ \A k : Says(pipe', k) => Says(pipe, k)
      /\ \A k : Says(pipe, k) => Says(pipe', k) \/ Kind(Event) = k
      /\ \A K : Only(pipe, K) => Kind(Event) \in K /\ Only(pipe', K)
  BY <1>1, SaidLess DEF Event
<1>3. /\ \A a, b : Leads(pipe, a, b) => Kind(Event) # b
      /\ \A a, b : Leads(pipe, a, b) /\ Kind(Event) # a => Leads(pipe', a, b)
  BY <1>1, SaidLess DEF Event
<1>4. /\ Closes(pipe) => Closes(pipe') /\ (Kind(Event) = "submit" => Only(pipe', Closing))
      /\ \A phase : PreparedLast(pipe, phase) => PreparedLast(pipe', phase)
      /\ \A phase : PreparedLast(pipe, phase) /\ Kind(Event) = "prepare" => pipe' = <<>> /\ Event.phase = phase
  BY <1>1, SaidLess DEF Event
<1> QED
  BY <1>1, <1>2, <1>3, <1>4

\* A request is waited for as before, whatever else was read.
LEMMA AskedOn ==
    ASSUME Filing, Takes, Asked, Granted(inbox') = Granted(inbox)
    PROVE  Asked'
<1>1. CASE w.at \in Quitting
  BY <1>1, Left DEF Asked
<1>2. CASE w.at \notin Quitting
  <2>1. Granted(inbox) = 0 /\ w.at # "wire"
    BY <1>2, Left DEF Asked
  <2>2. PreparedLast(pipe', w'.phase)
    BY <1>2, Left DEF Asked
  <2>3. Says(pipe', "prepare") => w'.at = "admission"
    BY <1>2, Left DEF Asked
  <2> QED
    BY <2>1, <2>2, <2>3, Left DEF Asked
<1> QED
  BY <1>1, <1>2

\* The decision stands, and what follows it is read.
LEMMA DecidedOn ==
    ASSUME Filing, Takes, Decided, run'.cp = run.cp,
           run.cp.decision = "submit" =>
               run'.recoveries = 0 /\ run'.check.passed /\ run'.check.src = run.check.src
    PROVE  Decided'
<1>1. w' = w /\ (Says(pipe', "submit") => Says(pipe, "submit")) /\ Closes(pipe')
      /\ (Only(pipe, Closing) => Only(pipe', Closing))
  BY Left DEF Decided
<1> QED
  BY <1>1 DEF Decided

\* What the event that is read took from the pipe is in the row.
LEMMA CloudedOn ==
    ASSUME Filing, Takes, Clouded,
           run.recoveries = 1 \/ Kind(Event) = "cloud" => run'.recoveries = 1,
           Replied => Replied',
           Opens("cloud") => Replied' \/ (Opens("cloud")' /\ Kind(Event) # "finished"),
           run.cp.decision = "submit" \/ Kind(Event) = "submit" => run'.cp.decision = "submit",
           run'.patch.kind = "submitted" \/ host'.await = "candidate" =>
               run.patch.kind = "submitted" \/ run'.cp.decision = "submit" \/ (run'.recoveries = 1 /\ Replied')
    PROVE  Clouded'
<1>0. w' = w /\ host.await = "none"
  BY Left
<1>1. Heard => Heard'
  <2>1. Says(pipe, "cloud") => Says(pipe', "cloud") \/ Kind(Event) = "cloud"
    BY Left
  <2> QED
    BY <2>1 DEF Heard
<1>2. Reply => Reply'
  <2>1. Says(pipe, "finished") => Says(pipe', "finished") \/ Kind(Event) = "finished"
    BY Left
  <2> QED
    BY <2>1 DEF Reply
<1>3. run.cp.decision = "submit" \/ Says(pipe, "submit") => run'.cp.decision = "submit" \/ Says(pipe', "submit")
  <2>1. Says(pipe, "submit") => Says(pipe', "submit") \/ Kind(Event) = "submit"
    BY Left
  <2> QED
    BY <2>1
<1>4. \/ run'.cp.decision = "submit" \/ Leads(pipe', "submit", "patch")
      \/ /\ run'.recoveries = 1 \/ Leads(pipe', "cloud", "patch")
         /\ Replied' \/ (Opens("cloud")' /\ Leads(pipe', "finished", "patch"))
  <2>1. \A a : Leads(pipe, a, "patch") => Kind(Event) = a \/ Leads(pipe', a, "patch")
    BY Left
  <2>2. Leads(pipe, "submit", "patch") => run'.cp.decision = "submit" \/ Leads(pipe', "submit", "patch")
    BY <2>1
  <2>3. run.recoveries = 1 \/ Leads(pipe, "cloud", "patch") => run'.recoveries = 1 \/ Leads(pipe', "cloud", "patch")
    BY <2>1
  <2>4. Replied \/ (Opens("cloud") /\ Leads(pipe, "finished", "patch"))
          => Replied' \/ (Opens("cloud")' /\ Leads(pipe', "finished", "patch"))
    BY <2>1
  <2> QED
    BY <2>2, <2>3, <2>4 DEF Clouded
<1>5. Replied => Replied'
  OBVIOUS
<1>6. run'.patch.kind = "submitted" \/ host'.await = "candidate" =>
        run'.cp.decision = "submit" \/ (run'.recoveries = 1 /\ Replied')
  BY <1>5 DEF Clouded
<1> QED
  BY <1>0, <1>1, <1>2, <1>3, <1>4, <1>6 DEF Clouded

\* A row that goes on is not completed.
LEMMA GoesOn ==
    ASSUME Filing, Backed, host.place = "working", run'.status = run.status,
           Honest', Once', Decided', Live' => (Asked /\ Clouded)'
    PROVE  Backed'
<1>1. run'.status # "completed"
  BY DEF Filing, Placed, Running
<1>2. CompletedAsChecked'
  BY <1>1 DEF CompletedAsChecked
<1> QED
  BY <1>2 DEF Backed

\* A row whose phase, recovery and handoff are as before.
LEMMA OnceOn ==
    ASSUME Once, run'.recoveries = run.recoveries, run'.status = run.status,
           run.recoveries = 1 => run'.handoff = run.handoff /\ run'.phase \in {run.phase, "checking"}
    PROVE  Once'
BY DEF Once, HasHandoff, Running

\* The requests of a row are the same ones.
LEMMA QuietSame ==
    ASSUME QuietRow(run')
    PROVE  (Replied <=> Replied') /\ (Opens("cloud") <=> Opens("cloud")')
BY DEF QuietRow, Replied, Opens

\* No admission is given.
LEMMA CalmInbox ==
    ASSUME Inv, inbox' = inbox \/ \E x \in Answers : x.type # "admitted" /\ inbox' = Append(inbox, x)
    PROVE  Granted(inbox') = Granted(inbox)
<1>1. ASSUME NEW x \in Answers, x.type # "admitted"
      PROVE  Granted(Append(inbox, x)) = Granted(inbox)
  <2>1. Granted(inbox) \in Nat /\ inbox \in Seq(Answers)
    BY GrantedFinite DEF Inv
  <2>2. Granted(Append(inbox, x)) = Granted(inbox) + IF x.type = "admitted" THEN 1 ELSE 0
    BY <2>1, GrantedAppend
  <2> QED
    BY <1>1, <2>1, <2>2
<1>2. CASE inbox' = inbox
  BY <1>2
<1>3. CASE \E x \in Answers : x.type # "admitted" /\ inbox' = Append(inbox, x)
  <2>1. PICK x \in Answers : x.type # "admitted" /\ inbox' = Append(inbox, x)
    BY <1>3
  <2>2. Granted(Append(inbox, x)) = Granted(inbox)
    BY <1>1, <2>1
  <2> QED
    BY <2>1, <2>2
<1> QED
  BY <1>2, <1>3

\* Events that file nothing.
LEMMA PassBacks ==
    ASSUME Inv, Filing, Backed, Passes
    PROVE  Backed'
<1>1. Takes /\ Keeps(run', Told \ {"phase", "handoff"}) /\ host'.await # "candidate"
      /\ (host.stopped => host'.stopped)
  BY DEF Passes, Stays
<1>2. /\ run'.status = run.status /\ run'.cp = run.cp /\ run'.recoveries = run.recoveries
      /\ run'.patch = run.patch
      /\ run'.check.src = run.check.src /\ run'.check.after = run.check.after
      /\ run'.check.passed = run.check.passed
  BY <1>1, KeptFields DEF Filing, Shaped, Told
<1>3. Honest'
  BY <1>2 DEF Backed, Honest
<1>4. Once'
  <2>1. run.status = "running" /\ host.place = "working"
    BY <1>1 DEF Takes, Filing, Placed, Running
  <2>2. /\ run'.phase # run.phase => run.phase \notin {"checking", "cloud_solver"}
        /\ run'.handoff # run.handoff => run.recoveries = 0
    BY DEF Passes
  <2>3. run.recoveries = 1 => run.phase \in {"cloud_solver", "checking"}
    BY <2>1 DEF Backed, Once, Running
  <2> QED
    BY <1>2, <2>2, <2>3, OnceOn DEF Backed
<1>5. Decided'
  BY <1>1, <1>2, DecidedOn DEF Backed, Decided
<1>6. ASSUME Live'
      PROVE  (Asked /\ Clouded)'
  <2>1. ~host'.stopped /\ Live
    BY <1>1, <1>6 DEF Live, Takes
  <2>2. QuietRow(run') /\ Kind(Event) \in {"early", "late"}
    BY <2>1 DEF Passes, Calm
  <2>3. Granted(inbox') = Granted(inbox)
    BY CalmInbox DEF Passes, Calm
  <2>4. Asked'
    BY <1>1, <2>1, <2>3, AskedOn DEF Backed
  <2>5. Clouded'
    BY <1>1, <1>2, <2>1, <2>2, QuietSame, CloudedOn DEF Backed
  <2> QED
    BY <2>4, <2>5
<1> QED
  BY <1>1, <1>2, <1>3, <1>4, <1>5, <1>6, GoesOn DEF Takes

\* What the host had put off for the critic's context.
LEMMA ResumeBacks ==
    ASSUME Inv, Filing, Backed, Resumes
    PROVE  Backed'
<1>1. pipe' = pipe /\ w' = w /\ Keeps(run', Told) /\ host'.await = "none" /\ host'.place = host.place
      /\ (host.stopped => host'.stopped) /\ host.place = "working"
  BY DEF Resumes, Stays, Filing, Placed
<1>2. /\ run'.status = run.status /\ run'.phase = run.phase /\ run'.cp = run.cp
      /\ run'.recoveries = run.recoveries /\ run'.patch = run.patch /\ run'.handoff = run.handoff
      /\ run'.check.src = run.check.src /\ run'.check.after = run.check.after
      /\ run'.check.passed = run.check.passed
  BY <1>1, KeptFields DEF Filing, Shaped, Told
<1>3. Honest' /\ Once' /\ Decided'
  <2>1. Honest'
    BY <1>2 DEF Backed, Honest
  <2>2. Once'
    BY <1>2, OnceOn DEF Backed
  <2>3. Decided'
    BY <1>1, <1>2 DEF Backed, Decided
  <2> QED
    BY <2>1, <2>2, <2>3
<1>4. ASSUME Live'
      PROVE  (Asked /\ Clouded)'
  <2>1. ~host'.stopped /\ Live
    BY <1>1, <1>4 DEF Live
  <2>2. QuietRow(run')
    BY <2>1 DEF Resumes, Calm
  <2>3. Granted(inbox') = Granted(inbox)
    BY CalmInbox DEF Resumes, Calm
  <2>4. Asked'
    <3>1. \A phase : Opens(phase) => run'.last = [phase |-> phase, state |-> "started"]
      BY <2>2 DEF QuietRow, Opens
    <3> QED
      BY <1>1, <2>1, <2>3, <3>1 DEF Backed, Asked, Opens
  <2>5. Heard => Heard'
    BY <1>1, <1>2 DEF Heard
  <2>6. Reply => Reply'
    BY <1>1, <2>2, QuietSame DEF Reply
  <2>7. Clouded'
    BY <1>1, <1>2, <2>1, <2>2, <2>5, <2>6, QuietSame DEF Backed, Clouded
  <2> QED
    BY <2>4, <2>7
<1> QED
  BY <1>1, <1>2, <1>3, <1>4, GoesOn

\* The books of a row whose request starts, or is answered.
LEMMA RequestBooks ==
    ASSUME Inv, Row(run)
    PROVE  /\ \A phase : LET q == StartRequest(ReserveRequest(run, phase))
                         IN  q.last = [phase |-> phase, state |-> "started"] /\ q.receipts = run.receipts
           /\ \A cost : LET q == Settle(run, "succeeded", cost)
                        IN  q.receipts = [run.receipts EXCEPT ![run.last.phase] = @ + 1]
<1>1. ASSUME NEW phase
      PROVE  LET q == StartRequest(ReserveRequest(run, phase))
             IN  q.last = [phase |-> phase, state |-> "started"] /\ q.receipts = run.receipts
  <2> DEFINE q == ReserveRequest(run, phase)
  <2>1. DOMAIN q = RowFields /\ q.last = [phase |-> phase, state |-> "reserved"] /\ q.receipts = run.receipts
    BY DEF Row, RowFields, ReserveRequest
  <2> HIDE DEF q
  <2>2. StartRequest(q).last = [q.last EXCEPT !.state = "started"] /\ StartRequest(q).receipts = q.receipts
    BY <2>1 DEF StartRequest, RowFields
  <2>3. StartRequest(q).last = [phase |-> phase, state |-> "started"]
    BY <2>1, <2>2
  <2> QED
    BY <2>1, <2>2, <2>3 DEF q
<1>2. ASSUME NEW cost
      PROVE  LET q == Settle(run, "succeeded", cost)
             IN  q.receipts = [run.receipts EXCEPT ![run.last.phase] = @ + 1]
  BY DEF Row, RowFields, Settle
<1> QED
  BY <1>1, <1>2

\* A row all of whose told fields were kept.
LEMMA ToldBacks ==
    ASSUME Filing, Backed, Takes, Stays("none"), Keeps(run', Told), Live' => (Asked /\ Clouded)'
    PROVE  Backed'
<1>1. /\ run'.status = run.status /\ run'.phase = run.phase /\ run'.cp = run.cp
      /\ run'.recoveries = run.recoveries /\ run'.handoff = run.handoff
      /\ run'.check.src = run.check.src /\ run'.check.after = run.check.after
      /\ run'.check.passed = run.check.passed
  BY KeptFields DEF Filing, Shaped, Told
<1>2. Honest'
  BY <1>1 DEF Backed, Honest
<1>3. Once'
  BY <1>1, OnceOn DEF Backed
<1>4. Decided'
  BY <1>1, DecidedOn DEF Backed, Decided
<1> QED
  BY <1>1, <1>2, <1>3, <1>4, GoesOn DEF Takes

\* A request is admitted, of the phase the worker is in.
LEMMA AdmitBacks ==
    ASSUME Inv, Filing, Backed, Admits
    PROVE  Backed'
<1>1. /\ Takes /\ Stays("none") /\ Keeps(run', Told) /\ Kind(Event) = "prepare" /\ ~Unresolved(run)
      /\ run' = StartRequest(ReserveRequest(run, Event.phase))
      /\ inbox' = Append(inbox, [type |-> "admitted"])
  BY DEF Admits
<1>2. run'.last = [phase |-> Event.phase, state |-> "started"] /\ run'.receipts = run.receipts
  BY <1>1, RequestBooks DEF Filing, Shaped
<1>3. Says(pipe, "prepare") /\ w' = w
  BY <1>1, Taken, Left
<1>4. ASSUME Live
      PROVE  Asked'
  <2>1. CASE w.at \in Quitting
    BY <1>3, <2>1 DEF Asked
  <2>2. CASE w.at \notin Quitting
    <3>1. w.at = "admission" /\ Granted(inbox) = 0 /\ PreparedLast(pipe, w.phase)
      BY <1>3, <1>4, <2>2 DEF Backed, Asked
    <3>2. pipe' = <<>> /\ Event.phase = w.phase
      BY <1>1, <3>1, Left
    <3>3. Granted(inbox') = 1
      <4> DEFINE x == [type |-> "admitted"]
      <4>1. x \in Answers /\ x.type = "admitted" /\ inbox' = Append(inbox, x)
        BY <1>1 DEF Answers
      <4> HIDE DEF x
      <4>2. Granted(Append(inbox, x)) = Granted(inbox) + IF x.type = "admitted" THEN 1 ELSE 0
        BY <4>1, GrantedAppend DEF Inv
      <4> QED
        BY <3>1, <4>1, <4>2
    <3>4. ~Says(pipe', "prepare") /\ PreparedLast(pipe', w'.phase)
      BY <3>2, Single
    <3> QED
      BY <1>2, <1>3, <3>1, <3>2, <3>3, <3>4 DEF Asked, Opens
  <2> QED
    BY <2>1, <2>2
<1>5. ASSUME Live
      PROVE  Clouded'
  <2>1. ~Opens("cloud")
    BY <1>1 DEF Opens, Unresolved
  <2>2. Replied => Replied'
    BY <1>2 DEF Replied
  <2>3. /\ run'.cp = run.cp /\ run'.recoveries = run.recoveries /\ run'.patch = run.patch
        /\ host'.await # "candidate"
    BY <1>1, KeptFields DEF Filing, Shaped, Told, Stays
  <2> QED
    BY <1>1, <1>5, <2>1, <2>2, <2>3, CloudedOn DEF Backed
<1>6. Live' => Live
  BY <1>1 DEF Live, Stays, Takes
<1> QED
  BY <1>1, <1>4, <1>5, <1>6, ToldBacks

\* The answer to a request of the cloud is a reply.
LEMMA SettleBacks ==
    ASSUME Inv, Filing, Backed, Settles
    PROVE  Backed'
<1>1. /\ Takes /\ Stays("none") /\ Keeps(run', Told) /\ Kind(Event) = "finished"
      /\ run' = Settle(run, "succeeded", Event.cost) /\ inbox' = inbox
  BY DEF Settles
<1>2. run'.receipts = [run.receipts EXCEPT ![run.last.phase] = @ + 1]
  BY <1>1, RequestBooks DEF Filing, Shaped
<1>3. run.receipts \in [RequestPhases -> Nat] /\ "cloud" \in RequestPhases
  BY DEF Inv, Books, RequestPhases
<1>4. Replied => Replied'
  BY <1>2, <1>3 DEF Replied
<1>5. Opens("cloud") => Replied'
  <2>1. Opens("cloud") => run.last.phase = "cloud"
    BY DEF Opens
  <2>2. Opens("cloud") => run'.receipts["cloud"] = run.receipts["cloud"] + 1
    BY <1>2, <1>3, <2>1
  <2> QED
    BY <1>3, <2>2 DEF Replied
<1>6. /\ run'.cp = run.cp /\ run'.recoveries = run.recoveries /\ run'.patch = run.patch
      /\ host'.await # "candidate"
  BY <1>1, KeptFields DEF Filing, Shaped, Told, Stays
<1>7. ASSUME Live
      PROVE  (Asked /\ Clouded)'
  <2>1. Asked'
    BY <1>1, <1>7, AskedOn DEF Backed
  <2>2. Clouded'
    BY <1>1, <1>4, <1>5, <1>6, <1>7, CloudedOn DEF Backed
  <2> QED
    BY <2>1, <2>2
<1>8. Live' => Live
  BY <1>1 DEF Live, Stays, Takes
<1> QED
  BY <1>1, <1>7, <1>8, ToldBacks

\* The cloud takes over once, from a handoff.
LEMMA EscalateBacks ==
    ASSUME Inv, Filing, Backed, Escalates
    PROVE  Backed'
<1>1. /\ Takes /\ host' = host /\ Kind(Event) = "cloud" /\ inbox' = inbox
      /\ HasHandoff(run) /\ run.recoveries = 0 /\ run.cp.decision = "escalate"
      /\ run' = BeginCloudRecovery(run)
  BY DEF Escalates, CanBeginCloudRecovery
<1>2. Keeps(run', Told \ {"phase", "recoveries"}) /\ run'.phase = "cloud_solver" /\ run'.recoveries = 1
  BY <1>1, RowWrites DEF Filing, Shaped
<1>3. /\ run'.status = run.status /\ run'.cp = run.cp /\ run'.patch = run.patch /\ run'.handoff = run.handoff
      /\ run'.check.src = run.check.src /\ run'.check.after = run.check.after
      /\ run'.check.passed = run.check.passed
  BY <1>2, KeptFields DEF Filing, Shaped, Told
<1>4. QuietRow(run')
  BY <1>1, RowQuiet
<1>5. Honest'
  BY <1>3 DEF Backed, Honest
<1>6. Once'
  BY <1>1, <1>2, <1>3 DEF Once, HasHandoff
<1>7. Decided'
  BY <1>1, <1>3, DecidedOn DEF Backed
<1>8. ASSUME Live
      PROVE  (Asked /\ Clouded)'
  <2>1. Asked'
    BY <1>1, <1>8, AskedOn DEF Backed
  <2>2. host'.await # "candidate"
    BY <1>1 DEF Takes
  <2>3. Clouded'
    BY <1>1, <1>2, <1>3, <1>4, <1>8, <2>2, QuietSame, CloudedOn DEF Backed
  <2> QED
    BY <2>1, <2>3
<1>9. Live' => Live
  BY <1>1 DEF Live
<1> QED
  BY <1>1, <1>3, <1>5, <1>6, <1>7, <1>8, <1>9, GoesOn DEF Takes

\* A decision to submit is about the tree the exact check passed on; it is the last one.
LEMMA JudgeBacks ==
    ASSUME Inv, Filing, Backed, Judges
    PROVE  Backed'
<1>1. /\ Takes /\ Stays("none") /\ Event.type = "checkpoint" /\ run' = RecordCheckpoint(run, Event.cp)
      /\ Kind(Event) = (IF Event.cp.decision = "submit" THEN "submit" ELSE "early") /\ inbox' = inbox
      /\ AdmitsSubmission(run, Event.cp) /\ Running(run)
  BY DEF Judges, Kind, CanRecordCheckpoint
<1>2. Keeps(run', Told \ {"cp"}) /\ run'.cp = Event.cp
  BY <1>1, RowWrites DEF Filing, Shaped
<1>3. /\ run'.status = run.status /\ run'.phase = run.phase /\ run'.patch = run.patch
      /\ run'.recoveries = run.recoveries /\ run'.handoff = run.handoff
      /\ run'.check.src = run.check.src /\ run'.check.after = run.check.after
      /\ run'.check.passed = run.check.passed
  BY <1>2, KeptFields DEF Filing, Shaped, Told
<1>4. run.cp.decision # "submit"
  <2>1. Only(pipe, Closing) => Kind(Event) \in Closing
    BY <1>1, Left
  <2> QED
    BY <1>1, <2>1 DEF Backed, Decided, Closing
<1>5. Honest' /\ Once'
  <2>1. Honest'
    BY <1>3 DEF Backed, Honest
  <2>2. Once'
    BY <1>3, OnceOn DEF Backed
  <2> QED
    BY <2>1, <2>2
<1>6. w' = w /\ (Says(pipe', "submit") => Says(pipe, "submit")) /\ Closes(pipe') /\ Says(pipe, Kind(Event))
  BY <1>1, Taken, Left DEF Backed, Decided
<1>7. Decided'
  <2>1. CASE Event.cp.decision = "submit"
    <3>1. run.recoveries = 0
      BY <1>1, <2>1 DEF AdmitsSubmission, Backed, Once
    <3>2. Only(pipe', Closing)
      BY <1>1, <2>1, Left DEF Backed, Decided
    <3>3. run.check.passed /\ run.check.src = Event.cp.src
      BY <1>1, <2>1 DEF AdmitsSubmission
    <3>4. w.at \in {"finish", "verify"} \cup Quitting /\ (w.at # "gone" => w.r.state = "submitted")
      BY <1>1, <1>6, <2>1 DEF Backed, Decided
    <3> QED
      BY <1>2, <1>3, <1>6, <3>1, <3>2, <3>3, <3>4 DEF Decided
  <2>2. CASE Event.cp.decision # "submit"
    BY <1>2, <1>6, <2>2 DEF Backed, Decided
  <2> QED
    BY <2>1, <2>2
<1>8. ASSUME Live
      PROVE  (Asked /\ Clouded)'
  <2>1. Asked'
    BY <1>1, <1>8, AskedOn DEF Backed
  <2>2. QuietRow(run')
    BY <1>1, RowQuiet
  <2>3. host'.await # "candidate" /\ Kind(Event) \notin {"cloud", "finished"}
    BY <1>1 DEF Stays
  <2>4. run.cp.decision = "submit" \/ Kind(Event) = "submit" => run'.cp.decision = "submit"
    BY <1>1, <1>2, <1>4
  <2>5. Clouded'
    BY <1>1, <1>3, <1>8, <2>2, <2>3, <2>4, QuietSame, CloudedOn DEF Backed
  <2> QED
    BY <2>1, <2>5
<1>9. Live' => Live
  BY <1>1 DEF Live, Stays, Takes
<1> QED
  BY <1>1, <1>3, <1>5, <1>7, <1>8, <1>9, GoesOn DEF Takes

\* A check is recorded as it was reported, and only before the decision.
LEMMA CheckBacks ==
    ASSUME Inv, Filing, Backed, Checks
    PROVE  Backed'
<1>1. /\ Takes /\ Stays("none") /\ Event.type = "checked" /\ Kind(Event) = "early" /\ inbox' = inbox
      /\ (Event.check.passed => Event.check.src = Event.check.after)
      /\ run' = RecordCheckpointCheck(run, Event.check)
  BY DEF Checks, Kind, CanRecordCheckpointCheck
<1>2. DOMAIN Event.check = CheckFields
  BY <1>1, Taken DEF Phrased
<1>3. run'.check = Event.check /\ \A f \in Told : run'[f] = run[f]
  BY <1>1, <1>2, RowWrites DEF Filing, Shaped
<1>4. /\ run'.status = run.status /\ run'.phase = run.phase /\ run'.patch = run.patch
      /\ run'.recoveries = run.recoveries /\ run'.handoff = run.handoff /\ run'.cp = run.cp
  BY <1>3 DEF Told
<1>5. run.cp.decision # "submit"
  <2>1. Only(pipe, Closing) => Kind(Event) \in Closing
    BY <1>1, Left
  <2> QED
    BY <1>1, <2>1 DEF Backed, Decided, Closing
<1>6. Honest'
  BY <1>1, <1>3 DEF Honest
<1>7. Once'
  BY <1>4, OnceOn DEF Backed
<1>8. Decided'
  BY <1>1, <1>4, <1>5, DecidedOn DEF Backed
<1>9. ASSUME Live
      PROVE  (Asked /\ Clouded)'
  <2>1. Asked'
    BY <1>1, <1>9, AskedOn DEF Backed
  <2>2. QuietRow(run') /\ host'.await # "candidate"
    BY <1>1, RowQuiet DEF Stays
  <2>3. Clouded'
    BY <1>1, <1>4, <1>9, <2>2, QuietSame, CloudedOn DEF Backed
  <2> QED
    BY <2>1, <2>3
<1>10. Live' => Live
  BY <1>1 DEF Live, Stays, Takes
<1> QED
  BY <1>1, <1>4, <1>6, <1>7, <1>8, <1>9, <1>10, GoesOn DEF Takes

\* The row a patch is filed in.
LEMMA PatchedRow ==
    ASSUME Inv, Row(run), NEW kind \in {"submitted", "recovered"}, NEW src, run' = RecordPatch(run, kind, src)
    PROVE  /\ run'.status = run.status /\ run'.phase = run.phase /\ run'.cp = run.cp
           /\ run'.recoveries = run.recoveries /\ run'.handoff = run.handoff
           /\ run'.check.src = run.check.src /\ run'.check.after = run.check.after
           /\ run'.check.passed = run.check.passed
           /\ kind = "recovered" /\ run'.patch.kind = "submitted" => run.patch.kind = "submitted"
           /\ (Replied <=> Replied') /\ (Opens("cloud") <=> Opens("cloud")')
<1>1. Keeps(run', Told \ {"patch", "checks"})
  <2>1. CASE kind = "submitted"
    <3>1. Keeps(run', Told \ {"patch"})
      BY <2>1, RowPatched
    <3> QED
      BY <3>1 DEF Keeps
  <2>2. CASE kind = "recovered" /\ run.patch.kind = "submitted"
    <3>1. run' = run
      BY <2>2, RowPatched
    <3> QED
      BY <3>1, RowKeeps DEF Keeps
  <2>3. CASE kind = "recovered" /\ run.patch.kind # "submitted"
    BY <2>3, RowPatched
  <2> QED
    BY <2>1, <2>2, <2>3
<1>2. kind = "recovered" /\ run.patch.kind # "submitted" => run'.patch.kind = "recovered"
  BY RowPatched
<1>3. QuietRow(run')
  BY RowQuiet
<1> QED
  BY <1>1, <1>2, <1>3, KeptFields, QuietSame DEF Told

\* A submission is filed when its decision, or the cloud's reply, has been read.
LEMMA PatchBacks ==
    ASSUME Inv, Filing, Backed, Recovered \/ Files \/ Rebuilds
    PROVE  Backed'
<1>1. /\ Takes /\ inbox' = inbox /\ (host' = host \/ Stays("candidate"))
      /\ Recovered => Kind(Event) = "late" /\ host' = host
      /\ Files => Kind(Event) = "patch" /\ host' = host
      /\ Rebuilds => Kind(Event) = "patch" /\ run.cp.decision = "submit"
      /\ \/ run' = run /\ Rebuilds
         \/ \E kind, src : kind \in {"submitted", "recovered"} /\
                run' = RecordPatch(run, kind, src) /\ (kind = "submitted" => Files)
  BY DEF Recovered, Files, Rebuilds, Kind
<1>2. /\ run'.status = run.status /\ run'.phase = run.phase /\ run'.cp = run.cp
      /\ run'.recoveries = run.recoveries /\ run'.handoff = run.handoff
      /\ run'.check.src = run.check.src /\ run'.check.after = run.check.after
      /\ run'.check.passed = run.check.passed
      /\ run'.patch.kind = "submitted" => run.patch.kind = "submitted" \/ Files
      /\ (Replied <=> Replied') /\ (Opens("cloud") <=> Opens("cloud")')
  <2>1. CASE run' = run
    BY <2>1 DEF Replied, Opens
  <2>2. CASE run' # run
    <3>1. PICK kind, src : kind \in {"submitted", "recovered"} /\
                 run' = RecordPatch(run, kind, src) /\ (kind = "submitted" => Files)
      BY <1>1, <2>2
    <3>2. Row(run)
      BY DEF Filing, Shaped
    <3> QED
      BY <3>1, <3>2, PatchedRow
  <2> QED
    BY <2>1, <2>2
<1>3. Honest'
  BY <1>2 DEF Backed, Honest
<1>4. Once'
  BY <1>2, OnceOn DEF Backed
<1>5. Decided'
  BY <1>1, <1>2, DecidedOn DEF Backed, Decided
<1>6. Live' => Live
  BY <1>1 DEF Live, Stays, Takes
<1>7. ASSUME Live
      PROVE  (Asked /\ Clouded)'
  <2>1. Asked'
    BY <1>1, <1>7, AskedOn DEF Backed
  <2>2. Files => run.cp.decision = "submit" \/ (run.recoveries = 1 /\ Replied)
    <3>1. \A a : Leads(pipe, a, "patch") => Kind(Event) # "patch"
      BY <1>1, Left
    <3> QED
      BY <1>1, <1>7, <3>1 DEF Backed, Clouded
  <2>3. host'.await = "candidate" => run.cp.decision = "submit"
    BY <1>1 DEF Takes
  <2>4. Kind(Event) \notin {"cloud", "finished", "submit"}
    BY <1>1
  <2>5. Clouded'
    BY <1>1, <1>2, <1>7, <2>2, <2>3, <2>4, CloudedOn DEF Backed
  <2> QED
    BY <2>1, <2>5
<1> QED
  BY <1>1, <1>2, <1>3, <1>4, <1>5, <1>6, <1>7, GoesOn DEF Takes

\* What the host had put off to reconstruct a submission.
LEMMA ConfirmBacks ==
    ASSUME Inv, Filing, Backed, Confirms
    PROVE  Backed'
<1>1. pipe' = pipe /\ w' = w /\ inbox' = inbox /\ host'.await = "none" /\ host'.place = host.place
      /\ (host.stopped => host'.stopped) /\ host.place = "working" /\ host.await = "candidate"
      /\ (run' = run \/ run' = RecordPatch(run, "submitted", run.cp.src))
  BY DEF Confirms, Stays, Filing, Placed
<1>2. /\ run'.status = run.status /\ run'.phase = run.phase /\ run'.cp = run.cp
      /\ run'.recoveries = run.recoveries /\ run'.handoff = run.handoff
      /\ run'.check.src = run.check.src /\ run'.check.after = run.check.after
      /\ run'.check.passed = run.check.passed
      /\ (Replied <=> Replied') /\ (\A phase : Opens(phase) <=> run'.last = [phase |-> phase, state |-> "started"])
  <2>1. CASE run' = run
    BY <2>1 DEF Replied, Opens
  <2>2. CASE run' = RecordPatch(run, "submitted", run.cp.src)
    <3>1. Row(run)
      BY DEF Filing, Shaped
    <3>2. QuietRow(run')
      BY <2>2, RowQuiet
    <3> QED
      BY <2>2, <3>1, <3>2, PatchedRow DEF QuietRow, Opens
  <2> QED
    BY <1>1, <2>1, <2>2
<1>3. Honest' /\ Once' /\ Decided'
  <2>1. Honest'
    BY <1>2 DEF Backed, Honest
  <2>2. Once'
    BY <1>2, OnceOn DEF Backed
  <2>3. Decided'
    BY <1>1, <1>2 DEF Backed, Decided
  <2> QED
    BY <2>1, <2>2, <2>3
<1>4. ASSUME Live'
      PROVE  (Asked /\ Clouded)'
  <2>1. Live
    BY <1>1, <1>4 DEF Live
  <2>2. Asked'
    BY <1>1, <1>2, <2>1 DEF Backed, Asked, Opens
  <2>3. (Opens("cloud") <=> Opens("cloud")') /\ (Heard <=> Heard')
    BY <1>1, <1>2 DEF Opens, Heard
  <2>4. Reply <=> Reply'
    BY <1>1, <1>2, <2>3 DEF Reply
  <2>5. run'.cp.decision = "submit" \/ (run'.recoveries = 1 /\ Replied')
    BY <1>1, <1>2, <2>1 DEF Backed, Clouded
  <2>6. Clouded'
    BY <1>1, <1>2, <2>1, <2>3, <2>4, <2>5 DEF Backed, Clouded
  <2> QED
    BY <2>2, <2>6
<1> QED
  BY <1>1, <1>2, <1>3, <1>4, GoesOn

\* The final check begins and is recorded.
LEMMA FinalBacks ==
    ASSUME Inv, Filing, Backed, Finals \/ Verifying
    PROVE  Backed'
<1>1. /\ Takes /\ inbox' = inbox /\ (host' = host \/ Stays("none")) /\ Kind(Event) \in {"verified", "verifying"}
      /\ (\E x : run' = RecordChecks(run, x)) \/ run' = SetPhase(run, "checking")
  BY DEF Finals, Verifying
<1>2. /\ QuietRow(run') /\ Keeps(run', Told \ {"checks", "phase"})
      /\ run'.phase \in {run.phase, "checking"}
  <2>0. Row(run)
    BY DEF Filing, Shaped
  <2>1. CASE \E x : run' = RecordChecks(run, x)
    <3>1. PICK x : run' = RecordChecks(run, x)
      BY <2>1
    <3>2. QuietRow(RecordChecks(run, x))
      BY RowQuiet
    <3>3. Keeps(RecordChecks(run, x), Told \ {"checks"})
      BY <2>0, RowWrites
    <3> QED
      BY <3>1, <3>2, <3>3 DEF Keeps, Told
  <2>2. CASE run' = SetPhase(run, "checking")
    <3>1. QuietRow(SetPhase(run, "checking"))
      BY RowQuiet
    <3>2. Keeps(SetPhase(run, "checking"), Told \ {"phase"}) /\ SetPhase(run, "checking").phase = "checking"
      BY <2>0, RowWrites
    <3> QED
      BY <2>2, <3>1, <3>2 DEF Keeps
  <2> QED
    BY <1>1, <2>1, <2>2
<1>3. /\ run'.status = run.status /\ run'.cp = run.cp /\ run'.patch = run.patch
      /\ run'.recoveries = run.recoveries /\ run'.handoff = run.handoff
      /\ run'.check.src = run.check.src /\ run'.check.after = run.check.after
      /\ run'.check.passed = run.check.passed
  BY <1>2, KeptFields DEF Filing, Shaped, Told
<1>4. Honest'
  BY <1>3 DEF Backed, Honest
<1>5. Once'
  BY <1>2, <1>3, OnceOn DEF Backed
<1>6. Decided'
  BY <1>1, <1>3, DecidedOn DEF Backed, Decided
<1>7. Live' => Live
  BY <1>1 DEF Live, Stays, Takes
<1>8. ASSUME Live
      PROVE  (Asked /\ Clouded)'
  <2>1. Asked'
    BY <1>1, <1>8, AskedOn DEF Backed
  <2>2. host'.await # "candidate" /\ Kind(Event) \notin {"cloud", "finished", "submit"}
    BY <1>1 DEF Stays, Takes
  <2>3. Clouded'
    BY <1>1, <1>2, <1>3, <1>8, <2>2, QuietSame, CloudedOn DEF Backed
  <2> QED
    BY <2>1, <2>3
<1> QED
  BY <1>1, <1>3, <1>4, <1>5, <1>6, <1>7, <1>8, GoesOn DEF Takes

-----------------------------------------------------------------------------
(* The beginning and the end of a run. *)

\* A run that has just ended, its worker's reports as they were.
LEMMA EndBacks ==
    ASSUME Filing, Backed, NEW status, status # "running", run' = Finish(run, status),
           w' = w, pipe' = pipe, host'.place # "working", CompletedAsChecked'
    PROVE  Backed'
<1>1. Keeps(run', Told \ {"status", "phase"}) /\ run'.status = status
  BY RowFinished DEF Filing, Shaped
<1>2. /\ run'.cp = run.cp /\ run'.recoveries = run.recoveries /\ run'.handoff = run.handoff
      /\ run'.check.src = run.check.src /\ run'.check.after = run.check.after
      /\ run'.check.passed = run.check.passed
  BY <1>1, KeptFields DEF Filing, Shaped, Told
<1>3. Honest' /\ Decided' /\ ~Live'
  BY <1>2 DEF Backed, Honest, Decided, Live
<1>4. Once'
  BY <1>1, <1>2 DEF Backed, Once, HasHandoff, Running
<1> QED
  BY <1>3, <1>4 DEF Backed

\* A host that no longer follows the worker, and a row that kept what was told.
LEMMA IdleBacks ==
    ASSUME Filing, Backed, Keeps(run', Told), run' = run \/ Running(run) \/ run'.receipts = run.receipts,
           w'.at = w.at, w'.r = w.r, pipe' = pipe \/ pipe' = <<>>, ~Live'
    PROVE  Backed'
<1>1. /\ run'.status = run.status /\ run'.phase = run.phase /\ run'.cp = run.cp
      /\ run'.recoveries = run.recoveries /\ run'.handoff = run.handoff
      /\ run'.patch = run.patch /\ run'.checks = run.checks
      /\ run'.check.src = run.check.src /\ run'.check.after = run.check.after
      /\ run'.check.passed = run.check.passed
  BY KeptFields DEF Filing, Shaped, Told
<1>2. Honest'
  BY <1>1 DEF Backed, Honest
<1>3. Once'
  BY <1>1, OnceOn DEF Backed
<1>4. Decided'
  <2>1. CASE pipe' = pipe
    BY <1>1, <2>1 DEF Backed, Decided
  <2>2. CASE pipe' = <<>>
    <3>1. Closes(pipe') /\ Only(pipe', Closing) /\ ~Says(pipe', "submit")
      BY <2>2, Single
    <3> QED
      BY <1>1, <3>1 DEF Backed, Decided
  <2> QED
    BY <2>1, <2>2
<1>5. CompletedAsChecked'
  <2>1. CASE run' = run \/ run'.receipts = run.receipts
    BY <1>1, <2>1 DEF Backed, CompletedAsChecked, HasHandoff
  <2>2. CASE Running(run)
    BY <1>1, <2>2 DEF Running, CompletedAsChecked
  <2> QED
    BY <2>1, <2>2
<1> QED
  BY <1>2, <1>3, <1>4, <1>5 DEF Backed

\* The start of a run: nothing was asked or recorded yet.
LEMMA StartBacks ==
    ASSUME Inv, Filing, Backed, StartRun \/ Launch
    PROVE  Backed'
<1>1. CASE StartRun
  <2>1. /\ run.status = "created" /\ run' = Start(run) /\ host' = [host EXCEPT !.place = "preparing"]
        /\ UNCHANGED <<w, pipe>>
    BY <1>1 DEF StartRun
  <2>2. /\ Keeps(run', Told \ {"status", "phase"}) /\ run'.status = "running"
    BY <2>1, RowWrites DEF Filing, Shaped
  <2>3. /\ run'.cp = run.cp /\ run'.recoveries = run.recoveries
        /\ run'.check.src = run.check.src /\ run'.check.after = run.check.after
        /\ run'.check.passed = run.check.passed
    BY <2>2, KeptFields DEF Filing, Shaped, Told
  <2>4. run.recoveries = 0 /\ host'.place = "preparing"
    BY <2>1 DEF Filing, Placed, Fresh, Shaped, HostFields
  <2>5. Honest' /\ Once' /\ Decided' /\ ~Live' /\ CompletedAsChecked'
    <3>1. Honest' /\ ~Live' /\ CompletedAsChecked'
      BY <2>2, <2>3, <2>4 DEF Backed, Honest, Live, CompletedAsChecked
    <3>2. Once'
      BY <2>3, <2>4 DEF Once
    <3>3. Decided'
      BY <2>1, <2>3 DEF Backed, Decided
    <3> QED
      BY <3>1, <3>2, <3>3
  <2> QED
    BY <2>5 DEF Backed
<1>2. CASE Launch
  <2> DEFINE ready == [type |-> "ready"]
  <2>1. /\ host.place = "preparing" /\ run' = SetPhase(run, "preparing") /\ Running(run)
        /\ host' = [host EXCEPT !.place = "working"]
        /\ w' = [NoWorker EXCEPT !.at = "boot"] /\ pipe' = <<ready>> /\ inbox' = inbox
    BY <1>2 DEF Launch, CanSetPhase
  <2>2. Kind(ready) = "early"
    BY DEF Kind
  <2> HIDE DEF ready
  <2>3. /\ Closes(pipe') /\ (\A k : Says(pipe', k) => k = "early")
        /\ \A a : Leads(pipe', a, "patch")
    BY <2>1, <2>2, Single
  <2>4. Keeps(run', Told \ {"phase"})
    BY <2>1, RowWrites DEF Filing, Shaped
  <2>5. /\ run'.status = run.status /\ run'.cp = run.cp /\ run'.recoveries = run.recoveries
        /\ run'.patch = run.patch
        /\ run'.check.src = run.check.src /\ run'.check.after = run.check.after
        /\ run'.check.passed = run.check.passed
    BY <2>4, KeptFields DEF Filing, Shaped, Told
  <2>6. host'.await = "none"
    BY <2>1 DEF Filing, Shaped, Placed, HostFields
  <2>7. w'.at = "boot" /\ w'.phase = "none"
    BY <2>1 DEF NoWorker
  <2>8. Fresh
    BY <2>1 DEF Filing, Placed
  <2>9. Honest' /\ Once' /\ CompletedAsChecked'
    <3>1. Honest'
      BY <2>5 DEF Backed, Honest
    <3>2. Once'
      BY <2>5, <2>8 DEF Once, Fresh
    <3>3. CompletedAsChecked'
      BY <2>1, <2>5 DEF Running, CompletedAsChecked
    <3> QED
      BY <3>1, <3>2, <3>3
  <2>10. Decided'
    BY <2>3, <2>5, <2>8 DEF Decided, Fresh
  <2>11. Asked'
    <3>1. inbox' = <<>> /\ ~Says(pipe', "prepare")
      BY <2>1, <2>3, <2>8 DEF Fresh
    <3>2. Granted(inbox') = 0
      BY <3>1, GrantedNone
    <3>3. PreparedLast(pipe', w'.phase)
      BY <3>1, Unprepared
    <3> QED
      BY <2>7, <3>1, <3>2, <3>3 DEF Asked
  <2>12. Clouded'
    BY <2>3, <2>5, <2>6, <2>7, <2>8 DEF Clouded, Fresh, Unfiled
  <2> QED
    BY <2>9, <2>10, <2>11, <2>12 DEF Backed
<1> QED
  BY <1>1, <1>2

\* The user, the clock, a crash and a restart.
LEMMA ControllerBacks ==
    ASSUME Inv, Filing, Backed,
           \/ StartRun \/ Preparation \/ Cancel \/ Decide \/ Crash \/ CrashInAdmission \/ Restart
           \/ HostDeadline
    PROVE  Backed'
<1>0. /\ Row(run) /\ DOMAIN host = HostFields /\ DOMAIN w = WorkerFields /\ Keeps(run, Told)
      /\ NewHost.place = "idle" /\ DOMAIN NewHost = HostFields
  BY RowKeeps, NewShapes DEF Filing, Shaped
<1>1. ASSUME NEW status \in {"cancelled", "blocked", "failed", "interrupted"}, run' = Finish(run, status),
             UNCHANGED <<w, pipe>>, host'.place # "working"
      PROVE  Backed'
  <2>1. run'.status = status
    BY <1>0, <1>1, RowFinished
  <2>2. CompletedAsChecked'
    BY <2>1 DEF CompletedAsChecked
  <2> QED
    BY <1>1, <2>2, EndBacks
<1>2. CASE NotLaunched
  <2>1. /\ \E status \in {"cancelled", "blocked", "failed"} : run' = Finish(run, status)
        /\ host' = [host EXCEPT !.place = "idle"] /\ UNCHANGED <<w, pipe>>
    BY <1>2 DEF NotLaunched
  <2>2. host'.place = "idle"
    BY <1>0, <2>1 DEF HostFields
  <2> QED
    BY <1>1, <2>1, <2>2
<1>3. CASE Cancel /\ host.place = "idle"
  <2>1. run' = Finish(run, "cancelled") /\ UNCHANGED <<host, w, pipe>>
    BY <1>3 DEF Cancel
  <2> QED
    BY <1>1, <1>3, <2>1
<1>4. CASE Cancel /\ host.place # "idle"
  <2>1. /\ UNCHANGED <<run, w, pipe>>
        /\ host' = [host EXCEPT !.cancelled = TRUE, !.stopped = @ \/ host.place = "working"]
    BY <1>4 DEF Cancel
  <2>2. ~Live'
    BY <1>0, <2>1 DEF Live, HostFields
  <2> QED
    BY <1>0, <2>1, <2>2, IdleBacks
<1>5. CASE HostDeadline
  <2>1. UNCHANGED <<run, w, pipe>> /\ host' = Failed(host, "ended")
    BY <1>5 DEF HostDeadline
  <2>2. ~Live'
    BY <1>0, <2>1, HostFailed DEF Live
  <2> QED
    BY <1>0, <2>1, <2>2, IdleBacks
<1>6. CASE Decide
  <2>1. PICK decision : run' = [run EXCEPT !.decision = decision]
    BY <1>6 DEF Decide
  <2>2. UNCHANGED <<host, w, pipe>> /\ ~Running(run)
    BY <1>6 DEF Decide, CanDecide, Terminal, Running
  <2>3. Keeps(run', Told) /\ run'.receipts = run.receipts
    BY <1>0, <2>1, RowKeeps DEF Row, RowFields
  <2>4. ~Live'
    BY <2>2 DEF Live, Filing, Placed
  <2> QED
    BY <2>2, <2>3, <2>4, IdleBacks
<1>7. CASE Crash \/ CrashInAdmission
  <2>1. w' = [w EXCEPT !.orphan = TRUE] /\ pipe' = <<>> /\ host' = [NewHost EXCEPT !.up = FALSE]
    BY <1>7 DEF Crash, CrashInAdmission
  <2>2. Keeps(run', Told)
    <3>1. run' = run \/ \E phase : run' \in {ReserveRequest(run, phase), StartRequest(ReserveRequest(run, phase))}
      BY <1>7 DEF Crash, CrashInAdmission
    <3> QED
      BY <1>0, <3>1, RowKeeps
  <2>3. run' = run \/ Running(run)
    BY <1>7 DEF Crash, CrashInAdmission, Authorized, CanReserve
  <2>4. host'.place = "idle"
    BY <1>0, <2>1 DEF HostFields
  <2>5. w'.at = w.at /\ w'.r = w.r
    BY <1>0, <2>1 DEF WorkerFields
  <2>6. ~Live'
    BY <2>4 DEF Live
  <2> QED
    BY <2>1, <2>2, <2>3, <2>5, <2>6, IdleBacks
<1>8. CASE Restart
  <2>1. host' = NewHost /\ UNCHANGED <<w, pipe>> /\ (run' = run \/ run' = Finish(run, "interrupted"))
    BY <1>8 DEF Restart
  <2>2. host'.place = "idle" /\ ~Live'
    BY <1>0, <2>1 DEF Live
  <2>3. CASE run' = run
    BY <1>0, <2>1, <2>2, <2>3, IdleBacks
  <2>4. CASE run' = Finish(run, "interrupted")
    BY <1>1, <2>1, <2>2, <2>4
  <2> QED
    BY <2>1, <2>3, <2>4
<1> QED
  BY <1>2, <1>3, <1>4, <1>5, <1>6, <1>7, <1>8, StartBacks DEF Preparation

\* A run that may complete rests on its checks: what was submitted is what was checked.
LEMMA CompletionBacked ==
    ASSUME Filing, Backed, Live, CanComplete(run), run.checks.status # "not_run"
    PROVE  /\ run.patch.kind = "submitted" /\ run.patch.src # Base /\ run.checks.src = run.patch.src
           /\ run.recoveries = 0 =>
                run.check.passed /\ run.check.src = run.patch.src /\ run.check.after = run.patch.src
           /\ run.recoveries = 1 => HasHandoff(run) /\ run.receipts["cloud"] >= 1
<1>1. run.patch.kind = "submitted" /\ run.patch.src # Base
  BY DEF CanComplete
<1>2. PICK t : About(t)
  BY DEF Filing, OneTree
<1>3. run.patch.src = t /\ run.checks.src = t /\ (run.cp.decision = "submit" => run.cp.src = t)
  BY <1>1, <1>2 DEF About
<1>4. run.cp.decision = "submit" \/ (run.recoveries = 1 /\ Replied)
  BY <1>1 DEF Backed, Clouded
<1>5. run.cp.decision = "submit" => run.recoveries = 0 /\ run.check.passed /\ run.check.src = run.cp.src
  BY DEF Backed, Decided
<1>6. run.check.passed => run.check.src = run.check.after
  BY DEF Backed, Honest
<1>7. run.recoveries = 0 => run.check.passed /\ run.check.src = t /\ run.check.after = t
  BY <1>3, <1>4, <1>5, <1>6
<1>8. run.recoveries = 1 => HasHandoff(run) /\ run.receipts["cloud"] >= 1
  BY <1>4, <1>5 DEF Backed, Once, Replied
<1> QED
  BY <1>1, <1>3, <1>7, <1>8

\* The worker's end completes only such a run.
LEMMA CloseBacks ==
    ASSUME Filing, Backed, WorkerClosed
    PROVE  Backed'
<1>0. Row(run) /\ NewHost.place = "idle" /\ DOMAIN NewHost = HostFields
  BY NewShapes DEF Filing, Shaped
<1>1. PICK removed \in BOOLEAN : run' = Finish(run, Outcome(removed))
  BY DEF WorkerClosed
<1> DEFINE status == Outcome(removed)
<1>2. status \in {"failed", "cancelled", "completed"}
  BY DEF Outcome
<1>3. status = "completed" => Live /\ CanComplete(run) /\ run.checks.status # "not_run"
  BY DEF WorkerClosed, Outcome, Live
<1> HIDE DEF status
<1>4. run' = Finish(run, status)
  BY <1>1 DEF status
<1>5. host'.place # "working"
  BY <1>0 DEF WorkerClosed, HostFields
<1>6. CompletedAsChecked'
  <2>1. CASE status # "completed"
    <3>1. run'.status = status
      BY <1>0, <1>4, RowFinished
    <3> QED
      BY <2>1, <3>1 DEF CompletedAsChecked
  <2>2. CASE status = "completed"
    <3>1. Closed(run) = run
      BY <1>3, <2>2 DEF CanComplete, Closed
    <3>2. run' = [run EXCEPT !.status = status, !.phase = "finished"]
      BY <1>4, <3>1 DEF Finish
    <3>3. /\ run'.patch = run.patch /\ run'.checks = run.checks /\ run'.check = run.check
          /\ run'.recoveries = run.recoveries /\ run'.handoff = run.handoff /\ run'.receipts = run.receipts
      BY <1>0, <3>2 DEF Row, RowFields
    <3>4. /\ run.patch.kind = "submitted" /\ run.patch.src # Base /\ run.checks.src = run.patch.src
          /\ run.recoveries = 0 =>
               run.check.passed /\ run.check.src = run.patch.src /\ run.check.after = run.patch.src
          /\ run.recoveries = 1 => HasHandoff(run) /\ run.receipts["cloud"] >= 1
      BY <1>3, <2>2, CompletionBacked
    <3> QED
      BY <3>3, <3>4 DEF CompletedAsChecked, HasHandoff
  <2> QED
    BY <2>1, <2>2
<1>7. w' = w /\ pipe' = pipe
  BY DEF WorkerClosed
<1> QED
  BY <1>2, <1>4, <1>5, <1>6, <1>7, EndBacks

\* A new run rests on nothing.
LEMMA InitBacks == Init => Backed
<1> SUFFICES ASSUME Init
             PROVE  Backed
  OBVIOUS
<1>1. PICK policy \in Policies : run = NewRun(policy)
  BY DEF Init
<1>2. host = NewHost /\ w = NoWorker /\ pipe = <<>>
  BY DEF Init
<1>3. /\ run.status = "created" /\ run.cp.decision # "submit" /\ run.recoveries = 0
      /\ run.check.passed = FALSE
  BY <1>1, NewShapes
<1>4. host.place = "idle"
  BY <1>2, NewShapes
<1>5. Closes(pipe) /\ ~Says(pipe, "submit")
  BY <1>2, Single
<1>6. Honest /\ Once /\ CompletedAsChecked /\ ~Live
  BY <1>3, <1>4 DEF Honest, Once, CompletedAsChecked, Live
<1>7. Decided
  BY <1>3, <1>5 DEF Decided
<1> QED
  BY <1>6, <1>7 DEF Backed

\* What a submission rests on is kept.
LEMMA BackedInductive ==
    ASSUME Inv, Filing, Backed, [Next]_vars
    PROVE  Backed'
<1>1. CASE WorkerNext
  BY <1>1, WorkerBacks
<1>2. CASE HostNext
  <2>1. Shaped /\ Placed
    BY DEF Filing
  <2> QED
    BY <1>2, <2>1, HostSays, PassBacks, ResumeBacks, AdmitBacks, SettleBacks, EscalateBacks, JudgeBacks,
       CheckBacks, PatchBacks, ConfirmBacks, FinalBacks, CloseBacks
<1>3. CASE UNCHANGED vars
  <2>1. UNCHANGED <<run, host, w, pipe, inbox>>
    BY <1>3 DEF vars
  <2>2. Decided' /\ (Live => (Asked /\ Clouded)')
    <3>1. Decided'
      BY <2>1 DEF Backed, Decided
    <3>2. Asked <=> Asked'
      BY <2>1 DEF Asked, Opens
    <3>3. Clouded <=> Clouded'
      BY <2>1 DEF Clouded, Heard, Reply, Replied, Opens
    <3> QED
      BY <3>1, <3>2, <3>3 DEF Backed
  <2> QED
    BY <2>1, <2>2, RowBacks
<1> QED
  BY <1>1, <1>2, <1>3, ControllerBacks DEF Next

(***************************************************************************)
(* A completed run has submitted a patch that changes something, and its   *)
(* final check ran on the tree of that patch (worker.ts:895-908). Without  *)
(* the cloud that is the tree the exact visible check last passed on; with *)
(* it, the local tree was handed over once and the cloud answered.         *)
(***************************************************************************)
THEOREM CompletedKept == Spec => []CompletedAsChecked
<1>1. Init => Inv /\ Filing /\ Backed
  BY InitKeeps, InitFiles, InitBacks
<1>2. Inv /\ Filing /\ Backed /\ [Next]_vars => Inv' /\ Filing' /\ Backed'
  BY Inductive, FilingInductive, BackedInductive
<1>3. Backed => CompletedAsChecked
  BY DEF Backed
<1> QED
  BY <1>1, <1>2, <1>3, PTL DEF Spec

=============================================================================
