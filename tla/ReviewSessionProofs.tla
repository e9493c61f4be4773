-------------------------- MODULE ReviewSessionProofs --------------------------
(***************************************************************************)
(* Proofs about review sessions.                                           *)
(*                                                                         *)
(* The log of one session: the safety properties of SessionLog, for every  *)
(* policy and every set of events. No guard of the reducer states any of   *)
(* them: each follows from what several events leave behind, which is the  *)
(* invariant Inv.                                                          *)
(*                                                                         *)
(* Reviews side by side: the safety of ReviewRuns, for any number of       *)
(* sessions, any policy, any prices, and any number of crashes and failing *)
(* writes. A batch is written whole or not at all, so a crash finds a log  *)
(* as some batch left it. Resting(x) is what holds of a session x there;   *)
(* that every batch a coordinator or recovery writes leads from a session  *)
(* at rest to one at rest is what most of this part proves, by following   *)
(* the batch event by event through the reducer.                           *)
(***************************************************************************)
EXTENDS SessionLog, ReviewRuns, FiniteSetTheorems, TLAPS

-----------------------------------------------------------------------------
(* The log of one session *)

\* The latest decision, and what every decision was made on.
Routed ==
    /\ session.decision.boundary # "none" => session.decision.boundary \in session.decided
    /\ session.decision.boundary = "none" => session.decided = {} /\ session.leases = 0
    /\ session.decision.reserve > 0 => session.decision.reason = "cloud_admitted"
    /\ session.hybrid /\ session.decision.provider = "cloud" =>
           session.decision.reason = "cloud_admitted"
    /\ session.decision.reason = "cloud_admitted" =>
           /\ session.decision.boundary = "evidence_complete"
           /\ session.decision.reserve > 0
           /\ session.hybrid /\ session.admission = "pass" /\ session.decision.provider = "cloud"
    /\ session.decided \cap {"evidence_complete", "provider_failure"} # {} =>
           session.inspected /\ session.investigated
    /\ "provider_failure" \in session.decided =>
           /\ "evidence_complete" \in session.decided
           /\ session.decision.boundary = "provider_failure"
    /\ session.last = "cloud.egress.admission.recorded" => session.admission # "none"

\* The round in progress is one of the latest decision.
Attempted ==
    /\ session.attempt.structured => session.attempt.phase = "synthesis"
    /\ session.attempt.phase = "synthesis" =>
           session.decided \cap {"evidence_complete", "provider_failure"} # {}
    /\ Streaming(session) => session.decision.boundary # "none"
    /\ Streaming(session) =>
           \/ session.attempt.open
           \/ session.last \in {"assistant.message.started", "context.compiled"}
    /\ Streaming(session) \/ session.attempt.open =>
           session.decision.provider = session.provider
    /\ session.attempt.open => session.attempt.reserve = session.decision.reserve

\* A reservation without its attempt is about to get it.
Awaited ==
    /\ session.paid \in {0, 1}
    /\ session.attempt.open /\ session.attempt.reserve > 0 => session.paid = 1
    /\ session.reserved > 0 => "evidence_complete" \in session.decided
    /\ session.reserved > 0 /\ session.paid = 0 =>
           /\ session.decision.reserve > 0
           /\ session.last \in {"routing.decision.recorded", "route.assigned",
                                "assistant.message.started", "context.compiled"}

\* How a session ends.
EndedWell ==
    /\ session.status \in Terminal =>
           /\ session.last \in {"session.completed", "session.failed", "session.cancelled",
                                "session.interrupted"}
           /\ ~session.attempt.open /\ session.contexts = session.attempts
    /\ session.last = "completion.obligations.checked" /\ session.check = "accepted" =>
           session.inspected

Inv == TypeOK /\ Routed /\ Attempted /\ Awaited /\ EndedWell /\ CompletedOnEvidence

-----------------------------------------------------------------------------
(* Events and their effects *)

\* What every event carries, by its type.
LEMMA EventFields ==
    ASSUME NEW e \in Events
    PROVE  /\ e.at \in Nat
           /\ e.type = "cloud.egress.admission.recorded" => e \in AdmissionEvents
           /\ e.type = "routing.decision.recorded" => e \in DecisionEvents
           /\ e.type = "route.assigned" => e \in RouteEvents
           /\ e.type = "inference.attempt.started" => e \in AttemptEvents
           /\ e.type = "assistant.message.completed" => e \in MessageEvents
           /\ e.type = "inference.attempt.finished" => e \in FinishEvents
           /\ e.type = "tool.call.completed" => e \in ReturnEvents
           /\ e.type = "completion.obligations.checked" => e \in CheckEvents
<1>. DEFINE Carries ==
       /\ e.at \in Nat
       /\ e.type = "cloud.egress.admission.recorded" => e \in AdmissionEvents
       /\ e.type = "routing.decision.recorded" => e \in DecisionEvents
       /\ e.type = "route.assigned" => e \in RouteEvents
       /\ e.type = "inference.attempt.started" => e \in AttemptEvents
       /\ e.type = "assistant.message.completed" => e \in MessageEvents
       /\ e.type = "inference.attempt.finished" => e \in FinishEvents
       /\ e.type = "tool.call.completed" => e \in ReturnEvents
       /\ e.type = "completion.obligations.checked" => e \in CheckEvents
<1>1. e \in BareEvents => Carries
  BY InputAssumption DEF BareEvents
<1>2. e \in AdmissionEvents => Carries
  BY InputAssumption DEF AdmissionEvents
<1>3. e \in DecisionEvents => Carries
  BY InputAssumption DEF DecisionEvents
<1>4. e \in RouteEvents => Carries
  BY InputAssumption DEF RouteEvents
<1>5. e \in AttemptEvents => Carries
  BY InputAssumption DEF AttemptEvents
<1>6. e \in MessageEvents => Carries
  BY InputAssumption DEF MessageEvents
<1>7. e \in FinishEvents => Carries
  BY InputAssumption DEF FinishEvents
<1>8. e \in CallEvents => Carries
  BY InputAssumption DEF CallEvents
<1>9. e \in ReturnEvents => Carries
  BY InputAssumption DEF ReturnEvents
<1>10. e \in CheckEvents => Carries
  BY InputAssumption DEF CheckEvents
<1>11. QED
  BY <1>1, <1>2, <1>3, <1>4, <1>5, <1>6, <1>7, <1>8, <1>9, <1>10 DEF Events

\* There are no other types.
LEMMA EventTypes ==
    ASSUME NEW e \in Events
    PROVE  e.type \in {"session.started", "cloud.egress.admission.recorded",
                       "routing.decision.recorded", "route.assigned",
                       "assistant.message.started", "context.compiled",
                       "inference.attempt.started", "assistant.message.completed",
                       "inference.attempt.finished", "tool.call.requested",
                       "tool.call.completed", "completion.obligations.checked",
                       "session.completed", "session.failed", "session.cancelled",
                       "session.interrupted"}
BY DEF Events, BareEvents, AdmissionEvents, DecisionEvents, RouteEvents, AttemptEvents,
   MessageEvents, FinishEvents, CallEvents, ReturnEvents, CheckEvents

-----------------------------------------------------------------------------
(* Types *)

SessionFields == {"hybrid", "status", "last", "at", "deadline", "leases", "provider", "changes",
           "decided", "decision", "admission", "assistants", "contexts", "message",
           "attempts", "attempt", "paid", "calls", "inspected", "investigated", "check",
           "remaining", "reserved", "settled"}

\* The fields a session starts with, and keeps.
LEMMA FieldsOf == DOMAIN NewSession(FALSE, 0) = SessionFields
BY DEF NewSession, SessionFields

\* A new session has them.
LEMMA InitTypeOK == LogInit => TypeOK
<1>. SUFFICES ASSUME NEW hybrid \in BOOLEAN, NEW at \in Ticks,
                     session = NewSession(hybrid, at)
              PROVE  TypeOK
  BY DEF LogInit
<1>1. at \in Nat
  BY InputAssumption
<1>2. Shape
  BY DEF Shape, NewSession
<1>3. Counts
  BY <1>1 DEF Counts, NewSession
<1>4. Marks
  BY DEF Marks, NewSession
<1>5. InRound
  BY DEF InRound, NewSession, NoMessage, NoAttempt
<1>6. QED
  BY <1>2, <1>3, <1>4, <1>5 DEF TypeOK

\* The fields of F stay as they are.
Same(F) == \A f \in F : session'[f] = session[f]

\* A counter stays or goes up by one.
Up(x, y) == y = x \/ y = x + 1

Advanced ==
    /\ session'.at \in Nat /\ session'.deadline \in Int
    /\ session'.remaining \in Nat /\ session'.reserved \in Nat
    /\ Up(session.leases, session'.leases) /\ Up(session.changes, session'.changes)
    /\ Up(session.assistants, session'.assistants) /\ Up(session.contexts, session'.contexts)
    /\ Up(session.attempts, session'.attempts) /\ Up(session.paid, session'.paid)
    /\ Up(session.calls, session'.calls)

\* A counter stays a natural number.
LEMMA UpNat == ASSUME NEW x, x \in Nat, NEW y, Up(x, y) PROVE y \in Nat
<1>1. x + 1 \in Nat
  OBVIOUS
<1>2. QED
  BY <1>1 DEF Up

\* And so do all of them.
LEMMA CountsKept == ASSUME Counts, Advanced PROVE Counts'
<1>1. /\ session.leases \in Nat /\ session.changes \in Nat /\ session.assistants \in Nat
      /\ session.contexts \in Nat /\ session.attempts \in Nat /\ session.paid \in Nat
      /\ session.calls \in Nat
  BY DEF Counts
<1>2. /\ session'.leases \in Nat /\ session'.changes \in Nat /\ session'.assistants \in Nat
      /\ session'.contexts \in Nat /\ session'.attempts \in Nat /\ session'.paid \in Nat
      /\ session'.calls \in Nat
  BY <1>1, UpNat DEF Advanced
<1>3. QED
  BY <1>2 DEF Advanced, Counts

\* An event that touches neither the message nor the attempt keeps their types.
LEMMA RoundKept ==
    ASSUME Shape, InRound, DOMAIN session' = SessionFields,
           session'.message = session.message, session'.attempt = session.attempt
    PROVE  (Shape /\ InRound)'
<1>1. Shape'
  BY FieldsOf DEF Shape
<1>2. InRound'
  BY DEF InRound
<1>3. QED
  BY <1>1, <1>2

-----------------------------------------------------------------------------
(* The invariant holds at the start and is kept by every event *)

\* A new session satisfies the invariant.
LEMMA InitInv == LogInit => Inv
<1>1. LogInit => Routed /\ Attempted /\ Awaited /\ EndedWell /\ CompletedOnEvidence
  <2>. SUFFICES ASSUME NEW hybrid \in BOOLEAN, NEW at \in Ticks,
                       session = NewSession(hybrid, at)
                PROVE  Routed /\ Attempted /\ Awaited /\ EndedWell /\ CompletedOnEvidence
    BY DEF LogInit
  <2>1. /\ session.decision = NoDecision /\ session.decided = {} /\ session.leases = 0
        /\ session.status = "created"
        /\ session.attempt = NoAttempt /\ session.message = NoMessage
        /\ session.paid = 0 /\ session.reserved = 0 /\ session.last = "user.message"
    BY DEF NewSession
  <2>2. QED
    BY <2>1 DEF Routed, Attempted, Awaited, EndedWell, CompletedOnEvidence, NoDecision, NoAttempt,
       NoMessage, Streaming, Terminal
<1>2. QED
  BY <1>1, InitTypeOK DEF Inv

\* What may come next, by what is under way.
LEMMA UnderWay ==
    ASSUME Inv, NEW e, Common(session, e)
    PROVE  /\ session.status \notin Terminal
           /\ session.attempt.open =>
                  e.type \in {"assistant.message.completed", "inference.attempt.finished"}
           /\ Streaming(session) /\ ~session.attempt.open =>
                  e.type \in {"context.compiled", "inference.attempt.started"}
           /\ session.reserved > 0 /\ session.paid = 0 =>
                  e.type \in {"route.assigned", "assistant.message.started",
                              "context.compiled", "inference.attempt.started"}
<1>1. session.status \notin Terminal /\ Follows(session, e)
  BY DEF Common, Active
<1>2. QED
  BY <1>1 DEF Inv, Attempted, Awaited, Follows

\* The start of the session.
LEMMA StartKept ==
    ASSUME Inv, NEW e \in Events, AppendEvent(e), e.type = "session.started"
    PROVE  Inv'
<1>1. session' = [[session EXCEPT !.status = "running", !.deadline = e.at + Duration]
                     EXCEPT !.at = e.at, !.last = "session.started"]
  BY DEF AppendEvent, Reduce, Apply
<1>2. DOMAIN session = SessionFields /\ e.at \in Nat
  BY FieldsOf, EventFields DEF Inv, TypeOK, Shape
<1>3. /\ DOMAIN session' = SessionFields /\ Same(SessionFields \ {"status", "deadline", "at", "last"})
      /\ session'.at = e.at /\ session'.last = "session.started"
      /\ session'.status = "running"
      /\ session'.deadline = e.at + Duration
  BY <1>1, <1>2 DEF SessionFields, Same
<1>4. Counts'
  <2>1. Counts /\ session'.deadline \in Int
    BY <1>2, <1>3, PolicyAssumption DEF Inv, TypeOK
  <2>2. Advanced
    BY <1>2, <1>3, <2>1 DEF SessionFields, Same, Advanced, Up, Counts
  <2>3. QED
    BY <2>1, <2>2, CountsKept
<1>5. (Shape /\ InRound)'
  BY <1>3, RoundKept DEF Inv, TypeOK, SessionFields, Same
<1>6. Marks'
  BY <1>3 DEF Inv, TypeOK, Marks, SessionFields, Same
<1>7. (Routed /\ Attempted /\ Awaited)'
  BY <1>1, <1>3, UnderWay DEF AppendEvent, Accepts, Inv, Routed, Attempted, Awaited, SessionFields, Same,
     Streaming
<1>8. (EndedWell /\ CompletedOnEvidence)'
  BY <1>3, UnderWay DEF AppendEvent, Accepts, EndedWell, CompletedOnEvidence, Terminal, SessionFields, Same
<1>9. QED
  BY <1>4, <1>5, <1>6, <1>7, <1>8 DEF Inv, TypeOK

\* The egress admission.
LEMMA AdmissionKept ==
    ASSUME Inv, NEW e \in Events, AppendEvent(e), e.type = "cloud.egress.admission.recorded"
    PROVE  Inv'
<1>1. session' = [[session EXCEPT !.admission = e.verdict]
                     EXCEPT !.at = e.at, !.last = "cloud.egress.admission.recorded"]
  BY DEF AppendEvent, Reduce, Apply
<1>2. DOMAIN session = SessionFields /\ e.at \in Nat
  BY FieldsOf, EventFields DEF Inv, TypeOK, Shape
<1>3. /\ DOMAIN session' = SessionFields /\ Same(SessionFields \ {"admission", "at", "last"})
      /\ session'.at = e.at /\ session'.last = "cloud.egress.admission.recorded"
      /\ session'.admission = e.verdict
  BY <1>1, <1>2 DEF SessionFields, Same
<1>4. e.verdict \in {"pass", "deny"} /\ session.admission = "none"
  BY EventFields DEF AdmissionEvents, AppendEvent, Accepts, Admissible
<1>5. Counts'
  <2>1. Counts
    BY <1>2, <1>3 DEF Inv, TypeOK
  <2>2. Advanced
    BY <1>2, <1>3, <2>1 DEF SessionFields, Same, Advanced, Up, Counts
  <2>3. QED
    BY <2>1, <2>2, CountsKept
<1>6. (Shape /\ InRound)'
  BY <1>3, RoundKept DEF Inv, TypeOK, SessionFields, Same
<1>7. Marks'
  BY <1>3, <1>4 DEF Inv, TypeOK, Marks, SessionFields, Same
<1>8. (Routed /\ Attempted /\ Awaited)'
  BY <1>1, <1>3, UnderWay, <1>4 DEF AppendEvent, Accepts, Inv, Routed, Attempted, Awaited, SessionFields,
     Same, Streaming
<1>9. (EndedWell /\ CompletedOnEvidence)'
  BY <1>3, UnderWay DEF AppendEvent, Accepts, EndedWell, CompletedOnEvidence, Terminal, SessionFields, Same
<1>10. QED
  BY <1>5, <1>6, <1>7, <1>8, <1>9 DEF Inv, TypeOK

\* A routing decision: its boundary, its reservation and what it was made on.
LEMMA DecisionKept ==
    ASSUME Inv, NEW e \in Events, AppendEvent(e), e.type = "routing.decision.recorded"
    PROVE  Inv'
<1>1. session' = [[session EXCEPT !.decided = @ \cup {e.decision.boundary},
                               !.decision = e.decision,
                               !.reserved = @ + e.decision.reserve]
                     EXCEPT !.at = e.at, !.last = "routing.decision.recorded"]
  BY DEF AppendEvent, Reduce, Apply
<1>2. DOMAIN session = SessionFields /\ e.at \in Nat
  BY FieldsOf, EventFields DEF Inv, TypeOK, Shape
<1>3. /\ DOMAIN session' = SessionFields
      /\ Same(SessionFields \ {"decided", "decision", "reserved", "at", "last"})
      /\ session'.at = e.at /\ session'.last = "routing.decision.recorded"
      /\ session'.decided = session.decided \cup {e.decision.boundary}
      /\ session'.decision = e.decision
      /\ session'.reserved = session.reserved + e.decision.reserve
  BY <1>1, <1>2 DEF SessionFields, Same
<1>4. e.decision \in Decisions /\ Decidable(session, e)
  BY EventFields DEF DecisionEvents, AppendEvent, Accepts
<1>5. e.decision.reserve \in Nat /\ session.reserved \in Nat
  BY <1>4, InputAssumption DEF Decisions, Inv, TypeOK, Counts
<1>6. /\ e.decision.reserve > 0 => e.decision.reason = "cloud_admitted"
      /\ session.hybrid /\ e.decision.provider = "cloud" => e.decision.reason = "cloud_admitted"
      /\ e.decision.reason = "cloud_admitted" =>
            e.decision.boundary = "evidence_complete" /\ e.decision.reserve > 0
  BY <1>4, <1>5 DEF Decidable, WellFormedDecision, WithinAuthority
<1>7. e.decision.reason = "cloud_admitted" =>
          session.hybrid /\ session.admission = "pass" /\ e.decision.provider = "cloud"
  BY <1>4 DEF Decidable, WellFormedDecision, WithinAuthority, AdmissionCited, Denials, Inv, Routed, TypeOK, Marks
<1>8. /\ e.decision.boundary = "evidence_complete" => session.inspected /\ session.investigated
      /\ e.decision.boundary = "provider_failure" => "evidence_complete" \in session.decided
      /\ e.decision.boundary = "session_start" => session.decided = {}
      /\ e.decision.boundary \notin session.decided
  BY <1>4 DEF Decidable, EvidenceComplete, FailedPaidAttempt, Inv, Routed
<1>9. Counts'
  <2>1. Counts /\ session'.reserved \in Nat
    BY <1>2, <1>3, <1>5 DEF Inv, TypeOK
  <2>2. Advanced
    BY <1>2, <1>3, <2>1 DEF SessionFields, Same, Advanced, Up, Counts
  <2>3. QED
    BY <2>1, <2>2, CountsKept
<1>10. (Shape /\ InRound)'
  BY <1>3, RoundKept DEF Inv, TypeOK, SessionFields, Same
<1>11. Marks'
  BY <1>3, <1>4 DEF Inv, TypeOK, Marks, SessionFields, Same, Decisions
<1>12. Routed'
  BY <1>3, <1>4, <1>6, <1>7, <1>8 DEF Routed, Inv, SessionFields, Same, Decisions
<1>13. Attempted'
  BY <1>3, <1>2, <1>4, UnderWay DEF Attempted, Inv, SessionFields, Same, AppendEvent, Accepts, Decidable,
     Streaming
<1>14. Awaited'
  BY <1>3, <1>4, <1>5, UnderWay DEF Awaited, Inv, SessionFields, Same, AppendEvent, Accepts, Decidable,
     WellFormedDecision, FailedPaidAttempt, Routed
<1>15. (EndedWell /\ CompletedOnEvidence)'
  BY <1>3, UnderWay DEF AppendEvent, Accepts, EndedWell, CompletedOnEvidence, Terminal, SessionFields, Same
<1>16. QED
  BY <1>9, <1>10, <1>11, <1>12, <1>13, <1>14, <1>15 DEF Inv, TypeOK

\* The lease a decision assigned.
LEMMA RouteKept ==
    ASSUME Inv, NEW e \in Events, AppendEvent(e), e.type = "route.assigned"
    PROVE  Inv'
<1>1. session' = [[session EXCEPT !.leases = @ + 1, !.provider = e.provider,
                               !.changes = Changes(session, e.provider)]
                     EXCEPT !.at = e.at, !.last = "route.assigned"]
  BY DEF AppendEvent, Reduce, Apply
<1>2. DOMAIN session = SessionFields /\ e.at \in Nat
  BY FieldsOf, EventFields DEF Inv, TypeOK, Shape
<1>3. /\ DOMAIN session' = SessionFields
      /\ Same(SessionFields \ {"leases", "provider", "changes", "at", "last"})
      /\ session'.at = e.at /\ session'.last = "route.assigned"
      /\ session'.leases = session.leases + 1
      /\ session'.provider = e.provider
      /\ session'.changes = Changes(session, e.provider)
  BY <1>1, <1>2 DEF SessionFields, Same
<1>4. /\ e.provider \in {"local", "cloud"}
      /\ session.decision.boundary # "none"
  BY EventFields DEF RouteEvents, AppendEvent, Accepts, Assignable, Inv, TypeOK, Marks, Decisions,
     NoDecision
<1>5. Counts'
  <2>1. Counts /\ Up(session.changes, session'.changes)
    BY <1>2, <1>3 DEF Inv, TypeOK, Changes, Up, Counts
  <2>2. Advanced
    BY <1>2, <1>3, <2>1 DEF SessionFields, Same, Advanced, Up, Counts
  <2>3. QED
    BY <2>1, <2>2, CountsKept
<1>6. (Shape /\ InRound)'
  BY <1>3, RoundKept DEF Inv, TypeOK, SessionFields, Same
<1>7. Marks'
  BY <1>3, <1>4 DEF Inv, TypeOK, Marks, SessionFields, Same
<1>8. (Routed /\ Attempted /\ Awaited)'
  BY <1>1, <1>3, UnderWay, <1>4 DEF AppendEvent, Accepts, Inv, Routed, Attempted, Awaited, SessionFields,
     Same, Streaming
<1>9. (EndedWell /\ CompletedOnEvidence)'
  BY <1>3, UnderWay DEF AppendEvent, Accepts, EndedWell, CompletedOnEvidence, Terminal, SessionFields, Same
<1>10. QED
  BY <1>5, <1>6, <1>7, <1>8, <1>9 DEF Inv, TypeOK

\* A new assistant message: it has a decision, and no attempt yet.
LEMMA MessageKept ==
    ASSUME Inv, NEW e \in Events, AppendEvent(e), e.type = "assistant.message.started"
    PROVE  Inv'
<1>1. session' = [[session EXCEPT !.assistants = @ + 1,
                               !.message = [NoMessage EXCEPT !.status = "streaming"]]
                     EXCEPT !.at = e.at, !.last = "assistant.message.started"]
  BY DEF AppendEvent, Reduce, Apply
<1>2. DOMAIN session = SessionFields /\ e.at \in Nat
  BY FieldsOf, EventFields DEF Inv, TypeOK, Shape
<1>3. /\ DOMAIN session' = SessionFields /\ Same(SessionFields \ {"assistants", "message", "at", "last"})
      /\ session'.at = e.at /\ session'.last = "assistant.message.started"
      /\ session'.assistants = session.assistants + 1
      /\ session'.message = [NoMessage EXCEPT !.status = "streaming"]
  BY <1>1, <1>2 DEF SessionFields, Same
<1>4. Counts'
  <2>1. Counts
    BY <1>2, <1>3 DEF Inv, TypeOK
  <2>2. Advanced
    BY <1>2, <1>3, <2>1 DEF SessionFields, Same, Advanced, Up, Counts
  <2>3. QED
    BY <2>1, <2>2, CountsKept
<1>5. (Shape /\ InRound)'
  <2>1. session'.attempt = session.attempt
    BY <1>3 DEF SessionFields, Same
  <2>2. /\ DOMAIN session'.message = DOMAIN NoMessage
        /\ session'.message.status = "streaming" /\ session'.message.call = "none"
    BY <1>3 DEF NoMessage
  <2>3. Shape'
    BY <1>3, <2>1, <2>2, FieldsOf DEF Inv, TypeOK, Shape
  <2>4. InRound'
    BY <2>1, <2>2 DEF Inv, TypeOK, InRound
  <2>5. QED
    BY <2>3, <2>4
<1>6. Marks'
  BY <1>3 DEF Inv, TypeOK, Marks, SessionFields, Same
<1>7. (Routed /\ Attempted /\ Awaited)'
  BY <1>1, <1>3, UnderWay DEF AppendEvent, Accepts, Inv, Routed, Attempted, Awaited, SessionFields, Same,
     Streaming, Speakable
<1>8. (EndedWell /\ CompletedOnEvidence)'
  BY <1>3, UnderWay DEF AppendEvent, Accepts, EndedWell, CompletedOnEvidence, Terminal, SessionFields, Same
<1>9. QED
  BY <1>4, <1>5, <1>6, <1>7, <1>8 DEF Inv, TypeOK

\* The message's context checkpoint.
LEMMA ContextKept ==
    ASSUME Inv, NEW e \in Events, AppendEvent(e), e.type = "context.compiled"
    PROVE  Inv'
<1>1. session' = [[session EXCEPT !.contexts = @ + 1]
                     EXCEPT !.at = e.at, !.last = "context.compiled"]
  BY DEF AppendEvent, Reduce, Apply
<1>2. DOMAIN session = SessionFields /\ e.at \in Nat
  BY FieldsOf, EventFields DEF Inv, TypeOK, Shape
<1>3. /\ DOMAIN session' = SessionFields /\ Same(SessionFields \ {"contexts", "at", "last"})
      /\ session'.at = e.at /\ session'.last = "context.compiled"
      /\ session'.contexts = session.contexts + 1
  BY <1>1, <1>2 DEF SessionFields, Same
<1>4. Counts'
  <2>1. Counts
    BY <1>2, <1>3 DEF Inv, TypeOK
  <2>2. Advanced
    BY <1>2, <1>3, <2>1 DEF SessionFields, Same, Advanced, Up, Counts
  <2>3. QED
    BY <2>1, <2>2, CountsKept
<1>5. (Shape /\ InRound)'
  BY <1>3, RoundKept DEF Inv, TypeOK, SessionFields, Same
<1>6. Marks'
  BY <1>3 DEF Inv, TypeOK, Marks, SessionFields, Same
<1>7. (Routed /\ Attempted /\ Awaited)'
  BY <1>1, <1>3, UnderWay DEF AppendEvent, Accepts, Inv, Routed, Attempted, Awaited, SessionFields, Same,
     Streaming, Compilable
<1>8. (EndedWell /\ CompletedOnEvidence)'
  BY <1>3, UnderWay DEF AppendEvent, Accepts, EndedWell, CompletedOnEvidence, Terminal, SessionFields, Same
<1>9. QED
  BY <1>4, <1>5, <1>6, <1>7, <1>8 DEF Inv, TypeOK

\* An attempt: of the phase and with the reservation of the latest decision.
LEMMA AttemptKept ==
    ASSUME Inv, NEW e \in Events, AppendEvent(e), e.type = "inference.attempt.started"
    PROVE  Inv'
<1>1. session' = [[session EXCEPT !.attempts = @ + 1,
                     !.attempt = [NoAttempt EXCEPT !.open = TRUE, !.phase = e.phase,
                                      !.tooling = e.tooling, !.structured = e.structured,
                                      !.reserve = e.reserve],
                     !.paid = @ + (IF e.reserve > 0 THEN 1 ELSE 0)]
                     EXCEPT !.at = e.at, !.last = "inference.attempt.started"]
  BY DEF AppendEvent, Reduce, Apply
<1>2. DOMAIN session = SessionFields /\ e.at \in Nat
  BY FieldsOf, EventFields DEF Inv, TypeOK, Shape
<1>3. /\ DOMAIN session' = SessionFields /\ Same(SessionFields \ {"attempts", "attempt", "paid", "at", "last"})
      /\ session'.at = e.at /\ session'.last = "inference.attempt.started"
      /\ session'.attempts = session.attempts + 1
      /\ session'.attempt = [NoAttempt EXCEPT !.open = TRUE, !.phase = e.phase,
                                             !.tooling = e.tooling,
                                             !.structured = e.structured, !.reserve = e.reserve]
      /\ session'.paid = session.paid + (IF e.reserve > 0 THEN 1 ELSE 0)
  BY <1>1, <1>2 DEF SessionFields, Same
<1>4. /\ e \in AttemptEvents /\ e.reserve \in Nat
      /\ Attemptable(session, e) /\ session.paid \in {0, 1}
  BY EventFields, InputAssumption DEF AttemptEvents, AppendEvent, Accepts, Inv, Awaited
<1>5. /\ session'.attempt.open /\ session'.attempt.phase = e.phase
      /\ session'.attempt.structured = e.structured /\ session'.attempt.reserve = e.reserve
      /\ session'.attempt.outcome = "none" /\ DOMAIN session'.attempt = DOMAIN NoAttempt
  BY <1>3 DEF NoAttempt
<1>6. /\ e.reserve > 0 => session.paid = 0 /\ session'.paid = 1
      /\ ~(e.reserve > 0) => session'.paid = session.paid
  BY <1>3, <1>4 DEF Attemptable, MaxPaidAttempts
<1>7. DOMAIN session' = SessionFields /\ session'.message = session.message
  BY <1>3 DEF SessionFields, Same
<1>8. /\ e.phase = "synthesis" =>
            session.decision.boundary \notin {"none", "session_start"}
      /\ session.decision.boundary \in
             {"none", "session_start", "evidence_complete", "provider_failure"}
  BY <1>4 DEF Attemptable, PhaseOf, Inv, TypeOK, Marks, Attempted, Decisions, NoDecision
<1>9. Counts'
  <2>1. Counts /\ Up(session.paid, session'.paid)
    BY <1>2, <1>3, <1>4 DEF Inv, TypeOK, Up
  <2>2. Advanced
    BY <1>2, <1>3, <2>1 DEF SessionFields, Same, Advanced, Up, Counts
  <2>3. QED
    BY <2>1, <2>2, CountsKept
<1>10. (Shape /\ InRound)'
  <2>1. Shape'
    BY <1>5, <1>7, FieldsOf DEF Inv, TypeOK, Shape
  <2>2. InRound'
    BY <1>3, <1>4, <1>5 DEF Inv, TypeOK, InRound, SessionFields, Same, AttemptEvents
  <2>3. QED
    BY <2>1, <2>2
<1>11. Marks'
  BY <1>3 DEF Inv, TypeOK, Marks, SessionFields, Same
<1>12. Routed'
  BY <1>3, <1>2 DEF Routed, Inv, SessionFields, Same
<1>13. Attempted'
  BY <1>3, <1>4, <1>5, <1>8 DEF Attempted, Inv, SessionFields, Same, Streaming, Attemptable, PhaseOf,
     Marks, TypeOK, Decisions, NoDecision, Routed
<1>14. Awaited'
  BY <1>3, <1>4, <1>5, <1>6, UnderWay DEF Awaited, Inv, SessionFields, Same, AppendEvent, Accepts,
     Attemptable, Routed
<1>15. (EndedWell /\ CompletedOnEvidence)'
  BY <1>3, UnderWay DEF AppendEvent, Accepts, EndedWell, CompletedOnEvidence, Terminal, SessionFields, Same
<1>16. QED
  BY <1>9, <1>10, <1>11, <1>12, <1>13, <1>14, <1>15 DEF Inv, TypeOK

\* The end of the attempt's message.
LEMMA AnswerKept ==
    ASSUME Inv, NEW e \in Events, AppendEvent(e), e.type = "assistant.message.completed"
    PROVE  Inv'
<1>1. session' = [[session EXCEPT
                     !.message = [@ EXCEPT !.stop = e.stop, !.parse = e.parse,
                                           !.status = IF e.complete THEN "completed"
                                                                    ELSE "failed"]]
                     EXCEPT !.at = e.at, !.last = "assistant.message.completed"]
  BY DEF AppendEvent, Reduce, Apply
<1>2. DOMAIN session = SessionFields /\ e.at \in Nat
  BY FieldsOf, EventFields DEF Inv, TypeOK, Shape
<1>3. /\ DOMAIN session' = SessionFields /\ Same(SessionFields \ {"message", "at", "last"})
      /\ session'.at = e.at /\ session'.last = "assistant.message.completed"
      /\ session'.message = [session.message EXCEPT !.stop = e.stop, !.parse = e.parse,
                             !.status = IF e.complete THEN "completed" ELSE "failed"]
  BY <1>1, <1>2 DEF SessionFields, Same
<1>4. DOMAIN session.message = DOMAIN NoMessage /\ session.attempt.open
  BY DEF AppendEvent, Accepts, Completable, Inv, TypeOK, Shape
<1>5. /\ DOMAIN session'.message = DOMAIN NoMessage
      /\ session'.message.status \in {"completed", "failed"}
      /\ session'.message.call = session.message.call
  BY <1>3, <1>4 DEF NoMessage
<1>6. Counts'
  <2>1. Counts
    BY <1>2, <1>3 DEF Inv, TypeOK
  <2>2. Advanced
    BY <1>2, <1>3, <2>1 DEF SessionFields, Same, Advanced, Up, Counts
  <2>3. QED
    BY <2>1, <2>2, CountsKept
<1>7. (Shape /\ InRound)'
  <2>2. session'.attempt = session.attempt
    BY <1>3 DEF SessionFields, Same
  <2>1. Shape'
    BY <1>3, FieldsOf, <1>5, <2>2 DEF Inv, TypeOK, Shape
  <2>3. InRound'
    BY <1>5, <2>2 DEF Inv, TypeOK, InRound
  <2>4. QED
    BY <2>1, <2>3
<1>8. Marks'
  BY <1>3 DEF Inv, TypeOK, Marks, SessionFields, Same
<1>9. (Routed /\ Attempted /\ Awaited)'
  BY <1>1, <1>3, UnderWay, <1>4, <1>5 DEF AppendEvent, Accepts, Inv, Routed, Attempted, Awaited,
     SessionFields, Same, Streaming
<1>10. (EndedWell /\ CompletedOnEvidence)'
  BY <1>3, UnderWay DEF AppendEvent, Accepts, EndedWell, CompletedOnEvidence, Terminal, SessionFields, Same
<1>11. QED
  BY <1>6, <1>7, <1>8, <1>9, <1>10 DEF Inv, TypeOK

\* The end of the attempt, which may complete the investigation.
LEMMA FinishKept ==
    ASSUME Inv, NEW e \in Events, AppendEvent(e), e.type = "inference.attempt.finished"
    PROVE  Inv'
<1>1. session' = [Finish(session, e)
                     EXCEPT !.at = e.at, !.last = "inference.attempt.finished"]
  BY DEF AppendEvent, Reduce, Apply
<1>2. DOMAIN session = SessionFields /\ e.at \in Nat
  BY FieldsOf, EventFields DEF Inv, TypeOK, Shape
<1>3. /\ DOMAIN session' = SessionFields
      /\ Same(SessionFields \ {"attempt", "message", "settled", "investigated", "at", "last"})
      /\ session'.at = e.at /\ session'.last = "inference.attempt.finished"
      /\ session'.attempt = [session.attempt EXCEPT !.open = FALSE, !.outcome = e.outcome,
                                            !.cost = e.cost, !.provenance = e.provenance]
      /\ session'.message = IF e.outcome = "succeeded" THEN session.message
                            ELSE [session.message EXCEPT !.status = "failed"]
      /\ session'.investigated = (session.investigated \/ (/\ e.outcome = "succeeded"
                                                        /\ session.attempt.phase = "investigation"))
  BY <1>1, <1>2 DEF SessionFields, Same, Finish
<1>4. /\ e \in FinishEvents /\ Finishable(session, e) /\ session.attempt.open
      /\ DOMAIN session.attempt = DOMAIN NoAttempt /\ DOMAIN session.message = DOMAIN NoMessage
  BY EventFields DEF AppendEvent, Accepts, Finishable, Inv, TypeOK, Shape
<1>5. /\ session'.attempt.open = FALSE /\ session'.attempt.phase = session.attempt.phase
      /\ session'.attempt.structured = session.attempt.structured
      /\ session'.attempt.reserve = session.attempt.reserve
      /\ session'.attempt.outcome = e.outcome /\ DOMAIN session'.attempt = DOMAIN NoAttempt
  BY <1>3, <1>4 DEF NoAttempt
<1>6. /\ DOMAIN session'.message = DOMAIN NoMessage
      /\ session'.message.status \in {session.message.status, "failed"}
      /\ session'.message.call = session.message.call
      /\ e.outcome = "succeeded" => ~Streaming(session)
      /\ e.outcome # "succeeded" => session'.message.status = "failed"
      /\ e.outcome = "succeeded" => session'.message = session.message
  BY <1>3, <1>4 DEF NoMessage, Finishable
<1>7. session.investigated => session'.investigated
  BY <1>3
<1>8. Counts'
  <2>1. Counts
    BY <1>2, <1>3 DEF Inv, TypeOK
  <2>2. Advanced
    BY <1>2, <1>3, <2>1 DEF SessionFields, Same, Advanced, Up, Counts
  <2>3. QED
    BY <2>1, <2>2, CountsKept
<1>9. (Shape /\ InRound)'
  <2>1. Shape'
    BY <1>3, FieldsOf, <1>4, <1>5, <1>6 DEF Inv, TypeOK, Shape, SessionFields, Same
  <2>2. InRound'
    BY <1>3, <1>4, <1>5, <1>6 DEF Inv, TypeOK, InRound, SessionFields, Same, FinishEvents
  <2>3. QED
    BY <2>1, <2>2
<1>10. Marks'
  BY <1>3 DEF Inv, TypeOK, Marks, SessionFields, Same
<1>11. Routed'
  BY <1>3, <1>7 DEF Routed, Inv, SessionFields, Same
<1>12. Attempted'
  BY <1>3, <1>4, <1>5, <1>6 DEF Attempted, Inv, SessionFields, Same, Streaming
<1>13. Awaited'
  BY <1>3, <1>4, <1>5, UnderWay DEF Awaited, Inv, SessionFields, Same, AppendEvent, Accepts
<1>14. (EndedWell /\ CompletedOnEvidence)'
  BY <1>3, UnderWay DEF AppendEvent, Accepts, EndedWell, CompletedOnEvidence, Terminal, SessionFields, Same
<1>15. QED
  BY <1>8, <1>9, <1>10, <1>11, <1>12, <1>13, <1>14 DEF Inv, TypeOK

\* A tool call.
LEMMA CallKept ==
    ASSUME Inv, NEW e \in Events, AppendEvent(e), e.type = "tool.call.requested"
    PROVE  Inv'
<1>1. session' = [[session EXCEPT !.calls = @ + 1, !.message.call = "requested"]
                     EXCEPT !.at = e.at, !.last = "tool.call.requested"]
  BY DEF AppendEvent, Reduce, Apply
<1>2. DOMAIN session = SessionFields /\ e.at \in Nat
  BY FieldsOf, EventFields DEF Inv, TypeOK, Shape
<1>3. /\ DOMAIN session' = SessionFields /\ Same(SessionFields \ {"calls", "message", "at", "last"})
      /\ session'.at = e.at /\ session'.last = "tool.call.requested"
      /\ session'.calls = session.calls + 1
      /\ session'.message = [session.message EXCEPT !.call = "requested"]
  BY <1>1, <1>2 DEF SessionFields, Same
<1>4. DOMAIN session.message = DOMAIN NoMessage
  BY DEF Inv, TypeOK, Shape
<1>5. /\ DOMAIN session'.message = DOMAIN NoMessage
      /\ session'.message.call = "requested" /\ session'.message.status = session.message.status
  BY <1>3, <1>4 DEF NoMessage
<1>6. Counts'
  <2>1. Counts
    BY <1>2, <1>3 DEF Inv, TypeOK
  <2>2. Advanced
    BY <1>2, <1>3, <2>1 DEF SessionFields, Same, Advanced, Up, Counts
  <2>3. QED
    BY <2>1, <2>2, CountsKept
<1>7. (Shape /\ InRound)'
  <2>1. Shape'
    BY <1>3, FieldsOf, <1>5 DEF Inv, TypeOK, Shape, SessionFields, Same
  <2>2. InRound'
    BY <1>3, <1>5 DEF Inv, TypeOK, InRound, SessionFields, Same
  <2>3. QED
    BY <2>1, <2>2
<1>8. Marks'
  BY <1>3 DEF Inv, TypeOK, Marks, SessionFields, Same
<1>9. (Routed /\ Attempted /\ Awaited)'
  BY <1>1, <1>3, UnderWay, <1>5 DEF AppendEvent, Accepts, Inv, Routed, Attempted, Awaited, SessionFields,
     Same, Streaming
<1>10. (EndedWell /\ CompletedOnEvidence)'
  BY <1>3, UnderWay DEF AppendEvent, Accepts, EndedWell, CompletedOnEvidence, Terminal, SessionFields, Same
<1>11. QED
  BY <1>6, <1>7, <1>8, <1>9, <1>10 DEF Inv, TypeOK

\* The answer of a tool call, which may complete the inspection.
LEMMA ReturnKept ==
    ASSUME Inv, NEW e \in Events, AppendEvent(e), e.type = "tool.call.completed"
    PROVE  Inv'
<1>1. session' = [[session EXCEPT !.message.call = IF e.ok THEN "completed" ELSE "failed",
                               !.inspected = @ \/ e.ok]
                     EXCEPT !.at = e.at, !.last = "tool.call.completed"]
  BY DEF AppendEvent, Reduce, Apply
<1>2. DOMAIN session = SessionFields /\ e.at \in Nat
  BY FieldsOf, EventFields DEF Inv, TypeOK, Shape
<1>3. /\ DOMAIN session' = SessionFields /\ Same(SessionFields \ {"message", "inspected", "at", "last"})
      /\ session'.at = e.at /\ session'.last = "tool.call.completed"
      /\ session'.message = [session.message EXCEPT !.call = IF e.ok THEN "completed" ELSE "failed"]
      /\ session'.inspected = (session.inspected \/ e.ok)
  BY <1>1, <1>2 DEF SessionFields, Same
<1>4. DOMAIN session.message = DOMAIN NoMessage
  BY DEF Inv, TypeOK, Shape
<1>5. /\ DOMAIN session'.message = DOMAIN NoMessage
      /\ session'.message.call \in {"completed", "failed"}
      /\ session'.message.status = session.message.status
  BY <1>3, <1>4 DEF NoMessage
<1>6. /\ session'.inspected \in BOOLEAN
      /\ session.inspected => session'.inspected
  BY <1>3 DEF Inv, TypeOK, Marks
<1>7. Counts'
  <2>1. Counts
    BY <1>2, <1>3 DEF Inv, TypeOK
  <2>2. Advanced
    BY <1>2, <1>3, <2>1 DEF SessionFields, Same, Advanced, Up, Counts
  <2>3. QED
    BY <2>1, <2>2, CountsKept
<1>8. (Shape /\ InRound)'
  <2>1. Shape'
    BY <1>3, FieldsOf, <1>5 DEF Inv, TypeOK, Shape, SessionFields, Same
  <2>2. InRound'
    BY <1>3, <1>5 DEF Inv, TypeOK, InRound, SessionFields, Same
  <2>3. QED
    BY <2>1, <2>2
<1>9. Marks'
  BY <1>3, <1>6 DEF Inv, TypeOK, Marks, SessionFields, Same
<1>10. (Routed /\ Attempted /\ Awaited)'
  BY <1>1, <1>3, UnderWay, <1>5, <1>6 DEF AppendEvent, Accepts, Inv, Routed, Attempted, Awaited,
     SessionFields, Same, Streaming
<1>11. (EndedWell /\ CompletedOnEvidence)'
  BY <1>3, UnderWay DEF AppendEvent, Accepts, EndedWell, CompletedOnEvidence, Terminal, SessionFields, Same
<1>12. QED
  BY <1>7, <1>8, <1>9, <1>10, <1>11 DEF Inv, TypeOK

\* The check of the obligations, accepted only on an inspection.
LEMMA CheckKept ==
    ASSUME Inv, NEW e \in Events, AppendEvent(e), e.type = "completion.obligations.checked"
    PROVE  Inv'
<1>1. session' = [[session EXCEPT !.check = e.outcome, !.remaining = e.remaining]
                     EXCEPT !.at = e.at, !.last = "completion.obligations.checked"]
  BY DEF AppendEvent, Reduce, Apply
<1>2. DOMAIN session = SessionFields /\ e.at \in Nat
  BY FieldsOf, EventFields DEF Inv, TypeOK, Shape
<1>3. /\ DOMAIN session' = SessionFields /\ Same(SessionFields \ {"check", "remaining", "at", "last"})
      /\ session'.at = e.at /\ session'.last = "completion.obligations.checked"
      /\ session'.check = e.outcome
      /\ session'.remaining = e.remaining
  BY <1>1, <1>2 DEF SessionFields, Same
<1>4. /\ e.outcome \in {"accepted", "retry", "exhausted"} /\ e.remaining \in Nat
      /\ e.outcome = "accepted" => session.inspected
  BY EventFields, PolicyAssumption DEF CheckEvents, AppendEvent, Accepts, Checkable, ExpectedCheck
<1>5. Counts'
  <2>1. Counts /\ session'.remaining \in Nat
    BY <1>2, <1>3, <1>4 DEF Inv, TypeOK
  <2>2. Advanced
    BY <1>2, <1>3, <2>1 DEF SessionFields, Same, Advanced, Up, Counts
  <2>3. QED
    BY <2>1, <2>2, CountsKept
<1>6. (Shape /\ InRound)'
  BY <1>3, RoundKept DEF Inv, TypeOK, SessionFields, Same
<1>7. Marks'
  BY <1>3, <1>4 DEF Inv, TypeOK, Marks, SessionFields, Same
<1>8. (Routed /\ Attempted /\ Awaited)'
  BY <1>1, <1>3, UnderWay DEF AppendEvent, Accepts, Inv, Routed, Attempted, Awaited, SessionFields, Same,
     Streaming
<1>9. (EndedWell /\ CompletedOnEvidence)'
  BY <1>3, UnderWay, <1>4 DEF AppendEvent, Accepts, EndedWell, CompletedOnEvidence, Terminal, SessionFields, Same
<1>10. QED
  BY <1>5, <1>6, <1>7, <1>8, <1>9 DEF Inv, TypeOK

\* The three ends that complete nothing.
LEMMA FailKept ==
    ASSUME Inv, NEW e \in Events, AppendEvent(e), e.type = "session.failed"
    PROVE  Inv'
<1>1. session' = [[session EXCEPT !.status = "failed"]
                     EXCEPT !.at = e.at, !.last = "session.failed"]
  BY DEF AppendEvent, Reduce, Apply
<1>2. DOMAIN session = SessionFields /\ e.at \in Nat
  BY FieldsOf, EventFields DEF Inv, TypeOK, Shape
<1>3. /\ DOMAIN session' = SessionFields /\ Same(SessionFields \ {"status", "at", "last"})
      /\ session'.at = e.at /\ session'.last = "session.failed"
      /\ session'.status = "failed"
  BY <1>1, <1>2 DEF SessionFields, Same
<1>4. /\ ~session.attempt.open /\ session.contexts = session.attempts
      /\ ~Streaming(session)
  BY DEF AppendEvent, Accepts, Endable
<1>5. Counts'
  <2>1. Counts
    BY <1>2, <1>3 DEF Inv, TypeOK
  <2>2. Advanced
    BY <1>2, <1>3, <2>1 DEF SessionFields, Same, Advanced, Up, Counts
  <2>3. QED
    BY <2>1, <2>2, CountsKept
<1>6. (Shape /\ InRound)'
  BY <1>3, RoundKept DEF Inv, TypeOK, SessionFields, Same
<1>7. Marks'
  BY <1>3 DEF Inv, TypeOK, Marks, SessionFields, Same, Terminal
<1>8. (Routed /\ Attempted /\ Awaited)'
  BY <1>1, <1>3, UnderWay, <1>4 DEF AppendEvent, Accepts, Inv, Routed, Attempted, Awaited, SessionFields,
     Same, Streaming
<1>9. (EndedWell /\ CompletedOnEvidence)'
  BY <1>3, UnderWay, <1>4 DEF AppendEvent, Accepts, EndedWell, CompletedOnEvidence, Terminal, SessionFields, Same
<1>10. QED
  BY <1>5, <1>6, <1>7, <1>8, <1>9 DEF Inv, TypeOK

LEMMA CancelKept ==
    ASSUME Inv, NEW e \in Events, AppendEvent(e), e.type = "session.cancelled"
    PROVE  Inv'
<1>1. session' = [[session EXCEPT !.status = "cancelled"]
                     EXCEPT !.at = e.at, !.last = "session.cancelled"]
  BY DEF AppendEvent, Reduce, Apply
<1>2. DOMAIN session = SessionFields /\ e.at \in Nat
  BY FieldsOf, EventFields DEF Inv, TypeOK, Shape
<1>3. /\ DOMAIN session' = SessionFields /\ Same(SessionFields \ {"status", "at", "last"})
      /\ session'.at = e.at /\ session'.last = "session.cancelled"
      /\ session'.status = "cancelled"
  BY <1>1, <1>2 DEF SessionFields, Same
<1>4. /\ ~session.attempt.open /\ session.contexts = session.attempts
      /\ ~Streaming(session)
  BY DEF AppendEvent, Accepts, Endable
<1>5. Counts'
  <2>1. Counts
    BY <1>2, <1>3 DEF Inv, TypeOK
  <2>2. Advanced
    BY <1>2, <1>3, <2>1 DEF SessionFields, Same, Advanced, Up, Counts
  <2>3. QED
    BY <2>1, <2>2, CountsKept
<1>6. (Shape /\ InRound)'
  BY <1>3, RoundKept DEF Inv, TypeOK, SessionFields, Same
<1>7. Marks'
  BY <1>3 DEF Inv, TypeOK, Marks, SessionFields, Same, Terminal
<1>8. (Routed /\ Attempted /\ Awaited)'
  BY <1>1, <1>3, UnderWay, <1>4 DEF AppendEvent, Accepts, Inv, Routed, Attempted, Awaited, SessionFields,
     Same, Streaming
<1>9. (EndedWell /\ CompletedOnEvidence)'
  BY <1>3, UnderWay, <1>4 DEF AppendEvent, Accepts, EndedWell, CompletedOnEvidence, Terminal, SessionFields, Same
<1>10. QED
  BY <1>5, <1>6, <1>7, <1>8, <1>9 DEF Inv, TypeOK

LEMMA InterruptKept ==
    ASSUME Inv, NEW e \in Events, AppendEvent(e), e.type = "session.interrupted"
    PROVE  Inv'
<1>1. session' = [[session EXCEPT !.status = "interrupted"]
                     EXCEPT !.at = e.at, !.last = "session.interrupted"]
  BY DEF AppendEvent, Reduce, Apply
<1>2. DOMAIN session = SessionFields /\ e.at \in Nat
  BY FieldsOf, EventFields DEF Inv, TypeOK, Shape
<1>3. /\ DOMAIN session' = SessionFields /\ Same(SessionFields \ {"status", "at", "last"})
      /\ session'.at = e.at /\ session'.last = "session.interrupted"
      /\ session'.status = "interrupted"
  BY <1>1, <1>2 DEF SessionFields, Same
<1>4. /\ ~session.attempt.open /\ session.contexts = session.attempts
      /\ ~Streaming(session)
  BY DEF AppendEvent, Accepts, Endable
<1>5. Counts'
  <2>1. Counts
    BY <1>2, <1>3 DEF Inv, TypeOK
  <2>2. Advanced
    BY <1>2, <1>3, <2>1 DEF SessionFields, Same, Advanced, Up, Counts
  <2>3. QED
    BY <2>1, <2>2, CountsKept
<1>6. (Shape /\ InRound)'
  BY <1>3, RoundKept DEF Inv, TypeOK, SessionFields, Same
<1>7. Marks'
  BY <1>3 DEF Inv, TypeOK, Marks, SessionFields, Same, Terminal
<1>8. (Routed /\ Attempted /\ Awaited)'
  BY <1>1, <1>3, UnderWay, <1>4 DEF AppendEvent, Accepts, Inv, Routed, Attempted, Awaited, SessionFields,
     Same, Streaming
<1>9. (EndedWell /\ CompletedOnEvidence)'
  BY <1>3, UnderWay, <1>4 DEF AppendEvent, Accepts, EndedWell, CompletedOnEvidence, Terminal, SessionFields, Same
<1>10. QED
  BY <1>5, <1>6, <1>7, <1>8, <1>9 DEF Inv, TypeOK

\* The completion: on a structured answer, so on a synthesis.
LEMMA CompleteKept ==
    ASSUME Inv, NEW e \in Events, AppendEvent(e), e.type = "session.completed"
    PROVE  Inv'
<1>1. session' = [[session EXCEPT !.status = "completed"]
                     EXCEPT !.at = e.at, !.last = "session.completed"]
  BY DEF AppendEvent, Reduce, Apply
<1>2. DOMAIN session = SessionFields /\ e.at \in Nat
  BY FieldsOf, EventFields DEF Inv, TypeOK, Shape
<1>3. /\ DOMAIN session' = SessionFields /\ Same(SessionFields \ {"status", "at", "last"})
      /\ session'.at = e.at /\ session'.last = "session.completed"
      /\ session'.status = "completed"
  BY <1>1, <1>2 DEF SessionFields, Same
<1>4. /\ ~session.attempt.open /\ session.contexts = session.attempts
      /\ ~Streaming(session)
  BY DEF AppendEvent, Accepts, Endable
<1>5. session.inspected /\ session.attempt.structured
  BY DEF AppendEvent, Accepts, Successful, Inv, EndedWell
<1>6. /\ session.attempt.phase = "synthesis" /\ session.investigated
      /\ session.decided \cap {"evidence_complete", "provider_failure"} # {}
  BY <1>5 DEF Inv, Attempted, Routed
<1>7. Counts'
  <2>1. Counts
    BY <1>2, <1>3 DEF Inv, TypeOK
  <2>2. Advanced
    BY <1>2, <1>3, <2>1 DEF SessionFields, Same, Advanced, Up, Counts
  <2>3. QED
    BY <2>1, <2>2, CountsKept
<1>8. (Shape /\ InRound)'
  BY <1>3, RoundKept DEF Inv, TypeOK, SessionFields, Same
<1>9. Marks'
  BY <1>3 DEF Inv, TypeOK, Marks, SessionFields, Same, Terminal
<1>10. (Routed /\ Attempted /\ Awaited)'
  BY <1>1, <1>3, UnderWay, <1>4 DEF AppendEvent, Accepts, Inv, Routed, Attempted, Awaited, SessionFields,
     Same, Streaming
<1>11. (EndedWell /\ CompletedOnEvidence)'
  BY <1>3, UnderWay, <1>4, <1>5, <1>6 DEF AppendEvent, Accepts, EndedWell, CompletedOnEvidence, Terminal,
     SessionFields, Same, SessionFields, Same
<1>12. QED
  BY <1>7, <1>8, <1>9, <1>10, <1>11 DEF Inv, TypeOK

\* Every append keeps the invariant.
LEMMA InvKept == Inv /\ [LogNext]_session => Inv'
<1>1. ASSUME Inv, UNCHANGED session
      PROVE  Inv'
  <2>1. TypeOK'
    <3>1. Shape' /\ Counts'
      BY <1>1 DEF Inv, TypeOK, Shape, Counts
    <3>2. Marks'
      BY <1>1 DEF Inv, TypeOK, Marks
    <3>3. InRound'
      BY <1>1 DEF Inv, TypeOK, InRound
    <3>4. QED
      BY <3>1, <3>2, <3>3 DEF TypeOK
  <2>2. Routed' /\ Awaited'
    BY <1>1 DEF Inv, Routed, Awaited
  <2>3. Attempted'
    BY <1>1 DEF Inv, Attempted, Streaming
  <2>4. EndedWell' /\ CompletedOnEvidence'
    BY <1>1 DEF Inv, EndedWell, CompletedOnEvidence
  <2>5. QED
    BY <2>1, <2>2, <2>3, <2>4 DEF Inv
<1>2. ASSUME Inv, NEW e \in Events, AppendEvent(e)
      PROVE  Inv'
  BY <1>2, EventTypes, StartKept, AdmissionKept, DecisionKept, RouteKept, MessageKept,
     ContextKept, AttemptKept, AnswerKept, FinishKept, CallKept, ReturnKept, CheckKept,
     FailKept, CancelKept, InterruptKept, CompleteKept
<1>3. QED
  BY <1>1, <1>2 DEF LogNext

-----------------------------------------------------------------------------
(* Theorems *)

\* Whatever is appended, the state a log folds into has the fields and types of a session.
THEOREM SessionTyped == LogSpec => []TypeOK
<1>1. Inv => TypeOK
  BY DEF Inv
<1>2. QED
  BY <1>1, InitInv, InvKept, PTL DEF LogSpec

\* No order of appends, of any number of rounds, completes a review that inspected nothing
\* or whose synthesis was not routed on the inspection.
THEOREM ReviewsCompleteOnEvidence == LogSpec => []CompletedOnEvidence
<1>1. Inv => CompletedOnEvidence
  BY DEF Inv
<1>2. QED
  BY <1>1, InitInv, InvKept, PTL DEF LogSpec

\* Whatever is appended, a message of a hybrid review reaches its cloud provider only under a
\* passed admission and the one reservation of its decision, and no other message is paid for.
THEOREM CloudNeedsAdmission == LogSpec => []CloudOnlyAdmitted
<1>1. Inv => CloudOnlyAdmitted
  <2>. SUFFICES ASSUME Inv, session.attempt.open
                PROVE  CloudOnlyAdmitted
    BY DEF CloudOnlyAdmitted
  <2>1. /\ session.decision.provider = session.provider
        /\ session.attempt.reserve = session.decision.reserve
    BY DEF Inv, Attempted
  <2>2. session.hybrid /\ session.provider = "cloud" =>
            /\ session.admission = "pass" /\ session.paid = 1
            /\ session.attempt.reserve > 0
    BY <2>1 DEF Inv, Routed, Awaited
  <2>3. session.attempt.reserve > 0 => session.hybrid /\ session.provider = "cloud"
    BY <2>1 DEF Inv, Routed
  <2>4. QED
    BY <2>1, <2>2, <2>3 DEF CloudOnlyAdmitted
<1>2. QED
  BY <1>1, InitInv, InvKept, PTL DEF LogSpec

\* Whatever is appended, a session that ended has no reservation without its attempt and no
\* attempt without its end.
THEOREM ReservationsAnswered == LogSpec => []ReservationAnswered
<1>1. Inv => ReservationAnswered
  BY DEF Inv, Awaited, EndedWell, ReservationAnswered, Terminal
<1>2. QED
  BY <1>1, InitInv, InvKept, PTL DEF LogSpec

\* After the fallback no event reserves or pays for anything.
LEMMA NothingPaidAfterFallback ==
    ASSUME Inv, NEW e \in Events, AppendEvent(e), "provider_failure" \in session.decided
    PROVE  session'.paid = session.paid /\ session'.reserved = session.reserved
<1>1. session.decision.reserve = 0 /\ DOMAIN session = SessionFields
  <2>1. session.decision \in Decisions \cup {NoDecision}
    BY DEF Inv, TypeOK, Marks
  <2>2. session.decision.reserve \in Nat
    <3>1. CASE session.decision \in Decisions
      BY <3>1, InputAssumption DEF Decisions
    <3>2. CASE session.decision = NoDecision
      BY <3>2 DEF NoDecision
    <3>3. QED
      BY <2>1, <3>1, <3>2
  <2>3. ~(session.decision.reserve > 0)
    BY DEF Inv, Routed
  <2>4. session.decision.reserve = 0
    BY <2>2, <2>3
  <2>5. DOMAIN session = SessionFields
    BY FieldsOf DEF Inv, TypeOK, Shape
  <2>6. QED
    BY <2>4, <2>5
<1>2. CASE e.type = "routing.decision.recorded"
  <2>1. /\ Decidable(session, e) /\ e.decision \in Decisions
        /\ e.decision.boundary \notin session.decided
        /\ session.decided # {} /\ "evidence_complete" \in session.decided
    BY <1>2, EventFields DEF DecisionEvents, AppendEvent, Accepts, Decidable, Inv, Routed
  <2>2. FALSE
    BY <2>1 DEF Decidable, Decisions
  <2>3. QED
    BY <2>2
<1>3. CASE e.type = "inference.attempt.started"
  <2>1. e.reserve = 0
    BY <1>1, <1>3 DEF AppendEvent, Accepts, Attemptable
  <2>2. session.paid \in {0, 1}
    BY DEF Inv, Awaited
  <2>3. /\ session'.paid = session.paid + (IF e.reserve > 0 THEN 1 ELSE 0)
        /\ session'.reserved = session.reserved
    BY <1>1, <1>3 DEF AppendEvent, Reduce, Apply, SessionFields
  <2>4. QED
    BY <2>1, <2>2, <2>3
<1>4. CASE e.type \notin {"routing.decision.recorded", "inference.attempt.started"}
  BY <1>1, <1>4, EventTypes DEF AppendEvent, Reduce, Apply, Finish, SessionFields
<1>5. QED
  BY <1>2, <1>3, <1>4

\* After a fallback nothing that is appended reserves or pays: the session stays local.
THEOREM FallbacksStayLocal == LogSpec => FallbackStaysLocal
<1>1. Inv /\ [LogNext]_session =>
          [ "provider_failure" \in session.decided =>
                session'.paid = session.paid /\ session'.reserved = session.reserved ]_session
  BY NothingPaidAfterFallback DEF LogNext
<1>2. QED
  BY <1>1, InitInv, InvKept, PTL DEF LogSpec, FallbackStaysLocal

-----------------------------------------------------------------------------
(* Reviews side by side *)

-----------------------------------------------------------------------------
(* Batches, event by event *)

Batches == INSTANCE FoldLaws WITH Op <- Reduced

\* A batch is folded from its first event on.
LEMMA FoldedIsAFold ==
    ASSUME NEW x, NEW batch
    PROVE  Folded(x, batch) = Batches!Fold({x}, batch)
BY DEF Folded, Batches!Fold, FoldLeft, Batches!FoldLeft, MapThenFoldSet,
   Batches!MapThenFoldSet, Max, Batches!Max

IsBatch(batch) == \E S : batch \in Seq(S)

\* The empty batch leads nowhere.
LEMMA FoldedNone == ASSUME NEW x PROVE Folded(x, <<>>) = {x}
BY FoldedIsAFold, Batches!FoldEmpty

\* x accepts e, which makes it y.
Leads(x, e, y) == Accepts(x, e) /\ y = Reduce(x, e)

\* The last event of a batch is reduced last.
LEMMA FoldedLast ==
    ASSUME NEW x, NEW batch, IsBatch(batch), NEW e, NEW y
    PROVE  y \in Folded(x, Append(batch, e)) <=> \E z \in Folded(x, batch) : Leads(z, e, y)
<1>1. PICK S : batch \in Seq(S)
  BY DEF IsBatch
<1>2. Batches!Fold({x}, Append(batch, e)) = Reduced(Batches!Fold({x}, batch), e)
  BY <1>1, Batches!FoldAppend
<1>3. Folded(x, Append(batch, e)) = Reduced(Folded(x, batch), e)
  BY <1>2, FoldedIsAFold
<1>4. QED
  BY <1>3 DEF Reduced, Leads

\* A batch of one event, of two, of three.
LEMMA FoldedOne ==
    ASSUME NEW x, NEW e, NEW y
    PROVE  y \in Folded(x, <<e>>) <=> Leads(x, e, y)
<1>1. <<e>> = Append(<<>>, e)
  OBVIOUS
<1>2. IsBatch(<<>>)
  BY <<>> \in Seq({}) DEF IsBatch
<1>3. y \in Folded(x, <<e>>) <=> \E z \in Folded(x, <<>>) : Leads(z, e, y)
  BY <1>1, <1>2, FoldedLast
<1>4. QED
  BY <1>3, FoldedNone

\* Two events are reduced one after the other.
LEMMA FoldedTwo ==
    ASSUME NEW x, NEW d, NEW e, NEW y
    PROVE  y \in Folded(x, <<d, e>>) <=> \E z : Leads(x, d, z) /\ Leads(z, e, y)
<1>1. <<d, e>> = Append(<<d>>, e)
  OBVIOUS
<1>2. IsBatch(<<d>>)
  BY <<d>> \in Seq({d}) DEF IsBatch
<1>3. y \in Folded(x, <<d, e>>) <=> \E z \in Folded(x, <<d>>) : Leads(z, e, y)
  BY <1>1, <1>2, FoldedLast
<1>4. QED
  BY <1>3, FoldedOne

\* So are three.
LEMMA FoldedThree ==
    ASSUME NEW x, NEW c, NEW d, NEW e, NEW y
    PROVE  y \in Folded(x, <<c, d, e>>) <=>
               \E w, z : Leads(x, c, w) /\ Leads(w, d, z) /\ Leads(z, e, y)
<1>1. <<c, d, e>> = Append(<<c, d>>, e)
  OBVIOUS
<1>2. IsBatch(<<c, d>>)
  BY <<c, d>> \in Seq({c, d}) DEF IsBatch
<1>3. y \in Folded(x, <<c, d, e>>) <=> \E z \in Folded(x, <<c, d>>) : Leads(z, e, y)
  BY <1>1, <1>2, FoldedLast
<1>4. QED
  BY <1>3, FoldedTwo

\* Batches written as one.
LEMMA Joined ==
    ASSUME NEW a, NEW b
    PROVE  << a >> \o << b >> = << a, b >>
<1>. DEFINE s == << a >> \o << b >>
<1>1. Len(s) = 2 /\ s[1] = a /\ s[2] = b /\ s \in Seq({a, b})
  OBVIOUS
<1>. HIDE DEF s
<1>2. << a, b >> = s
  BY <1>1
<1>3. QED
  BY <1>2 DEF s

\* Three events, however they are joined.
LEMMA JoinedThree ==
    ASSUME NEW a, NEW b, NEW c
    PROVE  /\ << a >> \o << b, c >> = << a, b, c >>
           /\ << a, b >> \o << c >> = << a, b, c >>
           /\ Append(<< a, b >>, c) = << a, b, c >>
<1>1. << a, b, c >> = << a >> \o << b, c >>
  OBVIOUS
<1>2. << a, b, c >> = << a, b >> \o << c >>
  OBVIOUS
<1>3. << a, b, c >> = Append(<< a, b >>, c)
  OBVIOUS
<1>4. QED
  BY <1>1, <1>2, <1>3

\* The batches of one event, of two and of three.
LEMMA OneIsBatch == ASSUME NEW a PROVE IsBatch(<< a >>)
BY << a >> \in Seq({a}) DEF IsBatch

\* So are two events.
LEMMA TwoIsBatch == ASSUME NEW a, NEW b PROVE IsBatch(<< a, b >>)
BY << a, b >> \in Seq({a, b}) DEF IsBatch

\* So are three.
LEMMA ThreeIsBatch == ASSUME NEW a, NEW b, NEW c PROVE IsBatch(<< a, b, c >>)
BY << a, b, c >> \in Seq({a, b, c}) DEF IsBatch

\* A batch that three events lengthen.
LEMMA FoldedOnThree ==
    ASSUME NEW x, NEW batch, IsBatch(batch), NEW c, NEW d, NEW e, NEW y,
           y \in Folded(x, batch \o <<c, d, e>>)
    PROVE  \E v \in Folded(x, batch) : \E w, z :
               Leads(v, c, w) /\ Leads(w, d, z) /\ Leads(z, e, y)
<1>1. PICK S : batch \in Seq(S)
  BY DEF IsBatch
<1>. DEFINE T == S \cup {c, d, e}
<1>2. batch \in Seq(T) /\ c \in T /\ d \in T /\ e \in T
  BY <1>1
<1>. HIDE DEF T
<1>3. /\ batch \o <<c, d, e>> = Append(Append(Append(batch, c), d), e)
      /\ Append(batch, c) \in Seq(T) /\ Append(Append(batch, c), d) \in Seq(T)
  BY <1>2
<1>4. IsBatch(Append(batch, c)) /\ IsBatch(Append(Append(batch, c), d))
  BY <1>3 DEF IsBatch
<1>5. PICK z \in Folded(x, Append(Append(batch, c), d)) : Leads(z, e, y)
  BY <1>3, <1>4, FoldedLast
<1>6. PICK w \in Folded(x, Append(batch, c)) : Leads(w, d, z)
  BY <1>4, <1>5, FoldedLast
<1>7. PICK v \in Folded(x, batch) : Leads(v, c, w)
  BY <1>6, FoldedLast
<1>8. QED
  BY <1>5, <1>6, <1>7

-----------------------------------------------------------------------------
(* What each event changes *)

Fields == {"hybrid", "status", "last", "at", "deadline", "leases", "provider", "changes",
           "decided", "decision", "admission", "assistants", "contexts", "message",
           "attempts", "attempt", "paid", "calls", "inspected", "investigated", "check",
           "remaining", "reserved", "settled"}

\* Event e makes y of x, and leaves all fields as they are but those of F.
Becomes(x, e, y, F) ==
    /\ DOMAIN y = Fields /\ y.at = e.at /\ y.last = e.type
    /\ \A f \in Fields \ (F \cup {"at", "last"}) : y[f] = x[f]

\* The start of a session.
LEMMA StartEvent ==
    ASSUME NEW x, DOMAIN x = Fields, NEW e, e.type = "session.started",
           NEW y, Leads(x, e, y)
    PROVE  /\ Becomes(x, e, y, {"status", "deadline"})
           /\ y.status = "running"
<1>1. y = [[x EXCEPT !.status = "running", !.deadline = e.at + Duration]
             EXCEPT !.at = e.at, !.last = e.type]
  BY DEF Leads, Reduce, Apply
<1>2. QED
  BY <1>1 DEF Becomes, Fields

\* The egress admission.
LEMMA AdmissionEvent ==
    ASSUME NEW x, DOMAIN x = Fields, NEW e, e.type = "cloud.egress.admission.recorded",
           NEW y, Leads(x, e, y)
    PROVE  /\ Becomes(x, e, y, {"admission"})
<1>1. y = [[x EXCEPT !.admission = e.verdict]
             EXCEPT !.at = e.at, !.last = e.type]
  BY DEF Leads, Reduce, Apply
<1>2. QED
  BY <1>1 DEF Becomes, Fields

\* A routing decision.
LEMMA DecisionEvent ==
    ASSUME NEW x, DOMAIN x = Fields, NEW e, e.type = "routing.decision.recorded",
           NEW y, Leads(x, e, y)
    PROVE  /\ Becomes(x, e, y, {"decided", "decision", "reserved"})
           /\ y.decided = x.decided \cup {e.decision.boundary}
           /\ y.decision = e.decision
           /\ y.reserved = x.reserved + e.decision.reserve
<1>1. y = [[x EXCEPT !.decided = @ \cup {e.decision.boundary}, !.decision = e.decision,
                       !.reserved = @ + e.decision.reserve]
             EXCEPT !.at = e.at, !.last = e.type]
  BY DEF Leads, Reduce, Apply
<1>2. QED
  BY <1>1 DEF Becomes, Fields

\* The lease it assigns.
LEMMA RouteEvent ==
    ASSUME NEW x, DOMAIN x = Fields, NEW e, e.type = "route.assigned",
           NEW y, Leads(x, e, y)
    PROVE  /\ Becomes(x, e, y, {"leases", "provider", "changes"})
<1>1. y = [[x EXCEPT !.leases = @ + 1, !.provider = e.provider,
                       !.changes = Changes(x, e.provider)]
             EXCEPT !.at = e.at, !.last = e.type]
  BY DEF Leads, Reduce, Apply
<1>2. QED
  BY <1>1 DEF Becomes, Fields

\* A new assistant message.
LEMMA MessageEvent ==
    ASSUME NEW x, DOMAIN x = Fields, NEW e, e.type = "assistant.message.started",
           NEW y, Leads(x, e, y)
    PROVE  /\ Becomes(x, e, y, {"assistants", "message"})
           /\ y.message = [NoMessage EXCEPT !.status = "streaming"]
<1>1. y = [[x EXCEPT !.assistants = @ + 1,
                       !.message = [NoMessage EXCEPT !.status = "streaming"]]
             EXCEPT !.at = e.at, !.last = e.type]
  BY DEF Leads, Reduce, Apply
<1>2. QED
  BY <1>1 DEF Becomes, Fields

\* Its context.
LEMMA ContextEvent ==
    ASSUME NEW x, DOMAIN x = Fields, NEW e, e.type = "context.compiled",
           NEW y, Leads(x, e, y)
    PROVE  /\ Becomes(x, e, y, {"contexts"})
           /\ y.contexts = x.contexts + 1
<1>1. y = [[x EXCEPT !.contexts = @ + 1]
             EXCEPT !.at = e.at, !.last = e.type]
  BY DEF Leads, Reduce, Apply
<1>2. QED
  BY <1>1 DEF Becomes, Fields

AttemptOf(e) ==
    [NoAttempt EXCEPT !.open = TRUE, !.phase = e.phase, !.tooling = e.tooling,
                      !.structured = e.structured, !.reserve = e.reserve]

\* Its attempt.
LEMMA AttemptEvent ==
    ASSUME NEW x, DOMAIN x = Fields, NEW e, e.type = "inference.attempt.started",
           NEW y, Leads(x, e, y)
    PROVE  /\ Becomes(x, e, y, {"attempts", "attempt", "paid"})
           /\ y.attempts = x.attempts + 1
           /\ y.attempt = AttemptOf(e)
<1>1. y = [[x EXCEPT !.attempts = @ + 1,
                       !.attempt = [NoAttempt EXCEPT !.open = TRUE, !.phase = e.phase,
                                        !.tooling = e.tooling, !.structured = e.structured,
                                        !.reserve = e.reserve],
                       !.paid = @ + (IF e.reserve > 0 THEN 1 ELSE 0)]
             EXCEPT !.at = e.at, !.last = e.type]
  BY DEF Leads, Reduce, Apply
<1>2. QED
  BY <1>1 DEF Becomes, Fields, AttemptOf

SpokenOf(message, e) ==
    [message EXCEPT !.stop = e.stop, !.parse = e.parse,
                    !.status = IF e.complete THEN "completed" ELSE "failed"]

\* The end of the message.
LEMMA SpokenEvent ==
    ASSUME NEW x, DOMAIN x = Fields, NEW e, e.type = "assistant.message.completed",
           NEW y, Leads(x, e, y)
    PROVE  /\ Becomes(x, e, y, {"message"})
           /\ y.message = SpokenOf(x.message, e)
<1>1. y = [[x EXCEPT !.message = [@ EXCEPT !.stop = e.stop, !.parse = e.parse,
                                             !.status = IF e.complete THEN "completed"
                                                                      ELSE "failed"]]
             EXCEPT !.at = e.at, !.last = e.type]
  BY DEF Leads, Reduce, Apply
<1>2. QED
  BY <1>1 DEF Becomes, Fields, SpokenOf

FinishedOf(attempt, e) ==
    [attempt EXCEPT !.open = FALSE, !.outcome = e.outcome, !.cost = e.cost,
                    !.provenance = e.provenance]

\* The end of the attempt.
LEMMA FinishEvent ==
    ASSUME NEW x, DOMAIN x = Fields, NEW e, e.type = "inference.attempt.finished",
           NEW y, Leads(x, e, y)
    PROVE  /\ Becomes(x, e, y, {"attempt", "message", "settled", "investigated"})
           /\ y.attempt = FinishedOf(x.attempt, e)
           /\ y.message = IF e.outcome = "succeeded" THEN x.message
                          ELSE [x.message EXCEPT !.status = "failed"]
           /\ y.settled = IF x.attempt.reserve > 0
                       THEN [disposition |-> e.disposition, cost |-> e.cost] ELSE x.settled
<1>1. y = [Finish(x, e) EXCEPT !.at = e.at, !.last = e.type]
  BY DEF Leads, Reduce, Apply
<1>2. QED
  BY <1>1 DEF Finish, FinishedOf, Becomes, Fields

\* A call of a tool.
LEMMA CallEvent ==
    ASSUME NEW x, DOMAIN x = Fields, NEW e, e.type = "tool.call.requested",
           NEW y, Leads(x, e, y)
    PROVE  /\ Becomes(x, e, y, {"calls", "message"})
           /\ y.message = [x.message EXCEPT !.call = "requested"]
<1>1. y = [[x EXCEPT !.calls = @ + 1, !.message.call = "requested"]
             EXCEPT !.at = e.at, !.last = e.type]
  BY DEF Leads, Reduce, Apply
<1>2. QED
  BY <1>1 DEF Becomes, Fields

\* Its return.
LEMMA ReturnEvent ==
    ASSUME NEW x, DOMAIN x = Fields, NEW e, e.type = "tool.call.completed",
           NEW y, Leads(x, e, y)
    PROVE  /\ Becomes(x, e, y, {"message", "inspected"})
           /\ y.message = [x.message EXCEPT !.call = IF e.ok THEN "completed" ELSE "failed"]
<1>1. y = [[x EXCEPT !.message.call = IF e.ok THEN "completed" ELSE "failed",
                       !.inspected = @ \/ e.ok]
             EXCEPT !.at = e.at, !.last = e.type]
  BY DEF Leads, Reduce, Apply
<1>2. QED
  BY <1>1 DEF Becomes, Fields

\* The check of the obligations.
LEMMA CheckEvent ==
    ASSUME NEW x, DOMAIN x = Fields, NEW e, e.type = "completion.obligations.checked",
           NEW y, Leads(x, e, y)
    PROVE  /\ Becomes(x, e, y, {"check", "remaining"})
<1>1. y = [[x EXCEPT !.check = e.outcome, !.remaining = e.remaining]
             EXCEPT !.at = e.at, !.last = e.type]
  BY DEF Leads, Reduce, Apply
<1>2. QED
  BY <1>1 DEF Becomes, Fields

\* The status a terminal event leads to.
Ends == {"session.completed", "session.failed", "session.cancelled", "session.interrupted"}
StatusOf(type) ==
    CASE type = "session.completed" -> "completed"
      [] type = "session.failed" -> "failed"
      [] type = "session.cancelled" -> "cancelled"
      [] type = "session.interrupted" -> "interrupted"

\* The end of the session.
LEMMA EndEvent ==
    ASSUME NEW x, DOMAIN x = Fields, NEW e, e.type \in Ends, NEW y, Leads(x, e, y)
    PROVE  /\ Becomes(x, e, y, {"status"})
           /\ y.status = StatusOf(e.type) /\ y.status \in Terminal
           /\ Endable(x) /\ Active(x)
<1>1. y = [[x EXCEPT !.status = StatusOf(e.type)] EXCEPT !.at = e.at, !.last = e.type]
  BY DEF Leads, Reduce, Apply, Ends, StatusOf
<1>2. StatusOf(e.type) \in Terminal
  BY DEF Ends, StatusOf, Terminal
<1>3. Endable(x) /\ Active(x)
  BY DEF Leads, Accepts, Ends, Common
<1>4. QED
  BY <1>1, <1>2, <1>3 DEF Becomes, Fields

-----------------------------------------------------------------------------
(* A session between two batches *)

Formed(x) ==
    /\ DOMAIN x = Fields
    /\ DOMAIN x.message = DOMAIN NoMessage /\ DOMAIN x.attempt = DOMAIN NoAttempt
    /\ x.status \in Terminal \cup {"created", "running"}
    /\ x.attempt.open \in BOOLEAN /\ x.attempt.reserve \in Nat
    /\ x.at \in Nat

\* Where a batch may leave the session: only an attempt or a call of a tool is under way.
Halted(x) ==
    /\ x.contexts = x.attempts
    /\ x.attempt.open <=> x.last = "inference.attempt.started"
    /\ x.attempt.open <=> Streaming(x)
    /\ x.attempt.open =>
           /\ x.status = "running" /\ ~PendingCall(x)
           /\ x.attempt.reserve = x.decision.reserve /\ x.attempt.outcome = "none"
    /\ PendingCall(x) <=> x.last = "tool.call.requested"
    /\ PendingCall(x) => x.message.status = "completed"
    /\ x.status = "running" =>
           x.last \in {"session.started", "inference.attempt.started",
                       "inference.attempt.finished", "tool.call.requested",
                       "tool.call.completed"}
    /\ x.status = "running" /\ x.last = "inference.attempt.finished" =>
           x.attempt.outcome \notin {"cancelled", "interrupted"}

\* What a paid attempt may have cost in the end.
Answers == [disposition: {"sent", "not_sent"}, cost: Costs \cup Projections \cup {0}]

\* A session pays once: its reservation is that of its open attempt until it is answered.
Accounted(x) ==
    /\ x.reserved \in Projections \cup {0}
    /\ x.settled \in Answers \cup {Unsettled}
    /\ x.settled.disposition = "not_sent" => x.settled.cost = 0
    /\ x.reserved > 0 => "evidence_complete" \in x.decided
    /\ x.reserved = 0 => x.settled = Unsettled
    /\ x.attempt.open /\ x.attempt.reserve > 0 <=> x.reserved > 0 /\ x.settled = Unsettled
    /\ x.attempt.open /\ x.attempt.reserve > 0 => x.attempt.reserve = x.reserved

\* A review that cost more than was reserved has failed.
OverrunFailed(x) == x.settled.cost > x.reserved => x.status = "failed"

Resting(x) == Formed(x) /\ Halted(x) /\ Accounted(x) /\ OverrunFailed(x)

\* Nothing is written of a stopped review that could complete it, and nothing runs of a
\* completed one.
Heeded(s) ==
    /\ aborted[s] => job[s].at # "accepted" /\ log[s].status # "completed"
    /\ log[s].status = "completed" => job[s].at \in {"idle", "done"}

Shaped ==
    /\ now \in Nat
    /\ DOMAIN log = Sessions /\ DOMAIN job = Sessions /\ DOMAIN aborted = Sessions
    /\ \A s \in Sessions : DOMAIN job[s] = DOMAIN Idle

\* The inductive invariant.
IInv ==
    /\ Shaped
    /\ rows = [s \in Sessions |-> RowOf(log[s])]
    /\ \A s \in Sessions : Resting(log[s]) /\ Heeded(s)

-----------------------------------------------------------------------------
(* What batches make of a session at rest *)

\* The events that neither start nor end anything but a round or a call.
Inner == {"cloud.egress.admission.recorded", "routing.decision.recorded", "route.assigned",
          "assistant.message.started", "context.compiled", "inference.attempt.started",
          "tool.call.requested", "tool.call.completed", "completion.obligations.checked"}

\* They need a running session and no open attempt.
LEMMA InnerAccepted ==
    ASSUME NEW x, NEW e, e.type \in Inner, NEW y, Leads(x, e, y)
    PROVE  x.status = "running" /\ ~x.attempt.open
BY DEF Leads, Accepts, Common, RunningWhenNeeded, StartableBefore, Follows, Inner

\* The budget sees nothing of the change from x to y.
Unpaid(x, y) == y.reserved = x.reserved /\ y.settled = x.settled

\* Then its row is the same.
LEMMA UnpaidRow == ASSUME NEW x, NEW y, Unpaid(x, y) PROVE RowOf(y) = RowOf(x)
BY DEF Unpaid, RowOf

\* A change that leaves the round and the budget as they are.
Beside(x, y) ==
    /\ y.attempt = x.attempt /\ y.contexts = x.contexts /\ y.attempts = x.attempts
    /\ y.decided = x.decided /\ y.decision = x.decision
    /\ Unpaid(x, y)

\* The start.
LEMMA StartBatch ==
    ASSUME NEW x, Resting(x), NEW t \in Nat, NEW y \in Folded(x, << Ev("session.started", t) >>)
    PROVE  Resting(y) /\ Unpaid(x, y) /\ y.at = t /\ y.status # "completed"
<1>. DEFINE e == Ev("session.started", t)
<1>1. Leads(x, e, y) /\ e.type = "session.started" /\ e.at = t
  BY FoldedOne DEF Ev
<1>2. x.status = "created"
  BY <1>1 DEF Leads, Accepts, Started
<1>. HIDE DEF e
<1>3. Becomes(x, e, y, {"status", "deadline"}) /\ y.status = "running"
  BY <1>1, StartEvent DEF Resting, Formed
<1>4. Beside(x, y) /\ y.message = x.message /\ y.at = t /\ y.last = "session.started"
  BY <1>1, <1>3 DEF Becomes, Fields, Beside, Unpaid
<1>5. Formed(y)
  BY <1>3, <1>4 DEF Resting, Formed, Becomes, Beside
<1>6. ~x.attempt.open
  BY <1>2 DEF Resting, Halted
<1>7. ~PendingCall(x)
  BY <1>1 DEF Resting, Halted, Leads, Accepts, Common, Follows
<1>8. Halted(y)
  BY <1>3, <1>4, <1>6, <1>7 DEF Resting, Halted, Beside, Streaming, PendingCall
<1>9. Accounted(y) /\ OverrunFailed(y)
  BY <1>2, <1>3, <1>4, <1>6 DEF Resting, Accounted, OverrunFailed, Beside, Unpaid
<1>10. QED
  BY <1>3, <1>4, <1>5, <1>8, <1>9 DEF Resting, Beside

\* The call of a tool.
LEMMA CallBatch ==
    ASSUME NEW x, Resting(x), NEW e, e.type = "tool.call.requested", e.at \in Nat,
           NEW y \in Folded(x, <<e>>)
    PROVE  Resting(y) /\ Unpaid(x, y) /\ y.at = e.at /\ y.status # "completed"
<1>1. Leads(x, e, y)
  BY FoldedOne
<1>2. x.status = "running" /\ ~x.attempt.open /\ x.message.status = "completed"
  BY <1>1, InnerAccepted DEF Inner, Leads, Accepts, Requestable
<1>3. /\ Becomes(x, e, y, {"calls", "message"})
      /\ y.message = [x.message EXCEPT !.call = "requested"]
  BY <1>1, CallEvent DEF Resting, Formed
<1>4. Beside(x, y) /\ y.status = x.status /\ y.at = e.at /\ y.last = "tool.call.requested"
  BY <1>3 DEF Becomes, Fields, Beside, Unpaid
<1>5. /\ DOMAIN y.message = DOMAIN NoMessage /\ y.message.call = "requested"
      /\ y.message.status = "completed"
  BY <1>2, <1>3 DEF Resting, Formed, NoMessage
<1>6. Formed(y)
  BY <1>3, <1>4, <1>5 DEF Resting, Formed, Becomes, Beside
<1>7. Halted(y)
  BY <1>2, <1>4, <1>5 DEF Resting, Halted, Beside, Streaming, PendingCall
<1>8. Accounted(y) /\ OverrunFailed(y)
  BY <1>2, <1>4 DEF Resting, Accounted, OverrunFailed, Beside, Unpaid
<1>9. QED
  BY <1>2, <1>4, <1>6, <1>7, <1>8 DEF Resting, Beside

\* Its return.
LEMMA ReturnBatch ==
    ASSUME NEW x, Resting(x), NEW e, e.type = "tool.call.completed", e.at \in Nat,
           NEW y, Leads(x, e, y)
    PROVE  Resting(y) /\ Unpaid(x, y) /\ y.at = e.at /\ y.status = "running"
<1>1. Leads(x, e, y)
  OBVIOUS
<1>2. x.status = "running" /\ ~x.attempt.open /\ x.message.status = "completed"
  BY <1>1, InnerAccepted DEF Inner, Leads, Accepts, Returnable
<1>3. /\ Becomes(x, e, y, {"message", "inspected"})
      /\ y.message = [x.message EXCEPT !.call = IF e.ok THEN "completed" ELSE "failed"]
  BY <1>1, ReturnEvent DEF Resting, Formed
<1>4. Beside(x, y) /\ y.status = x.status /\ y.at = e.at /\ y.last = "tool.call.completed"
  BY <1>3 DEF Becomes, Fields, Beside, Unpaid
<1>5. /\ DOMAIN y.message = DOMAIN NoMessage /\ y.message.call # "requested"
      /\ y.message.status = "completed"
  BY <1>2, <1>3 DEF Resting, Formed, NoMessage
<1>6. Formed(y)
  BY <1>3, <1>4, <1>5 DEF Resting, Formed, Becomes, Beside
<1>7. Halted(y)
  BY <1>2, <1>4, <1>5 DEF Resting, Halted, Beside, Streaming, PendingCall
<1>8. Accounted(y) /\ OverrunFailed(y)
  BY <1>2, <1>4 DEF Resting, Accounted, OverrunFailed, Beside, Unpaid
<1>9. QED
  BY <1>2, <1>4, <1>6, <1>7, <1>8 DEF Resting, Beside

\* The end of a session, alone or at the end of a batch; an overrun ends in failure.
LEMMA EndLeads ==
    ASSUME NEW x, Formed(x), Accounted(x), NEW e, e.type \in Ends, e.at \in Nat,
           NEW y, Leads(x, e, y), x.settled.cost > x.reserved => e.type = "session.failed"
    PROVE  Resting(y) /\ Unpaid(x, y) /\ y.at = e.at /\ y.status = StatusOf(e.type)
<1>1. /\ Becomes(x, e, y, {"status"})
      /\ y.status = StatusOf(e.type) /\ y.status \in Terminal
      /\ Endable(x) /\ Active(x)
  BY EndEvent DEF Formed
<1>2. Beside(x, y) /\ y.message = x.message /\ y.at = e.at /\ y.last = e.type
  BY <1>1 DEF Becomes, Fields, Beside, Unpaid
<1>3. Formed(y)
  BY <1>1, <1>2 DEF Formed, Becomes, Beside
<1>4. Halted(y)
  BY <1>1, <1>2 DEF Halted, Beside, Endable, Streaming, PendingCall, Terminal, Ends
<1>5. Accounted(y)
  BY <1>2 DEF Accounted, Beside, Unpaid
<1>6. QED
  <2>1. OverrunFailed(y)
    BY <1>1, <1>2 DEF OverrunFailed, Beside, Unpaid, StatusOf
  <2>2. QED
    BY <1>1, <1>2, <1>3, <1>4, <1>5, <2>1 DEF Resting, Beside

\* A review is ended: nothing of it is owed but to a failure.
LEMMA EndBatch ==
    ASSUME NEW x, Resting(x), NEW e, e.type \in Ends, e.at \in Nat, NEW y, Leads(x, e, y)
    PROVE  Resting(y) /\ Unpaid(x, y) /\ y.at = e.at /\ y.status = StatusOf(e.type)
<1>1. Active(x)
  BY DEF Leads, Accepts, Common
<1>2. ~(x.settled.cost > x.reserved)
  BY <1>1 DEF Resting, OverrunFailed, Active, Terminal
<1>3. QED
  BY <1>2, EndLeads DEF Resting

\* A review is checked and completed.
LEMMA CompleteBatch ==
    ASSUME NEW x, Resting(x), NEW c, c.type = "completion.obligations.checked",
           NEW e, e.type \in Ends, e.at \in Nat, c.at \in Nat, NEW y \in Folded(x, <<c, e>>)
    PROVE  Resting(y) /\ Unpaid(x, y) /\ y.at = e.at
<1>1. PICK z : Leads(x, c, z) /\ Leads(z, e, y)
  BY FoldedTwo
<1>2. x.status = "running" /\ ~x.attempt.open
  BY <1>1, InnerAccepted DEF Inner
<1>3. Becomes(x, c, z, {"check", "remaining"})
  BY <1>1, CheckEvent DEF Resting, Formed
<1>4. Beside(x, z) /\ z.message = x.message /\ z.status = x.status /\ z.at = c.at
  BY <1>3 DEF Becomes, Fields, Beside, Unpaid
<1>5. Formed(z) /\ Accounted(z)
  BY <1>3, <1>4 DEF Resting, Formed, Accounted, Becomes, Beside, Unpaid
<1>6. ~(z.settled.cost > z.reserved)
  BY <1>2, <1>4 DEF Resting, OverrunFailed, Beside, Unpaid
<1>7. Resting(y) /\ Unpaid(z, y) /\ y.at = e.at
  BY <1>1, <1>5, <1>6, EndLeads
<1>8. QED
  BY <1>4, <1>7 DEF Beside, Unpaid

-----------------------------------------------------------------------------
(* A round: what opens it, its message, its context and its attempt *)

\* What decisions and routes make z of x, that reserve r.
Opened(x, z, r) ==
    /\ Formed(z)
    /\ z.status = x.status /\ z.attempt = x.attempt
    /\ z.contexts = x.contexts /\ z.attempts = x.attempts
    /\ x.decided \subseteq z.decided
    /\ z.settled = x.settled /\ z.reserved = x.reserved + r
    /\ r > 0 => "evidence_complete" \in z.decided /\ "evidence_complete" \notin x.decided

\* An admission opens nothing.
LEMMA AdmissionLeads ==
    ASSUME NEW x, Formed(x), x.reserved \in Nat, NEW t \in Nat, NEW verdict,
           NEW z, Leads(x, Admission(t, verdict), z)
    PROVE  Opened(x, z, 0)
<1>. DEFINE e == Admission(t, verdict)
<1>1. e.type = "cloud.egress.admission.recorded" /\ e.at = t
  BY DEF Admission
<1>. HIDE DEF e
<1>2. Becomes(x, e, z, {"admission"})
  BY <1>1, AdmissionEvent DEF e, Formed
<1>3. /\ z.message = x.message /\ z.status = x.status /\ z.attempt = x.attempt /\ z.at = t
      /\ z.contexts = x.contexts /\ z.attempts = x.attempts /\ z.decided = x.decided
      /\ z.settled = x.settled /\ z.reserved = x.reserved /\ DOMAIN z = Fields
  BY <1>1, <1>2 DEF Becomes, Fields
<1>4. QED
  BY <1>3 DEF Opened, Formed

\* A decision reserves what it says, once for its boundary.
LEMMA DecisionLeads ==
    ASSUME NEW x, Formed(x), x.reserved \in Nat, NEW t \in Nat, NEW boundary, NEW action,
           NEW reason, NEW provider, NEW r \in Nat, r > 0 => boundary = "evidence_complete",
           NEW z, Leads(x, Decision(t, boundary, action, reason, provider, r), z)
    PROVE  Opened(x, z, r)
<1>. DEFINE e == Decision(t, boundary, action, reason, provider, r)
<1>1. /\ e.type = "routing.decision.recorded" /\ e.at = t
      /\ e.decision.boundary = boundary /\ e.decision.reserve = r
  BY DEF Decision
<1>. HIDE DEF e
<1>2. /\ Becomes(x, e, z, {"decided", "decision", "reserved"})
      /\ z.decided = x.decided \cup {boundary} /\ z.reserved = x.reserved + r
  BY <1>1, DecisionEvent DEF e, Formed
<1>3. boundary \notin x.decided
  BY <1>1 DEF e, Leads, Accepts, Decidable
<1>4. /\ z.message = x.message /\ z.status = x.status /\ z.attempt = x.attempt /\ z.at = t
      /\ z.contexts = x.contexts /\ z.attempts = x.attempts
      /\ z.settled = x.settled /\ DOMAIN z = Fields
  BY <1>1, <1>2 DEF Becomes, Fields
<1>5. Formed(z)
  BY <1>4 DEF Formed
<1>6. QED
  BY <1>2, <1>3, <1>4, <1>5 DEF Opened

\* A route reserves nothing.
LEMMA RouteLeads ==
    ASSUME NEW x, Formed(x), x.reserved \in Nat, NEW e, e.type = "route.assigned", e.at \in Nat,
           NEW z, Leads(x, e, z)
    PROVE  Opened(x, z, 0)
<1>1. Becomes(x, e, z, {"leases", "provider", "changes"})
  BY RouteEvent DEF Formed
<1>2. /\ z.message = x.message /\ z.status = x.status /\ z.attempt = x.attempt /\ z.at = e.at
      /\ z.contexts = x.contexts /\ z.attempts = x.attempts /\ z.decided = x.decided
      /\ z.settled = x.settled /\ z.reserved = x.reserved /\ DOMAIN z = Fields
  BY <1>1 DEF Becomes, Fields
<1>3. QED
  BY <1>2 DEF Opened, Formed

\* One after the other.
LEMMA OpenedOn ==
    ASSUME NEW x, NEW y, NEW z, x.reserved \in Nat, NEW q \in Nat, NEW r \in Nat,
           Opened(x, y, q), Opened(y, z, r)
    PROVE  Opened(x, z, q + r) /\ y.reserved \in Nat /\ Formed(y)
BY DEF Opened

\* The openings the coordinators write.
LEMMA RetainOpens ==
    ASSUME NEW x, Formed(x), x.reserved \in Nat, NEW t \in Nat, NEW reason,
           NEW z \in Folded(x, Retain(t, reason))
    PROVE  Opened(x, z, 0)
<1>1. Leads(x, Decision(t, "evidence_complete", "retain_lease", reason, "local", 0), z)
  BY FoldedOne DEF Retain
<1>2. QED
  BY <1>1, DecisionLeads

\* A decision that assigns a new lease opens for an attempt that reserves what it reserves.
LEMMA AssignOpens ==
    ASSUME NEW x, Formed(x), x.reserved \in Nat, NEW t \in Nat, NEW boundary, NEW reason,
           NEW provider, NEW r \in Nat, r > 0 => boundary = "evidence_complete",
           NEW z \in Folded(x, Assign(t, boundary, reason, provider, r))
    PROVE  Opened(x, z, r)
<1>. DEFINE d == Decision(t, boundary, "assign_new_lease", reason, provider, r)
            e == [type |-> "route.assigned", at |-> t, provider |-> provider]
<1>1. PICK y : Leads(x, d, y) /\ Leads(y, e, z)
  BY FoldedTwo DEF Assign
<1>2. Opened(x, y, r)
  BY <1>1, DecisionLeads
<1>3. Formed(y) /\ y.reserved \in Nat
  BY <1>2 DEF Opened
<1>4. Opened(y, z, 0)
  BY <1>1, <1>3, RouteLeads
<1>5. QED
  BY <1>2, <1>4, OpenedOn

\* An admission whose answer keeps the local lease opens for a free attempt.
LEMMA DenyOpens ==
    ASSUME NEW x, Formed(x), x.reserved \in Nat, NEW t \in Nat, NEW verdict, NEW reason,
           NEW z \in Folded(x, << Admission(t, verdict) >> \o Retain(t, reason))
    PROVE  Opened(x, z, 0)
<1>. DEFINE d == Decision(t, "evidence_complete", "retain_lease", reason, "local", 0)
<1>1. << Admission(t, verdict) >> \o <<d>> = << Admission(t, verdict), d >>
  BY Joined
<1>2. PICK y : Leads(x, Admission(t, verdict), y) /\ Leads(y, d, z)
  BY <1>1, FoldedTwo DEF Retain
<1>3. Opened(x, y, 0)
  BY <1>2, AdmissionLeads
<1>4. Formed(y) /\ y.reserved \in Nat
  BY <1>3 DEF Opened
<1>5. Opened(y, z, 0)
  BY <1>2, <1>4, DecisionLeads
<1>6. QED
  BY <1>3, <1>5, OpenedOn

\* An admission and the assignment it allows open for what is reserved.
LEMMA AdmitOpens ==
    ASSUME NEW x, Formed(x), x.reserved \in Nat, NEW t \in Nat, NEW verdict, NEW reason,
           NEW provider, NEW r \in Nat,
           NEW z \in Folded(x, << Admission(t, verdict) >>
                                  \o Assign(t, "evidence_complete", reason, provider, r))
    PROVE  Opened(x, z, r)
<1>. DEFINE d == Decision(t, "evidence_complete", "assign_new_lease", reason, provider, r)
            e == [type |-> "route.assigned", at |-> t, provider |-> provider]
<1>1. << Admission(t, verdict) >> \o <<d, e>> = << Admission(t, verdict), d, e >>
  BY JoinedThree
<1>2. PICK w, y : Leads(x, Admission(t, verdict), w) /\ Leads(w, d, y) /\ Leads(y, e, z)
  BY <1>1, FoldedThree DEF Assign
<1>3. Opened(x, w, 0)
  BY <1>2, AdmissionLeads
<1>4. Formed(w) /\ w.reserved \in Nat
  BY <1>3 DEF Opened
<1>5. Opened(w, y, r)
  BY <1>2, <1>4, DecisionLeads
<1>6. Formed(y) /\ y.reserved \in Nat
  BY <1>4, <1>5 DEF Opened
<1>7. Opened(y, z, 0)
  BY <1>2, <1>6, RouteLeads
<1>8. Opened(x, y, r)
  BY <1>3, <1>5, OpenedOn
<1>9. QED
  BY <1>7, <1>8, OpenedOn

\* The event of an attempt.
IsAttempt(e, t, r) == e.type = "inference.attempt.started" /\ e.at = t /\ e.reserve = r

\* A message, its context and its attempt, which spends what the decision reserved.
LEMMA RoundLeads ==
    ASSUME NEW x, Formed(x), NEW t \in Nat, NEW r \in Nat, NEW e, IsAttempt(e, t, r),
           NEW y, NEW z, NEW v,
           Leads(x, Ev("assistant.message.started", t), y),
           Leads(y, Ev("context.compiled", t), z),
           Leads(z, e, v)
    PROVE  /\ x.status = "running" /\ ~x.attempt.open
           /\ Formed(v) /\ v.at = t /\ v.last = "inference.attempt.started"
           /\ v.status = "running"
           /\ v.attempt.open /\ v.attempt.reserve = r /\ v.decision.reserve = r
           /\ v.attempt.outcome = "none"
           /\ Streaming(v) /\ ~PendingCall(v)
           /\ v.contexts = x.contexts + 1 /\ v.attempts = x.attempts + 1
           /\ v.decided = x.decided /\ Unpaid(x, v)
<1>. DEFINE c == Ev("assistant.message.started", t)
            d == Ev("context.compiled", t)
<1>1. c.type = "assistant.message.started" /\ d.type = "context.compiled"
  BY DEF Ev
<1>. HIDE DEF c, d
<1>2. x.status = "running" /\ ~x.attempt.open
  BY <1>1, InnerAccepted DEF Inner, c
<1>3. /\ Becomes(x, c, y, {"assistants", "message"})
      /\ y.message = [NoMessage EXCEPT !.status = "streaming"]
  BY <1>1, MessageEvent DEF Formed, c
<1>4. /\ y.status = x.status /\ y.contexts = x.contexts /\ y.attempts = x.attempts
      /\ y.decided = x.decided /\ y.decision = x.decision /\ Unpaid(x, y) /\ DOMAIN y = Fields
  BY <1>3 DEF Becomes, Fields, Unpaid
<1>5. Becomes(y, d, z, {"contexts"}) /\ z.contexts = y.contexts + 1
  BY <1>1, <1>4, ContextEvent DEF d
<1>6. /\ z.status = y.status /\ z.attempts = y.attempts /\ z.message = y.message
      /\ z.decided = y.decided /\ z.decision = y.decision /\ Unpaid(y, z) /\ DOMAIN z = Fields
  BY <1>5 DEF Becomes, Fields, Unpaid
<1>7. /\ Becomes(z, e, v, {"attempts", "attempt", "paid"})
      /\ v.attempts = z.attempts + 1
      /\ v.attempt = AttemptOf(e)
  <2>1. DOMAIN z = Fields /\ e.type = "inference.attempt.started" /\ Leads(z, e, v)
    BY <1>6 DEF IsAttempt
  <2>2. QED
    BY <2>1, AttemptEvent
<1>8. /\ v.status = z.status /\ v.contexts = z.contexts /\ v.message = z.message
      /\ v.decided = z.decided /\ v.decision = z.decision /\ Unpaid(z, v) /\ DOMAIN v = Fields
      /\ v.at = t /\ v.last = "inference.attempt.started"
  BY <1>7 DEF Becomes, Fields, Unpaid, IsAttempt
<1>9. /\ v.attempt.open = TRUE /\ v.attempt.reserve = r /\ DOMAIN v.attempt = DOMAIN NoAttempt
      /\ v.attempt.outcome = "none"
  BY <1>7 DEF NoAttempt, AttemptOf, IsAttempt
<1>10. z.decision.reserve = r
  BY DEF Leads, Accepts, Attemptable, IsAttempt
<1>11. /\ v.message.status = "streaming" /\ v.message.call = "none"
       /\ DOMAIN v.message = DOMAIN NoMessage
  BY <1>3, <1>6, <1>8 DEF NoMessage
<1>12. Formed(v)
  BY <1>2, <1>4, <1>6, <1>8, <1>9, <1>11 DEF Formed
<1>13. QED
  BY <1>2, <1>4, <1>5, <1>6, <1>7, <1>8, <1>9, <1>10, <1>11, <1>12 DEF Unpaid, Streaming,
     PendingCall

\* A round of a session at rest, opened with a reservation or with none.
LEMMA RoundBatch ==
    ASSUME NEW x, Resting(x), NEW opening, IsBatch(opening), NEW r \in Projections \cup {0},
           NEW t \in Nat, NEW phase, \A z \in Folded(x, opening) : Opened(x, z, r),
           NEW y \in Folded(x, opening \o Round(t, phase, r))
    PROVE  /\ Resting(y) /\ y.at = t /\ y.status = "running"
           /\ y.attempt.open /\ y.attempt.reserve = r
           /\ y.settled = x.settled /\ y.reserved = x.reserved + r
           /\ r > 0 => x.reserved = 0
<1>. DEFINE e == [type |-> "inference.attempt.started", at |-> t, phase |-> phase,
                  tooling |-> IF phase = "synthesis" THEN "none" ELSE "required",
                  structured |-> phase = "synthesis", reserve |-> r]
<1>1. IsAttempt(e, t, r)
  BY DEF IsAttempt
<1>2. Round(t, phase, r) = << Ev("assistant.message.started", t), Ev("context.compiled", t), e >>
  BY DEF Round
<1>. HIDE DEF e
<1>3. PICK z \in Folded(x, opening) :
        \E v, w : /\ Leads(z, Ev("assistant.message.started", t), v)
                  /\ Leads(v, Ev("context.compiled", t), w)
                  /\ Leads(w, e, y)
  BY <1>2, FoldedOnThree
<1>4. Opened(x, z, r) /\ Formed(z)
  BY <1>3 DEF Opened
<1>5. r \in Nat /\ x.reserved \in Nat /\ (x.reserved = 0 \/ x.reserved > 0)
  <2>1. x.reserved \in Projections \cup {0} /\ Projections \cup {0} \subseteq Nat
    BY ReviewAssumption DEF Resting, Accounted
  <2>2. \A n \in Nat : n = 0 \/ n > 0
    OBVIOUS
  <2>3. QED
    BY <2>1, <2>2
<1>6. /\ z.status = "running" /\ ~z.attempt.open
      /\ Formed(y) /\ y.at = t /\ y.last = "inference.attempt.started"
      /\ y.status = "running"
      /\ y.attempt.open /\ y.attempt.reserve = r /\ y.decision.reserve = r
      /\ y.attempt.outcome = "none"
      /\ Streaming(y) /\ ~PendingCall(y)
      /\ y.contexts = z.contexts + 1 /\ y.attempts = z.attempts + 1
      /\ y.decided = z.decided /\ Unpaid(z, y)
  BY <1>1, <1>3, <1>4, <1>5, RoundLeads
<1>7. /\ x.status = "running" /\ ~x.attempt.open
      /\ y.settled = x.settled /\ y.reserved = x.reserved + r
      /\ x.decided \subseteq y.decided
      /\ r > 0 => "evidence_complete" \in y.decided /\ "evidence_complete" \notin x.decided
      /\ y.contexts = x.contexts + 1 /\ y.attempts = x.attempts + 1
  BY <1>4, <1>6 DEF Opened, Unpaid
<1>8. r > 0 => x.reserved = 0
  BY <1>5, <1>7 DEF Resting, Accounted
<1>9. Halted(y)
  BY <1>6, <1>7 DEF Resting, Halted
<1>10. Accounted(y)
  <2>1. CASE r = 0
    <3>1. y.reserved = x.reserved /\ ~(y.attempt.reserve > 0)
      BY <1>5, <1>6, <1>7, <2>1
    <3>2. QED
      BY <1>7, <3>1 DEF Resting, Accounted
  <2>2. CASE r > 0
    <3>1. y.reserved = r /\ y.settled = Unsettled
      BY <1>5, <1>7, <1>8, <2>2 DEF Resting, Accounted
    <3>2. QED
      BY <1>5, <1>6, <1>7, <2>2, <3>1 DEF Resting, Accounted, Unsettled
  <2>3. QED
    BY <1>5, <2>1, <2>2
<1>11. OverrunFailed(y)
  <2>1. ~(x.settled.cost > x.reserved)
    BY <1>7 DEF Resting, OverrunFailed
  <2>2. x.settled.cost \in Nat
    <3>1. Costs \cup Projections \cup {0} \subseteq Nat
      BY ReviewAssumption
    <3>2. QED
      BY <3>1 DEF Resting, Accounted, Answers, Unsettled
  <2>3. QED
    BY <1>5, <1>7, <2>1, <2>2 DEF OverrunFailed
<1>12. QED
  BY <1>6, <1>7, <1>8, <1>9, <1>10, <1>11 DEF Resting

-----------------------------------------------------------------------------
(* The end of an attempt *)

\* An attempt is under way, its message finished or not.
Attempting(x) ==
    /\ Formed(x) /\ Accounted(x)
    /\ x.attempt.open /\ ~PendingCall(x) /\ x.contexts = x.attempts

\* How event f ends the attempt of x, once it is answered in y.
Answered(x, f, y) ==
    /\ y.reserved = x.reserved
    /\ y.settled = IF x.attempt.reserve > 0
                   THEN [disposition |-> f.disposition, cost |-> f.cost] ELSE x.settled

\* The attempt is over, and the session may be ended.
Over(y) ==
    /\ Formed(y) /\ Accounted(y)
    /\ ~y.attempt.open /\ ~Streaming(y) /\ ~PendingCall(y) /\ y.contexts = y.attempts
    /\ y.status = "running" /\ y.last = "inference.attempt.finished"

\* An event that ends an attempt.
IsFinish(f) ==
    /\ f.type = "inference.attempt.finished" /\ f.at \in Nat
    /\ f.disposition \in {"sent", "not_sent"}
    /\ f.cost \in Costs \cup Projections \cup {0}

\* Who may end it: a paid attempt has its price, another none.
Priced(x, f) ==
    /\ x.attempt.reserve = 0 => f.cost = 0 /\ f.provenance = "local_zero_cost"
    /\ x.attempt.reserve > 0 => f.provenance # "local_zero_cost"

\* The attempt is ended.
LEMMA FinishLeads ==
    ASSUME NEW x, Attempting(x), NEW f, IsFinish(f), NEW y, Leads(x, f, y)
    PROVE  Over(y) /\ Answered(x, f, y) /\ Priced(x, f) /\ y.at = f.at
           /\ y.attempt.outcome = f.outcome
<1>1. /\ x.status = "running" /\ CostAccountable(x, f)
      /\ f.outcome = "succeeded" => ~Streaming(x)
  BY DEF Leads, Accepts, Common, RunningWhenNeeded, StartableBefore, Finishable, IsFinish
<1>2. /\ Becomes(x, f, y, {"attempt", "message", "settled", "investigated"})
      /\ y.attempt = FinishedOf(x.attempt, f)
      /\ y.message = IF f.outcome = "succeeded" THEN x.message
                     ELSE [x.message EXCEPT !.status = "failed"]
      /\ y.settled = IF x.attempt.reserve > 0
                     THEN [disposition |-> f.disposition, cost |-> f.cost] ELSE x.settled
  BY FinishEvent DEF Attempting, Formed, IsFinish
<1>3. /\ y.status = x.status /\ y.contexts = x.contexts /\ y.attempts = x.attempts
      /\ y.decided = x.decided /\ y.reserved = x.reserved /\ DOMAIN y = Fields
      /\ y.at = f.at /\ y.last = "inference.attempt.finished"
  BY <1>2 DEF Becomes, Fields, IsFinish
<1>4. /\ y.attempt.open = FALSE /\ y.attempt.reserve = x.attempt.reserve
      /\ y.attempt.outcome = f.outcome /\ DOMAIN y.attempt = DOMAIN NoAttempt
  BY <1>2 DEF Attempting, Formed, FinishedOf, NoAttempt
<1>5. DOMAIN y.message = DOMAIN NoMessage /\ ~Streaming(y) /\ ~PendingCall(y)
  BY <1>1, <1>2 DEF Attempting, Formed, NoMessage, Streaming, PendingCall
<1>6. Formed(y)
  BY <1>3, <1>4, <1>5 DEF Attempting, Formed, IsFinish
<1>7. Priced(x, f) /\ (f.disposition = "not_sent" => f.cost = 0)
  BY <1>1 DEF CostAccountable, Priced
<1>8. Accounted(y)
  <2>1. CASE x.attempt.reserve > 0
    <3>1. x.reserved > 0 /\ y.reserved > 0
      BY <1>3, <2>1 DEF Attempting, Accounted
    <3>2. /\ y.settled \in Answers /\ y.settled # Unsettled
          /\ y.settled.disposition = "not_sent" => y.settled.cost = 0
      <4>1. /\ y.settled = [disposition |-> f.disposition, cost |-> f.cost]
            /\ y.settled.disposition = f.disposition /\ y.settled.cost = f.cost
        BY <1>2, <2>1
      <4>2. y.settled \in Answers
        BY <4>1 DEF Answers, IsFinish
      <4>3. y.settled # Unsettled
        BY <4>1 DEF Unsettled, IsFinish
      <4>4. QED
        BY <1>7, <4>1, <4>2, <4>3
    <3>3. y.reserved # 0
      BY <3>1, <1>3, ReviewAssumption DEF Attempting, Accounted
    <3>4. QED
      BY <1>3, <1>4, <3>1, <3>2, <3>3 DEF Attempting, Accounted
  <2>2. CASE ~(x.attempt.reserve > 0)
    BY <1>2, <1>3, <1>4, <2>2 DEF Attempting, Accounted
  <2>3. QED
    BY <2>1, <2>2
<1>9. QED
  BY <1>1, <1>2, <1>3, <1>4, <1>5, <1>6, <1>7, <1>8 DEF Over, Answered, Attempting

\* Its message is ended before.
LEMMA SpokenLeads ==
    ASSUME NEW x, Resting(x), NEW c, c.type = "assistant.message.completed", c.at \in Nat,
           NEW z, Leads(x, c, z)
    PROVE  /\ Attempting(z) /\ Unpaid(x, z) /\ z.attempt = x.attempt
           /\ x.attempt.open /\ x.status = "running"
<1>1. x.attempt.open /\ x.status = "running"
  BY DEF Leads, Accepts, Common, RunningWhenNeeded, StartableBefore, Completable
<1>2. Becomes(x, c, z, {"message"}) /\ z.message = SpokenOf(x.message, c)
  BY SpokenEvent DEF Resting, Formed
<1>3. Beside(x, z) /\ z.status = x.status /\ z.at = c.at
  BY <1>2 DEF Becomes, Fields, Beside, Unpaid
<1>4. DOMAIN z.message = DOMAIN NoMessage /\ z.message.call = x.message.call
  BY <1>2 DEF Resting, Formed, SpokenOf, NoMessage
<1>5. Formed(z) /\ Accounted(z)
  BY <1>2, <1>3, <1>4 DEF Resting, Formed, Accounted, Becomes, Beside, Unpaid
<1>6. ~PendingCall(z) /\ z.attempt.open /\ z.contexts = z.attempts
  BY <1>1, <1>3, <1>4 DEF Resting, Halted, Beside, PendingCall
<1>7. QED
  BY <1>1, <1>3, <1>5, <1>6 DEF Attempting, Beside

\* The two together.
LEMMA FinishPair ==
    ASSUME NEW x, Resting(x), NEW c, c.type = "assistant.message.completed", c.at \in Nat,
           NEW f, IsFinish(f), NEW z, Leads(x, c, z), NEW y, Leads(z, f, y)
    PROVE  /\ Over(y) /\ Answered(x, f, y) /\ Priced(x, f) /\ y.at = f.at
           /\ y.attempt.outcome = f.outcome
           /\ x.attempt.open /\ x.status = "running"
<1>1. /\ Attempting(z) /\ Unpaid(x, z) /\ z.attempt = x.attempt
      /\ x.attempt.open /\ x.status = "running"
  BY SpokenLeads
<1>2. /\ Over(y) /\ Answered(z, f, y) /\ Priced(z, f) /\ y.at = f.at
      /\ y.attempt.outcome = f.outcome
  BY <1>1, FinishLeads
<1>3. QED
  BY <1>1, <1>2 DEF Answered, Priced, Unpaid

\* What is owed of an attempt that did not cost more than was reserved.
LEMMA WithinReserve ==
    ASSUME NEW x, Resting(x), x.attempt.open, NEW f, Priced(x, f), NEW y, Answered(x, f, y),
           ~(f.cost > x.decision.reserve)
    PROVE  ~(y.settled.cost > y.reserved)
<1>1. CASE x.attempt.reserve > 0
  <2>1. x.attempt.reserve = x.reserved /\ x.decision.reserve = x.reserved
    BY <1>1 DEF Resting, Halted, Accounted
  <2>2. y.settled.cost = f.cost /\ y.reserved = x.reserved
    BY <1>1 DEF Answered
  <2>3. QED
    BY <2>1, <2>2
<1>2. CASE ~(x.attempt.reserve > 0)
  BY <1>2 DEF Resting, Halted, OverrunFailed, Answered
<1>3. QED
  BY <1>1, <1>2

\* A batch that ends an attempt and lets the review go on.
LEMMA FinishBatch ==
    ASSUME NEW x, Resting(x), NEW c, c.type = "assistant.message.completed", c.at \in Nat,
           NEW f, IsFinish(f), f.outcome \notin {"cancelled", "interrupted"},
           x.attempt.open => ~(f.cost > x.decision.reserve), NEW y \in Folded(x, <<c, f>>)
    PROVE  /\ Resting(y) /\ Answered(x, f, y) /\ Priced(x, f) /\ y.at = f.at
           /\ x.attempt.open /\ y.status = "running"
<1>1. PICK z : Leads(x, c, z) /\ Leads(z, f, y)
  BY FoldedTwo
<1>2. /\ Over(y) /\ Answered(x, f, y) /\ Priced(x, f) /\ y.at = f.at
      /\ y.attempt.outcome = f.outcome
      /\ x.attempt.open /\ x.status = "running"
  BY <1>1, FinishPair
<1>3. ~(y.settled.cost > y.reserved)
  BY <1>2, WithinReserve
<1>4. Halted(y)
  BY <1>2 DEF Over, Halted
<1>5. QED
  BY <1>2, <1>3, <1>4 DEF Resting, Over, OverrunFailed

\* A batch that ends an attempt and the review.
LEMMA FinishEndBatch ==
    ASSUME NEW x, Resting(x), NEW c, c.type = "assistant.message.completed", c.at \in Nat,
           NEW f, IsFinish(f), NEW e, e.type \in Ends, e.at \in Nat,
           x.attempt.open /\ f.cost > x.decision.reserve => e.type = "session.failed",
           NEW y \in Folded(x, <<c, f, e>>)
    PROVE  /\ Resting(y) /\ Answered(x, f, y) /\ Priced(x, f) /\ y.at = e.at
           /\ x.attempt.open /\ y.status = StatusOf(e.type)
<1>1. PICK w, z : Leads(x, c, w) /\ Leads(w, f, z) /\ Leads(z, e, y)
  BY FoldedThree
<1>2. /\ Over(z) /\ Answered(x, f, z) /\ Priced(x, f) /\ x.attempt.open
  BY <1>1, FinishPair
<1>3. z.settled.cost > z.reserved => e.type = "session.failed"
  BY <1>2, WithinReserve
<1>4. Resting(y) /\ Unpaid(z, y) /\ y.at = e.at /\ y.status = StatusOf(e.type)
  BY <1>1, <1>2, <1>3, EndLeads DEF Over
<1>5. QED
  BY <1>2, <1>4 DEF Answered, Unpaid

-----------------------------------------------------------------------------
(* Recovery *)

\* A session found running is ended: its open attempt is charged in full.
Charged(x, f) ==
    /\ IsFinish(f) /\ f.at = now /\ f.attempt = x.attempts
    /\ f.outcome = "interrupted" /\ f.disposition = "sent" /\ f.cost = x.attempt.reserve
    /\ f.provenance = IF x.attempt.reserve > 0 THEN "reserved_unknown" ELSE "local_zero_cost"

\* The batch of a session whose attempt is open.
LEMMA RecoveryOfOpen ==
    ASSUME NEW s, Resting(log[s]), log[s].attempt.open, now \in Nat
    PROVE  \E f : /\ Charged(log[s], f)
                  /\ Recovery(s) = << f, Ev("session.interrupted", now) >>
<1>. DEFINE x == log[s]
            f == [type |-> "inference.attempt.finished", at |-> now, attempt |-> x.attempts,
                  outcome |-> "interrupted", disposition |-> "sent",
                  cost |-> x.attempt.reserve,
                  provenance |-> IF x.attempt.reserve > 0 THEN "reserved_unknown"
                                                          ELSE "local_zero_cost"]
<1>1. ~PendingCall(x) /\ x.attempt.outcome = "none"
  BY DEF Resting, Halted
<1>2. Recovery(s) = (<<f>> \o <<>>) \o << Ev("session.interrupted", now) >>
  BY <1>1 DEF Recovery
<1>3. x.attempt.reserve \in Costs \cup Projections \cup {0}
  <2>1. x.attempt.reserve \in Nat /\ (x.attempt.reserve > 0 => x.attempt.reserve = x.reserved)
        /\ x.reserved \in Projections \cup {0}
    BY DEF Resting, Formed, Accounted
  <2>2. QED
    BY <2>1
<1>4. Charged(x, f)
  BY <1>3 DEF Charged, IsFinish
<1>. HIDE DEF f
<1>5. <<f>> \o <<>> = <<f>>
  OBVIOUS
<1>6. Recovery(s) = << f, Ev("session.interrupted", now) >>
  BY <1>2, <1>5, Joined
<1>7. QED
  BY <1>4, <1>6

\* The batch of a session whose call is pending, and of one that waits for nothing.
LEMMA RecoveryOfOther ==
    ASSUME NEW s, Resting(log[s]), ~log[s].attempt.open
    PROVE  \E e : /\ e.type = IF log[s].attempt.outcome = "cancelled"
                              THEN "session.cancelled" ELSE "session.interrupted"
                  /\ e.at = now
                  /\ IF PendingCall(log[s])
                     THEN \E c : /\ c.type = "tool.call.completed" /\ c.at = now
                                 /\ Recovery(s) = << c, e >>
                     ELSE Recovery(s) = << e >>
<1>. DEFINE x == log[s]
            c == [type |-> "tool.call.completed", at |-> now, ok |-> FALSE]
            e == Ev(IF x.attempt.outcome = "cancelled" THEN "session.cancelled"
                                                       ELSE "session.interrupted", now)
<1>1. /\ e.type = IF x.attempt.outcome = "cancelled" THEN "session.cancelled"
                                                     ELSE "session.interrupted"
      /\ e.at = now /\ c.type = "tool.call.completed" /\ c.at = now
  BY DEF Ev
<1>2. Recovery(s) = (<<>> \o IF PendingCall(x) THEN <<c>> ELSE <<>>) \o <<e>>
  BY DEF Recovery
<1>. HIDE DEF c, e
<1>3. CASE PendingCall(x)
  <2>1. <<>> \o <<c>> = <<c>>
    OBVIOUS
  <2>2. Recovery(s) = << c, e >>
    BY <1>2, <1>3, <2>1, Joined
  <2>3. QED
    BY <1>1, <1>3, <2>2
<1>4. CASE ~PendingCall(x)
  <2>1. (<<>> \o <<>>) \o <<e>> = <<e>>
    OBVIOUS
  <2>2. Recovery(s) = <<e>>
    BY <1>2, <1>4, <2>1
  <2>3. QED
    BY <1>1, <1>4, <2>2
<1>5. QED
  BY <1>3, <1>4

\* What recovery makes of a session: it ends it, and answers the paid attempt it ends.
Recovers(x, y) ==
    /\ Resting(y) /\ y.at = now /\ y.status \in {"cancelled", "interrupted"}
    /\ IF x.attempt.open /\ x.attempt.reserve > 0
       THEN /\ y.reserved = x.reserved
            /\ y.settled = [disposition |-> "sent", cost |-> x.attempt.reserve]
       ELSE Unpaid(x, y)

\* The batch of an open attempt ends the session as recovery should.
LEMMA RecoveredOpen ==
    ASSUME NEW x, Resting(x), x.attempt.open, now \in Nat, NEW f, Charged(x, f),
           NEW y \in Folded(x, << f, Ev("session.interrupted", now) >>)
    PROVE  Recovers(x, y)
<1>. DEFINE e == Ev("session.interrupted", now)
<1>1. e.type = "session.interrupted" /\ e.at = now
  BY DEF Ev
<1>2. PICK z : Leads(x, f, z) /\ Leads(z, e, y)
  BY FoldedTwo
<1>. HIDE DEF e
<1>3. Attempting(x)
  BY DEF Resting, Attempting, Halted
<1>4. Over(z) /\ Answered(x, f, z) /\ Priced(x, f)
  BY <1>2, <1>3, FinishLeads DEF Charged
<1>5. ~(f.cost > x.decision.reserve)
  BY DEF Charged, Resting, Formed, Halted
<1>6. ~(z.settled.cost > z.reserved)
  BY <1>4, <1>5, WithinReserve
<1>7. Resting(y) /\ Unpaid(z, y) /\ y.at = now /\ y.status = StatusOf(e.type)
  BY <1>1, <1>2, <1>4, <1>6, EndLeads DEF Over, Ends
<1>8. y.status = "interrupted"
  BY <1>1, <1>7 DEF StatusOf
<1>9. QED
  BY <1>4, <1>7, <1>8 DEF Recovers, Answered, Unpaid, Charged

\* So does the batch of any other session.
LEMMA RecoveredOther ==
    ASSUME NEW s, Resting(log[s]), ~log[s].attempt.open, now \in Nat,
           NEW y \in Folded(log[s], Recovery(s))
    PROVE  Recovers(log[s], y)
<1>. DEFINE x == log[s]
<1>1. PICK e : /\ e.type \in {"session.cancelled", "session.interrupted"}
               /\ e.at = now
               /\ IF PendingCall(x)
                  THEN \E c : /\ c.type = "tool.call.completed" /\ c.at = now
                              /\ Recovery(s) = << c, e >>
                  ELSE Recovery(s) = << e >>
  BY RecoveryOfOther
<1>2. e.type \in Ends /\ StatusOf(e.type) \in {"cancelled", "interrupted"}
  BY <1>1 DEF Ends, StatusOf
<1>3. PICK z : Resting(z) /\ Unpaid(x, z) /\ Leads(z, e, y)
  <2>1. CASE PendingCall(x)
    <3>1. PICK c : /\ c.type = "tool.call.completed" /\ c.at = now
                   /\ Recovery(s) = << c, e >>
      BY <1>1, <2>1
    <3>2. PICK z : Leads(x, c, z) /\ Leads(z, e, y)
      BY <3>1, FoldedTwo
    <3>3. Resting(z) /\ Unpaid(x, z)
      BY <3>1, <3>2, ReturnBatch
    <3>4. QED
      BY <3>2, <3>3
  <2>2. CASE ~PendingCall(x)
    <3>1. Leads(x, e, y)
      BY <1>1, <2>2, FoldedOne
    <3>2. QED
      BY <3>1 DEF Unpaid
  <2>3. QED
    BY <2>1, <2>2
<1>4. Resting(y) /\ Unpaid(z, y) /\ y.at = now /\ y.status = StatusOf(e.type)
  BY <1>1, <1>2, <1>3, EndBatch
<1>5. QED
  BY <1>2, <1>3, <1>4 DEF Recovers, Unpaid

\* The batch of recovery ends the session, whatever it finds.
LEMMA RecoveryLeads ==
    ASSUME NEW s, Resting(log[s]), now \in Nat, NEW y \in Folded(log[s], Recovery(s))
    PROVE  Recovers(log[s], y)
<1>1. CASE log[s].attempt.open
  BY <1>1, RecoveryOfOpen, RecoveredOpen
<1>2. CASE ~log[s].attempt.open
  BY <1>2, RecoveredOther
<1>3. QED
  BY <1>1, <1>2

-----------------------------------------------------------------------------
(* Recovery is accepted *)

\* A session that may be ended is, by the interruption or by the cancellation.
LEMMA EndAccepted ==
    ASSUME NEW x, Formed(x), x.status = "running", Endable(x), NEW e, e.at >= x.at,
           e.type = IF x.attempt.outcome = "cancelled" THEN "session.cancelled"
                                                       ELSE "session.interrupted",
           x.last \in {"session.started", "inference.attempt.finished", "tool.call.completed"}
    PROVE  Accepts(x, e)
<1>1. Common(x, e)
  <2>1. Active(x) /\ CheckObeyed(x, e) /\ RunningWhenNeeded(x, e)
    BY DEF Active, Terminal, CheckObeyed, RunningWhenNeeded
  <2>2. Follows(x, e)
    BY DEF Follows, Endable
  <2>3. QED
    BY <2>1, <2>2 DEF Common
<1>2. QED
  BY <1>1 DEF Accepts

\* An open attempt may be interrupted.
LEMMA ChargeAccepted ==
    ASSUME NEW x, Resting(x), x.attempt.open, now \in Nat, x.at <= now, NEW f, Charged(x, f)
    PROVE  Accepts(x, f)
<1>1. /\ x.status = "running" /\ x.last = "inference.attempt.started"
      /\ x.attempt.reserve = x.decision.reserve /\ x.attempt.reserve \in Nat /\ x.at \in Nat
  BY DEF Resting, Formed, Halted
<1>2. f.type = "inference.attempt.finished"
  BY DEF Charged, IsFinish
<1>3. Common(x, f)
  <2>1. Active(x) /\ CheckObeyed(x, f) /\ RunningWhenNeeded(x, f)
    BY <1>1 DEF Active, Terminal, CheckObeyed, RunningWhenNeeded
  <2>2. Follows(x, f)
    BY <1>1, <1>2 DEF Follows
  <2>3. f.at >= x.at
    BY <1>1 DEF Charged
  <2>4. QED
    BY <2>1, <2>2, <2>3 DEF Common
<1>4. Finishable(x, f)
  <2>1. CostAccountable(x, f)
    BY <1>1 DEF Charged, CostAccountable
  <2>2. QED
    BY <2>1 DEF Charged, Finishable
<1>5. QED
  BY <1>2, <1>3, <1>4 DEF Accepts

\* A pending call may fail.
LEMMA ReturnAccepted ==
    ASSUME NEW x, Resting(x), PendingCall(x), x.status = "running", now \in Nat, x.at <= now,
           NEW c, c.type = "tool.call.completed", c.at = now
    PROVE  Accepts(x, c)
<1>1. x.last = "tool.call.requested" /\ ~x.attempt.open /\ x.at \in Nat
      /\ x.message.status = "completed"
  BY DEF Resting, Formed, Halted
<1>2. Common(x, c)
  <2>1. Active(x) /\ CheckObeyed(x, c) /\ RunningWhenNeeded(x, c)
    BY <1>1 DEF Active, Terminal, CheckObeyed, RunningWhenNeeded
  <2>2. Follows(x, c)
    BY <1>1 DEF Follows
  <2>3. QED
    BY <1>1, <2>1, <2>2 DEF Common
<1>3. QED
  BY <1>1, <1>2 DEF Accepts, Returnable

\* The batch recovery would write of a running session is accepted whole.
LEMMA RecoveryIsAccepted ==
    ASSUME NEW s, Resting(log[s]), now \in Nat, log[s].at <= now, log[s].status = "running"
    PROVE  Folded(log[s], Recovery(s)) # {}
<1>. DEFINE x == log[s]
<1>1. CASE x.attempt.open
  <2>. DEFINE e == Ev("session.interrupted", now)
  <2>1. PICK f : Charged(x, f) /\ Recovery(s) = << f, e >>
    BY <1>1, RecoveryOfOpen
  <2>2. e.type = "session.interrupted" /\ e.at = now
    BY DEF Ev
  <2>. HIDE DEF e
  <2>. DEFINE z == Reduce(x, f)
  <2>3. Leads(x, f, z)
    BY <1>1, <2>1, ChargeAccepted DEF Leads
  <2>. HIDE DEF z
  <2>4. Over(z) /\ z.at = now /\ z.attempt.outcome = "interrupted"
    BY <1>1, <2>1, <2>3, FinishLeads DEF Resting, Attempting, Halted, Charged
  <2>5. Accepts(z, e)
    BY <2>2, <2>4, EndAccepted DEF Over, Endable
  <2>6. Leads(z, e, Reduce(z, e))
    BY <2>5 DEF Leads
  <2>7. QED
    BY <2>1, <2>3, <2>6, FoldedTwo
<1>2. CASE ~x.attempt.open
  <2>1. PICK e : /\ e.type = IF x.attempt.outcome = "cancelled"
                             THEN "session.cancelled" ELSE "session.interrupted"
                 /\ e.at = now
                 /\ IF PendingCall(x)
                    THEN \E c : /\ c.type = "tool.call.completed" /\ c.at = now
                                /\ Recovery(s) = << c, e >>
                    ELSE Recovery(s) = << e >>
    BY <1>2, RecoveryOfOther
  <2>2. CASE PendingCall(x)
    <3>1. PICK c : /\ c.type = "tool.call.completed" /\ c.at = now
                   /\ Recovery(s) = << c, e >>
      BY <2>1, <2>2
    <3>. DEFINE z == Reduce(x, c)
    <3>2. Leads(x, c, z)
      BY <2>2, <3>1, ReturnAccepted DEF Leads
    <3>. HIDE DEF z
    <3>3. Resting(z) /\ z.at = now /\ z.status = "running"
      BY <3>1, <3>2, ReturnBatch
    <3>4. z.last = "tool.call.completed" /\ z.attempt = x.attempt
      <4>1. Becomes(x, c, z, {"message", "inspected"})
        BY <3>1, <3>2, ReturnEvent DEF Resting, Formed
      <4>2. QED
        BY <3>1, <4>1 DEF Becomes, Fields
    <3>5. Endable(z)
      BY <1>2, <3>3, <3>4 DEF Resting, Halted, Endable
    <3>6. Accepts(z, e)
      BY <2>1, <3>3, <3>4, <3>5, EndAccepted DEF Resting
    <3>7. Leads(z, e, Reduce(z, e))
      BY <3>6 DEF Leads
    <3>8. QED
      BY <3>1, <3>2, <3>7, FoldedTwo
  <2>3. CASE ~PendingCall(x)
    <3>1. Recovery(s) = << e >>
      BY <2>1, <2>3
    <3>2. Endable(x) /\ x.at \in Nat
          /\ x.last \in {"session.started", "inference.attempt.finished",
                         "tool.call.completed"}
      BY <1>2, <2>3 DEF Resting, Formed, Halted, Endable
    <3>3. Accepts(x, e)
      BY <2>1, <3>2, EndAccepted DEF Resting
    <3>4. Leads(x, e, Reduce(x, e))
      BY <3>3 DEF Leads
    <3>5. QED
      BY <3>1, <3>4, FoldedOne
  <2>4. QED
    BY <2>2, <2>3
<1>3. QED
  BY <1>1, <1>2

\* It is refused at its first event when the clock is behind the session's last one.
LEMMA LateIsRefused ==
    ASSUME NEW s, Resting(log[s]), now \in Nat, ~(log[s].at <= now)
    PROVE  Folded(log[s], Recovery(s)) = {}
<1>. DEFINE x == log[s]
<1>. SUFFICES ASSUME NEW y \in Folded(x, Recovery(s)) PROVE FALSE
  OBVIOUS
<1>1. ASSUME NEW e, NEW z, Leads(x, e, z), e.at = now PROVE FALSE
  BY <1>1 DEF Leads, Accepts, Common
<1>2. CASE x.attempt.open
  <2>. DEFINE e == Ev("session.interrupted", now)
  <2>1. PICK f : Charged(x, f) /\ Recovery(s) = << f, e >>
    BY <1>2, RecoveryOfOpen
  <2>. HIDE DEF e
  <2>2. PICK z : Leads(x, f, z) /\ Leads(z, e, y)
    BY <2>1, FoldedTwo
  <2>3. QED
    BY <1>1, <2>1, <2>2 DEF Charged
<1>3. CASE ~x.attempt.open
  <2>1. PICK e : /\ e.at = now
                 /\ IF PendingCall(x)
                    THEN \E c : /\ c.type = "tool.call.completed" /\ c.at = now
                                /\ Recovery(s) = << c, e >>
                    ELSE Recovery(s) = << e >>
    BY <1>3, RecoveryOfOther
  <2>2. CASE PendingCall(x)
    <3>1. PICK c : c.at = now /\ Recovery(s) = << c, e >>
      BY <2>1, <2>2
    <3>2. PICK z : Leads(x, c, z) /\ Leads(z, e, y)
      BY <3>1, FoldedTwo
    <3>3. QED
      BY <1>1, <3>1, <3>2
  <2>3. CASE ~PendingCall(x)
    <3>1. Leads(x, e, y)
      BY <2>1, <2>3, FoldedOne
    <3>2. QED
      BY <1>1, <2>1, <3>1
  <2>4. QED
    BY <2>2, <2>3
<1>4. QED
  BY <1>2, <1>3

-----------------------------------------------------------------------------
(* Rows *)

RowMade(state, reserved, amount) ==
    [state |-> state, reserved |-> reserved, amount |-> amount]

\* The row of a session: none, one that is open, one that is answered.
LEMMA RowIsNone ==
    ASSUME NEW x, x.reserved = 0
    PROVE  RowOf(x) = RowMade("none", 0, 0)
BY DEF RowOf, Budget!NoRow, RowMade

\* The row of a reservation nothing has answered yet.
LEMMA RowIsOpen ==
    ASSUME NEW x, x.reserved # 0, x.settled = Unsettled
    PROVE  RowOf(x) = RowMade("reserved", x.reserved, 0)
BY DEF RowOf, RowMade

\* The row of one that was answered.
LEMMA RowIsAnswered ==
    ASSUME NEW x, x.reserved # 0, x.settled # Unsettled, NEW cost, NEW disposition,
           x.settled.cost = cost, x.settled.disposition = disposition
    PROVE  RowOf(x) = RowMade(Budget!TerminalState(RowMade("reserved", x.reserved, 0),
                                                   cost, disposition),
                              x.reserved, cost)
BY DEF RowOf, RowMade, Budget!TerminalState

\* An answer changes the state and the amount.
RowAfter(row, state, amount) == [row EXCEPT !.state = state, !.amount = amount]

\* Only the state and the amount of a row change when it is answered.
LEMMA RowChanged ==
    ASSUME NEW a, NEW b, NEW c, NEW state, NEW cost, NEW row, row = RowMade(a, b, c)
    PROVE  RowAfter(row, state, cost) = RowMade(state, b, cost)
<1>. DEFINE q == [row EXCEPT !.state = state, !.amount = cost]
<1>1. row \in [state: {a}, reserved: {b}, amount: {c}]
  BY DEF RowMade
<1>2. q \in [state: {state}, reserved: {b}, amount: {cost}]
  <2>1. [row EXCEPT !.state = state] \in [state: {state}, reserved: {b}, amount: {c}]
    BY <1>1
  <2>2. QED
    BY <2>1
<1>. HIDE DEF q
<1>3. q = RowMade(state, b, cost)
  BY <1>2 DEF RowMade
<1>4. QED
  BY <1>3 DEF q, RowAfter

\* The rows r are those of now, or those the ledger makes of them in one step.
Allowed(r) ==
    \/ r = rows
    \/ \E t \in Sessions, amount \in Projections \cup Costs \cup {0} :
           \/ /\ rows[t].state = "none" /\ amount > 0
              /\ Budget!Denial(rows, t, amount) = "none"
              /\ r = Budget!Reserved(rows, t, amount)
           \/ \E disposition \in {"not_sent", "sent", "unknown"} :
                  /\ rows[t].state = "reserved"
                  /\ disposition = "not_sent" => amount = 0
                  /\ r = Budget!Resolved(rows, t, amount, disposition)

\* The rows once session s is y.
RowsWith(s, y) == [rows EXCEPT ![s] = RowOf(y)]

\* They are those of now when the budget sees nothing of the change.
LEMMA RowsUnpaid ==
    ASSUME IInv, NEW s \in Sessions, NEW y, Unpaid(log[s], y)
    PROVE  rows = RowsWith(s, y) /\ Allowed(rows)
<1>1. RowOf(y) = RowOf(log[s])
  BY UnpaidRow
<1>2. QED
  BY <1>1 DEF IInv, RowsWith, Allowed

\* They reserve what a first paid attempt reserves.
LEMMA RowsReserved ==
    ASSUME IInv, NEW s \in Sessions, NEW y, NEW r \in Projections,
           Budget!Denial(rows, s, r) = "none", log[s].reserved = 0,
           y.reserved = r, y.settled = log[s].settled
    PROVE  /\ Budget!Reserved(rows, s, r) = RowsWith(s, y)
           /\ Allowed(Budget!Reserved(rows, s, r))
<1>1. r > 0 /\ r # 0
  BY ReviewAssumption
<1>2. log[s].settled = Unsettled
  BY DEF IInv, Resting, Accounted
<1>3. RowOf(y) = RowMade("reserved", r, 0)
  BY <1>1, <1>2, RowIsOpen
<1>4. rows[s].state = "none"
  BY RowIsNone DEF IInv, RowMade
<1>5. Budget!Reserved(rows, s, r) = RowsWith(s, y)
  BY <1>3 DEF Budget!Reserved, RowsWith, RowMade
<1>6. QED
  BY <1>1, <1>4, <1>5 DEF Allowed

\* An answer closes a row and keeps what was reserved.
LEMMA ResolvedIs ==
    ASSUME IInv, NEW s \in Sessions, NEW n, rows[s] = RowMade("reserved", n, 0),
           NEW cost, NEW disposition
    PROVE  Budget!Resolved(rows, s, cost, disposition)
             = [rows EXCEPT ![s] =
                  RowMade(Budget!TerminalState(rows[s], cost, disposition), n, cost)]
<1>. DEFINE state == Budget!TerminalState(rows[s], cost, disposition)
<1>1. Budget!Resolved(rows, s, cost, disposition)
        = [rows EXCEPT ![s].state = state, ![s].amount = cost]
  BY DEF Budget!Resolved
<1>. HIDE DEF state
<1>2. rows = [t \in Sessions |-> rows[t]]
  BY DEF IInv
<1>3. RowAfter(rows[s], state, cost) = RowMade(state, n, cost)
  BY RowChanged
<1>4. [rows EXCEPT ![s].state = state, ![s].amount = cost]
        = [rows EXCEPT ![s] = RowAfter(rows[s], state, cost)]
  BY <1>2 DEF RowAfter
<1>5. QED
  BY <1>1, <1>3, <1>4 DEF state

\* They answer the reservation of the paid attempt that is answered.
LEMMA RowsResolved ==
    ASSUME IInv, NEW s \in Sessions, log[s].attempt.open, log[s].attempt.reserve > 0,
           NEW y, Resting(y), y.reserved = log[s].reserved,
           NEW cost \in Costs \cup Projections \cup {0},
           NEW disposition \in {"sent", "not_sent"},
           y.settled = [disposition |-> disposition, cost |-> cost]
    PROVE  /\ Budget!Resolved(rows, s, cost, disposition) = RowsWith(s, y)
           /\ Allowed(Budget!Resolved(rows, s, cost, disposition))
<1>1. log[s].reserved > 0 /\ log[s].settled = Unsettled /\ log[s].reserved \in Nat
  <2>1. Accounted(log[s])
    BY DEF IInv, Resting
  <2>2. log[s].reserved > 0 /\ log[s].settled = Unsettled
    BY <2>1 DEF Accounted
  <2>3. log[s].reserved \in Projections \cup {0} /\ Projections \cup {0} \subseteq Nat
    BY <2>1, ReviewAssumption DEF Accounted
  <2>4. QED
    BY <2>2, <2>3
<1>2. rows[s] = RowMade("reserved", y.reserved, 0)
  BY <1>1, RowIsOpen DEF IInv
<1>3. /\ y.settled.cost = cost /\ y.settled.disposition = disposition
      /\ y.settled # Unsettled /\ y.reserved # 0
  BY <1>1 DEF Unsettled
<1>4. RowOf(y) = RowMade(Budget!TerminalState(rows[s], cost, disposition), y.reserved, cost)
  BY <1>2, <1>3, RowIsAnswered
<1>5. Budget!Resolved(rows, s, cost, disposition) = RowsWith(s, y)
  BY <1>2, <1>4, ResolvedIs DEF RowsWith
<1>6. disposition = "not_sent" => cost = 0
  BY <1>3 DEF Resting, Accounted
<1>7. rows[s].state = "reserved"
  BY <1>2 DEF RowMade
<1>8. QED
  BY <1>5, <1>6, <1>7 DEF Allowed

-----------------------------------------------------------------------------
(* One session's step *)

\* What Heeded asks of a review that is now y at place j.
Proper(s, y, j) ==
    /\ DOMAIN j = DOMAIN Idle
    /\ aborted[s] => j.at # "accepted" /\ y.status # "completed"
    /\ y.status = "completed" => j.at \in {"idle", "done"}

\* Session s may become y, at place j of its program, with the rows r.
Safe(s, y, j, r) ==
    /\ Resting(y)
    /\ r = RowsWith(s, y) /\ Allowed(r)
    /\ Proper(s, y, j)

\* So it becomes; the others stay.
Moves(s, y, j) ==
    /\ DOMAIN log' = Sessions /\ DOMAIN job' = Sessions
    /\ log'[s] = y /\ job'[s] = j
    /\ \A t \in Sessions \ {s} : log'[t] = log[t] /\ job'[t] = job[t]

Calm == aborted' = aborted /\ now' = now

\* The invariant is kept, and the ledger's rows take one of its steps or none.
Kept == IInv' /\ Allowed(rows')

\* Such a step keeps both.
LEMMA Moved ==
    ASSUME IInv, NEW s \in Sessions, NEW y, NEW j, Moves(s, y, j), Calm, Safe(s, y, j, rows')
    PROVE  Kept
<1>1. Shaped'
  BY DEF IInv, Shaped, Moves, Calm, Safe, Proper
<1>2. rows' = [t \in Sessions |-> RowOf(log'[t])]
  <2>1. rows' = [rows EXCEPT ![s] = RowOf(y)]
    BY DEF Safe, RowsWith
  <2>2. rows = [t \in Sessions |-> RowOf(log[t])]
    BY DEF IInv
  <2>3. log'[s] = y /\ \A t \in Sessions \ {s} : log'[t] = log[t]
    BY DEF Moves
  <2>4. QED
    BY <2>1, <2>2, <2>3
<1>3. \A t \in Sessions : Resting(log'[t])
  BY DEF IInv, Moves, Safe
<1>4. \A t \in Sessions : Heeded(t)'
  BY DEF IInv, Moves, Calm, Safe, Proper, Heeded
<1>5. QED
  BY <1>1, <1>2, <1>3, <1>4 DEF IInv, Safe, Kept

\* A batch carries a number for its time.
LEMMA TimeIsNat == ASSUME IInv, NEW s \in Sessions PROVE Time(s) \in Nat
<1>1. now \in Nat /\ log[s].at \in Nat
  BY DEF IInv, Shaped, Resting, Formed
<1>2. QED
  BY <1>1 DEF Time

\* The next place of a coordinator.
LEMMA PlaceIs ==
    ASSUME IInv, NEW s \in Sessions, NEW place
    PROVE  DOMAIN To(s, place) = DOMAIN Idle /\ To(s, place).at = place
<1>1. DOMAIN job[s] = DOMAIN Idle /\ "at" \in DOMAIN Idle
  BY DEF IInv, Shaped, Idle
<1>2. QED
  BY <1>1 DEF To

\* A program that has returned.
LEMMA DoneIs == DOMAIN Done = DOMAIN Idle /\ Done.at = "done"
BY DEF Done, Idle

\* A session may stay what it is, wherever its program goes.
LEMMA StaySafe ==
    ASSUME IInv, NEW s \in Sessions, NEW j, Proper(s, log[s], j)
    PROVE  Safe(s, log[s], j, rows)
<1>1. Unpaid(log[s], log[s])
  BY DEF Unpaid
<1>2. QED
  BY <1>1, RowsUnpaid DEF Safe, IInv

\* A session the budget sees nothing of.
LEMMA UnpaidSafe ==
    ASSUME IInv, NEW s \in Sessions, NEW y, Resting(y), Unpaid(log[s], y),
           NEW j, Proper(s, y, j)
    PROVE  Safe(s, y, j, rows)
BY RowsUnpaid DEF Safe

\* The step only goes to another place.
LEMMA Placed ==
    ASSUME IInv, NEW s \in Sessions, NEW j, Proper(s, log[s], j), Calm,
           job' = [job EXCEPT ![s] = j], UNCHANGED <<log, rows>>
    PROVE  Kept
<1>1. Safe(s, log[s], j, rows')
  BY StaySafe
<1>2. Moves(s, log[s], j)
  BY DEF IInv, Shaped, Moves
<1>3. QED
  BY <1>1, <1>2, Moved

\* The coordinator's catch.
LEMMA GivenUp ==
    ASSUME IInv, NEW s \in Sessions, GiveUp(s), Calm
    PROVE  Kept
<1>. DEFINE e == Ev(IF aborted[s] THEN "session.cancelled" ELSE "session.failed", Time(s))
            y == IF Accepts(log[s], e) THEN Reduce(log[s], e) ELSE log[s]
<1>1. log' = [log EXCEPT ![s] = y] /\ job' = [job EXCEPT ![s] = Done] /\ rows' = rows
  BY DEF GiveUp
<1>2. e.type \in {"session.cancelled", "session.failed"} /\ e.at = Time(s) /\ Time(s) \in Nat
  BY TimeIsNat DEF Ev
<1>. HIDE DEF e
<1>3. CASE Accepts(log[s], e)
  <2>1. Leads(log[s], e, y)
    BY <1>3 DEF Leads
  <2>. HIDE DEF y
  <2>2. Resting(y) /\ Unpaid(log[s], y) /\ y.at = Time(s) /\ y.status = StatusOf(e.type)
    BY <1>2, <2>1, EndBatch DEF IInv, Ends
  <2>3. Proper(s, y, Done)
    BY <1>2, <2>2, DoneIs DEF Proper, StatusOf
  <2>4. Safe(s, y, Done, rows')
    BY <1>1, <2>2, <2>3, UnpaidSafe
  <2>5. Moves(s, y, Done)
    BY <1>1 DEF IInv, Shaped, Moves
  <2>6. QED
    BY <2>4, <2>5, Moved
<1>4. CASE ~Accepts(log[s], e)
  <2>1. y = log[s]
    BY <1>4
  <2>. HIDE DEF y
  <2>2. Proper(s, y, Done)
    BY <2>1, DoneIs DEF Proper, IInv, Heeded
  <2>3. Safe(s, y, Done, rows')
    BY <1>1, <2>1, <2>2, StaySafe
  <2>4. Moves(s, y, Done)
    BY <1>1 DEF IInv, Shaped, Moves
  <2>5. QED
    BY <2>3, <2>4, Moved
<1>5. QED
  BY <1>3, <1>4

\* A transaction, when all it may lead to is safe.
LEMMA Committed ==
    ASSUME IInv, NEW s \in Sessions, NEW batch, NEW j, NEW r, Commit(s, batch, j, r), Calm,
           \A y \in Folded(log[s], batch) : Safe(s, y, j, r)
    PROVE  Kept
<1>1. CASE Folded(log[s], batch) = {}
  BY <1>1, GivenUp DEF Commit
<1>2. CASE Folded(log[s], batch) # {}
  <2>1. PICK y \in Folded(log[s], batch) : log' = [log EXCEPT ![s] = y]
    BY <1>2 DEF Commit
  <2>2. job' = [job EXCEPT ![s] = j] /\ rows' = r
    BY <1>2 DEF Commit
  <2>3. Moves(s, y, j)
    BY <2>1, <2>2 DEF IInv, Shaped, Moves
  <2>4. QED
    BY <2>2, <2>3, Moved
<1>3. QED
  BY <1>1, <1>2

\* The end of a review that is not completed.
LEMMA Ended ==
    ASSUME IInv, NEW s \in Sessions, NEW type \in {"session.cancelled", "session.failed"},
           End(s, type), Calm
    PROVE  Kept
<1>. DEFINE e == Ev(type, Time(s))
<1>1. e.type = type /\ e.at = Time(s) /\ Time(s) \in Nat
  BY TimeIsNat DEF Ev
<1>2. Commit(s, <<e>>, Done, rows)
  BY DEF End
<1>. HIDE DEF e
<1>3. ASSUME NEW y \in Folded(log[s], <<e>>) PROVE Safe(s, y, Done, rows)
  <2>1. Leads(log[s], e, y)
    BY <1>3, FoldedOne
  <2>2. Resting(y) /\ Unpaid(log[s], y) /\ y.at = Time(s) /\ y.status = StatusOf(type)
    BY <1>1, <2>1, EndBatch DEF IInv, Ends
  <2>3. Proper(s, y, Done)
    BY <2>2, DoneIs DEF Proper, StatusOf
  <2>4. QED
    BY <2>2, <2>3, UnpaidSafe
<1>4. QED
  BY <1>2, <1>3, Committed

\* What an opening needs of the session it opens.
LEMMA Openable ==
    ASSUME IInv, NEW s \in Sessions
    PROVE  Formed(log[s]) /\ log[s].reserved \in Nat
<1>1. Formed(log[s]) /\ Accounted(log[s])
  BY DEF IInv, Resting
<1>2. log[s].reserved \in Projections \cup {0} /\ Projections \cup {0} \subseteq Nat
  BY <1>1, ReviewAssumption DEF Accounted
<1>3. QED
  BY <1>1, <1>2

\* A free round.
LEMMA Rounded ==
    ASSUME IInv, NEW s \in Sessions, NEW opening, IsBatch(opening), NEW phase, NEW j,
           \A z \in Folded(log[s], opening) : Opened(log[s], z, 0),
           Commit(s, opening \o Round(Time(s), phase, 0), j, rows), Calm,
           DOMAIN j = DOMAIN Idle, j.at # "accepted"
    PROVE  Kept
<1>. DEFINE batch == opening \o Round(Time(s), phase, 0)
<1>1. Commit(s, batch, j, rows) /\ Time(s) \in Nat
  BY TimeIsNat
<1>2. ASSUME NEW y \in Folded(log[s], batch) PROVE Safe(s, y, j, rows)
  <2>1. /\ Resting(y) /\ y.at = Time(s) /\ y.status = "running"
        /\ y.settled = log[s].settled /\ y.reserved = log[s].reserved + 0
    BY <1>1, RoundBatch DEF IInv
  <2>2. log[s].reserved \in Nat
    BY Openable
  <2>3. Unpaid(log[s], y)
    BY <2>1, <2>2 DEF Unpaid
  <2>4. Proper(s, y, j)
    BY <2>1 DEF Proper
  <2>5. QED
    BY <2>1, <2>3, <2>4, UnpaidSafe
<1>. HIDE DEF batch
<1>3. QED
  BY <1>1, <1>2, Committed

-----------------------------------------------------------------------------
(* The actions: evidence *)

\* A session that starts, or whose start is refused, is at rest after it.
LEMMA BeginKeeps == ASSUME IInv, NEW s \in Sessions, Begin(s), Calm PROVE Kept
<1>. DEFINE batch == << Ev("session.started", Time(s)) >>
<1>1. Commit(s, batch, To(s, "health"), rows) /\ Time(s) \in Nat
  BY TimeIsNat DEF Begin
<1>2. DOMAIN To(s, "health") = DOMAIN Idle /\ To(s, "health").at = "health"
  BY PlaceIs
<1>3. ASSUME NEW y \in Folded(log[s], batch) PROVE Safe(s, y, To(s, "health"), rows)
  <2>1. Resting(y) /\ Unpaid(log[s], y) /\ y.at = Time(s) /\ y.status # "completed"
    BY <1>1, StartBatch DEF IInv
  <2>2. Proper(s, y, To(s, "health"))
    BY <1>2, <2>1 DEF Proper
  <2>3. QED
    BY <2>1, <2>2, UnpaidSafe
<1>. HIDE DEF batch
<1>4. QED
  BY <1>1, <1>3, Committed

\* The health check ends the session or opens its first round.
LEMMA HealthKeeps == ASSUME IInv, NEW s \in Sessions, Health(s), Calm PROVE Kept
<1>1. CASE End(s, "session.cancelled") \/ End(s, "session.failed")
  BY <1>1, Ended
<1>2. CASE Investigate(s, [Idle EXCEPT !.at = "ask", !.stamp = Time(s)],
               Assign(Time(s), "session_start", "local_policy", "local", 0))
  <2>. DEFINE j == [Idle EXCEPT !.at = "ask", !.stamp = Time(s)]
              opening == Assign(Time(s), "session_start", "local_policy", "local", 0)
  <2>1. DOMAIN j = DOMAIN Idle /\ j.at = "ask"
    BY DEF Idle
  <2>2. Commit(s, opening \o Round(Time(s), "investigation", 0), j, rows)
    BY <1>2 DEF Investigate
  <2>. HIDE DEF j
  <2>3. IsBatch(opening)
    BY TwoIsBatch DEF Assign
  <2>4. \A z \in Folded(log[s], opening) : Opened(log[s], z, 0)
    BY AssignOpens, Openable, TimeIsNat
  <2>. HIDE DEF opening
  <2>5. QED
    BY <2>1, <2>2, <2>3, <2>4, Rounded
<1>3. QED
  BY <1>1, <1>2 DEF Health

\* The two events that end an attempt.
IsFinishing(s, c, f, outcome, disposition, cost, provenance) ==
    /\ c.type = "assistant.message.completed" /\ c.at = Time(s)
    /\ f.type = "inference.attempt.finished" /\ f.at = Time(s)
    /\ f.outcome = outcome /\ f.disposition = disposition
    /\ f.cost = cost /\ f.provenance = provenance

\* The two events that finish an attempt.
LEMMA FinishingIs ==
    ASSUME NEW s, NEW outcome, NEW stop, NEW disposition, NEW cost, NEW provenance
    PROVE  \E c, f : /\ Finishing(s, outcome, stop, disposition, cost, provenance) = << c, f >>
                     /\ IsFinishing(s, c, f, outcome, disposition, cost, provenance)
<1>. DEFINE parse == IF ~log[s].attempt.structured THEN "none"
                     ELSE IF outcome = "succeeded" THEN "accepted" ELSE "rejected"
            c == [type |-> "assistant.message.completed", at |-> Time(s),
                  attempt |-> log[s].attempts, stop |-> stop,
                  complete |-> outcome = "succeeded", parse |-> parse]
            f == [type |-> "inference.attempt.finished", at |-> Time(s),
                  attempt |-> log[s].attempts, outcome |-> outcome,
                  disposition |-> disposition, cost |-> cost, provenance |-> provenance]
<1>1. Finishing(s, outcome, stop, disposition, cost, provenance) = << c, f >>
  BY DEF Finishing
<1>2. IsFinishing(s, c, f, outcome, disposition, cost, provenance)
  BY DEF IsFinishing
<1>3. QED
  BY <1>1, <1>2

\* They end an open attempt.
LEMMA FinishingOfOpen ==
    ASSUME NEW x, Resting(x), NEW c, c.type = "assistant.message.completed", c.at \in Nat,
           NEW f, NEW y, y \in Folded(x, <<c, f>>) \/ \E e : y \in Folded(x, <<c, f, e>>)
    PROVE  x.attempt.open
<1>1. \E z : Leads(x, c, z)
  <2>1. CASE y \in Folded(x, <<c, f>>)
    BY <2>1, FoldedTwo
  <2>2. ASSUME NEW e, y \in Folded(x, <<c, f, e>>) PROVE \E z : Leads(x, c, z)
    BY <2>2, FoldedThree
  <2>3. QED
    BY <2>1, <2>2
<1>2. QED
  BY <1>1, SpokenLeads

\* The answer to a free attempt is nothing to the budget.
LEMMA FreeAnswer ==
    ASSUME NEW x, Resting(x), NEW f, Priced(x, f), f.provenance = "local_zero_cost", NEW y,
           Answered(x, f, y)
    PROVE  Unpaid(x, y)
<1>1. ~(x.attempt.reserve > 0)
  BY DEF Priced
<1>2. QED
  BY <1>1 DEF Answered, Unpaid

Failures == {"cancelled", "provider_error", "protocol_error", "timeout"}

\* The end of a local attempt.
LEMMA FinishedLocal ==
    ASSUME IInv, NEW s \in Sessions, NEW outcome \in Failures \cup {"succeeded"}, NEW stop, NEW j,
           FinishLocal(s, outcome, stop, j), Calm,
           outcome = "succeeded" => DOMAIN j = DOMAIN Idle /\ (aborted[s] => j.at # "accepted")
    PROVE  Kept
<1>. DEFINE x == log[s]
<1>1. Time(s) \in Nat /\ Resting(x)
  BY TimeIsNat DEF IInv
<1>2. CASE outcome = "succeeded"
  <2>1. PICK c, f : /\ Finishing(s, outcome, stop, "sent", 0, "local_zero_cost") = <<c, f>>
                    /\ IsFinishing(s, c, f, outcome, "sent", 0, "local_zero_cost")
    BY FinishingIs
  <2>2. Commit(s, <<c, f>>, j, rows)
    BY <1>2, <2>1 DEF FinishLocal
  <2>3. IsFinish(f) /\ f.at = Time(s) /\ f.cost = 0 /\ f.provenance = "local_zero_cost"
        /\ f.outcome = "succeeded" /\ c.type = "assistant.message.completed" /\ c.at = Time(s)
    BY <1>1, <1>2, <2>1 DEF IsFinishing, IsFinish
  <2>4. x.attempt.open => ~(f.cost > x.decision.reserve)
    BY <1>1, <2>3 DEF Resting, Formed, Halted
  <2>5. ASSUME NEW y \in Folded(x, <<c, f>>) PROVE Safe(s, y, j, rows)
    <3>1. Resting(y) /\ Answered(x, f, y) /\ Priced(x, f) /\ y.at = Time(s) /\ y.status = "running"
      BY <1>1, <2>3, <2>4, <2>5, FinishBatch
    <3>2. Unpaid(x, y)
      BY <1>1, <2>3, <3>1, FreeAnswer
    <3>3. Proper(s, y, j)
      BY <1>2, <3>1 DEF Proper
    <3>4. QED
      BY <3>1, <3>2, <3>3, UnpaidSafe
  <2>6. QED
    BY <2>2, <2>5, Committed
<1>3. CASE outcome # "succeeded"
  <2>. DEFINE e == Ev(IF outcome = "cancelled" THEN "session.cancelled"
                                               ELSE "session.failed", Time(s))
  <2>1. PICK c, f : /\ Finishing(s, outcome, "error", "sent", 0, "local_zero_cost") = <<c, f>>
                    /\ IsFinishing(s, c, f, outcome, "sent", 0, "local_zero_cost")
    BY FinishingIs
  <2>2. e.type \in {"session.cancelled", "session.failed"} /\ e.at = Time(s)
    BY <1>1 DEF Ev
  <2>3. Commit(s, Append(<<c, f>>, e), Done, rows)
    BY <1>3, <2>1 DEF FinishLocal
  <2>. HIDE DEF e
  <2>4. Commit(s, <<c, f, e>>, Done, rows)
    BY <2>3, JoinedThree
  <2>5. IsFinish(f) /\ f.at = Time(s) /\ f.cost = 0 /\ f.provenance = "local_zero_cost"
        /\ c.type = "assistant.message.completed" /\ c.at = Time(s)
    BY <1>1, <2>1 DEF IsFinishing, IsFinish
  <2>6. x.attempt.open => ~(f.cost > x.decision.reserve)
    BY <1>1, <2>5 DEF Resting, Formed, Halted
  <2>7. ASSUME NEW y \in Folded(x, <<c, f, e>>) PROVE Safe(s, y, Done, rows)
    <3>1. e.type \in Ends
      BY <2>2 DEF Ends
    <3>2. Resting(y) /\ Answered(x, f, y) /\ Priced(x, f) /\ y.at = Time(s)
          /\ y.status = StatusOf(e.type)
      BY <1>1, <2>2, <2>5, <2>6, <2>7, <3>1, FinishEndBatch
    <3>3. Unpaid(x, y)
      BY <1>1, <2>5, <3>2, FreeAnswer
    <3>4. Proper(s, y, Done)
      BY <2>2, <3>2, DoneIs DEF Proper, StatusOf
    <3>5. QED
      BY <3>2, <3>3, <3>4, UnpaidSafe
  <2>8. QED
    BY <2>4, <2>7, Committed
<1>4. QED
  BY <1>2, <1>3

\* The reply to a round of reading.
LEMMA AskKeeps == ASSUME IInv, NEW s \in Sessions, Ask(s), Calm PROVE Kept
<1>1. PICK outcome \in Replies(s) : FinishLocal(s, outcome, "tool_calls", To(s, "request"))
  BY DEF Ask
<1>2. outcome \in Failures \cup {"succeeded"}
  BY DEF Replies, Failures
<1>3. DOMAIN To(s, "request") = DOMAIN Idle /\ To(s, "request").at = "request"
  BY PlaceIs
<1>4. QED
  BY <1>1, <1>2, <1>3, FinishedLocal

\* A tool call is requested only while the review runs.
LEMMA RequestKeeps == ASSUME IInv, NEW s \in Sessions, Request(s), Calm PROVE Kept
<1>. DEFINE e == [type |-> "tool.call.requested", at |-> Time(s),
                  tool |-> IF log[s].inspected THEN "read_text_file" ELSE "inspect_git_changes"]
<1>1. Commit(s, <<e>>, To(s, "tool"), rows)
  BY DEF Request
<1>2. e.type = "tool.call.requested" /\ e.at = Time(s) /\ Time(s) \in Nat
  BY TimeIsNat
<1>. HIDE DEF e
<1>3. DOMAIN To(s, "tool") = DOMAIN Idle /\ To(s, "tool").at = "tool"
  BY PlaceIs
<1>4. ASSUME NEW y \in Folded(log[s], <<e>>) PROVE Safe(s, y, To(s, "tool"), rows)
  <2>1. Resting(y) /\ Unpaid(log[s], y) /\ y.at = Time(s) /\ y.status # "completed"
    BY <1>2, <1>4, CallBatch DEF IInv
  <2>2. Proper(s, y, To(s, "tool"))
    BY <1>3, <2>1 DEF Proper
  <2>3. QED
    BY <2>1, <2>2, UnpaidSafe
<1>5. QED
  BY <1>1, <1>4, Committed

\* A call returns, whatever of it the coordinator keeps.
LEMMA Returned ==
    ASSUME IInv, NEW s \in Sessions, NEW ok, NEW j, DOMAIN j = DOMAIN Idle, j.at # "accepted",
           Commit(s, << [type |-> "tool.call.completed", at |-> Time(s), ok |-> ok] >>, j, rows),
           Calm
    PROVE  Kept
<1>. DEFINE e == [type |-> "tool.call.completed", at |-> Time(s), ok |-> ok]
<1>1. Commit(s, <<e>>, j, rows) /\ e.type = "tool.call.completed" /\ e.at = Time(s) /\ Time(s) \in Nat
  BY TimeIsNat
<1>. HIDE DEF e
<1>2. ASSUME NEW y \in Folded(log[s], <<e>>) PROVE Safe(s, y, j, rows)
  <2>1. Leads(log[s], e, y)
    BY <1>2, FoldedOne
  <2>2. Resting(y) /\ Unpaid(log[s], y) /\ y.at = Time(s) /\ y.status = "running"
    BY <1>1, <2>1, ReturnBatch DEF IInv
  <2>3. Proper(s, y, j)
    BY <2>2 DEF Proper
  <2>4. QED
    BY <2>2, <2>3, UnpaidSafe
<1>3. QED
  BY <1>1, <1>2, Committed

\* The tool call is answered, whatever it found.
LEMMA ToolKeeps == ASSUME IInv, NEW s \in Sessions, Tool(s), Calm PROVE Kept
<1>1. PICK ok \in BOOLEAN :
        LET batch == << [type |-> "tool.call.completed", at |-> Time(s), ok |-> ok] >> IN
           CASE log[s].inspected -> Commit(s, batch, To(s, "next"), rows)
             [] ~log[s].inspected /\ ~ok -> Commit(s, batch, To(s, "uninspected"), rows)
             [] OTHER ->
                  \E paths \in 0 .. Paths, risk \in Risks(s) :
                      Commit(s, batch, [To(s, "next") EXCEPT !.left = Reads(paths),
                                                             !.risk = risk], rows)
  BY DEF Tool
<1>. DEFINE batch == << [type |-> "tool.call.completed", at |-> Time(s), ok |-> ok] >>
            Next3(paths, risk) == [To(s, "next") EXCEPT !.left = Reads(paths), !.risk = risk]
<1>2. \/ Commit(s, batch, To(s, "next"), rows)
      \/ Commit(s, batch, To(s, "uninspected"), rows)
      \/ \E paths \in 0 .. Paths, risk \in Risks(s) : Commit(s, batch, Next3(paths, risk), rows)
  BY <1>1
<1>3. \A place : DOMAIN To(s, place) = DOMAIN Idle /\ To(s, place).at = place
  BY PlaceIs
<1>4. \A paths, risk : DOMAIN Next3(paths, risk) = DOMAIN Idle /\ Next3(paths, risk).at = "next"
  BY <1>3
<1>. HIDE DEF Next3
<1>5. QED
  BY <1>2, <1>3, <1>4, Returned

\* The next round of reading.
LEMMA ReadNextKeeps == ASSUME IInv, NEW s \in Sessions, ReadNext(s), Calm PROVE Kept
<1>. DEFINE j == [To(s, "ask") EXCEPT !.left = @ - 1]
<1>1. DOMAIN To(s, "ask") = DOMAIN Idle /\ To(s, "ask").at = "ask"
  BY PlaceIs
<1>2. DOMAIN j = DOMAIN Idle /\ j.at = "ask"
  BY <1>1
<1>3. Commit(s, <<>> \o Round(Time(s), "investigation", 0), j, rows)
  BY DEF ReadNext, Investigate
<1>. HIDE DEF j
<1>4. IsBatch(<<>>)
  BY <<>> \in Seq({}) DEF IsBatch
<1>5. \A z \in Folded(log[s], <<>>) : Opened(log[s], z, 0)
  BY FoldedNone, Openable DEF Opened
<1>6. QED
  BY <1>2, <1>3, <1>4, <1>5, Rounded

\* A review that ends while it reads.
LEMMA EndKeeps ==
    ASSUME IInv, NEW s \in Sessions, Uninspected(s) \/ StopReading(s), Calm
    PROVE  Kept
<1>1. \E type \in {"session.cancelled", "session.failed"} : End(s, type)
  BY DEF Uninspected, StopReading
<1>2. QED
  BY <1>1, Ended

-----------------------------------------------------------------------------
(* The actions: the local synthesis *)

\* Nothing runs of a completed review.
LEMMA RunningAt ==
    ASSUME IInv, NEW s \in Sessions, job[s].at \notin {"idle", "done"}
    PROVE  log[s].status # "completed"
BY DEF IInv, Heeded

\* A coordinator goes on to wait elsewhere.
LEMMA Waits ==
    ASSUME IInv, NEW s \in Sessions, job[s].at \notin {"idle", "done"},
           NEW j, DOMAIN j = DOMAIN Idle, j.at # "accepted",
           job' = [job EXCEPT ![s] = j], UNCHANGED <<log, rows>>, Calm
    PROVE  Kept
<1>1. Proper(s, log[s], j)
  BY RunningAt DEF Proper
<1>2. QED
  BY <1>1, Placed

\* A synthesis that is not paid.
LEMMA Synthesised ==
    ASSUME IInv, NEW s \in Sessions, NEW opening, IsBatch(opening),
           \A z \in Folded(log[s], opening) : Opened(log[s], z, 0),
           Synthesise(s, opening), Calm
    PROVE  Kept
<1>1. DOMAIN To(s, "review") = DOMAIN Idle /\ To(s, "review").at = "review"
  BY PlaceIs
<1>2. Commit(s, opening \o Round(Time(s), "synthesis", 0), To(s, "review"), rows)
  BY DEF Synthesise
<1>3. QED
  BY <1>1, <1>2, Rounded

\* A synthesis that keeps the local lease.
LEMMA RetainedSynthesis ==
    ASSUME IInv, NEW s \in Sessions, NEW reason, Synthesise(s, Retain(Time(s), reason)), Calm
    PROVE  Kept
<1>. DEFINE opening == Retain(Time(s), reason)
<1>1. IsBatch(opening)
  BY OneIsBatch DEF Retain
<1>2. \A z \in Folded(log[s], opening) : Opened(log[s], z, 0)
  BY RetainOpens, Openable, TimeIsNat
<1>. HIDE DEF opening
<1>3. Synthesise(s, opening)
  BY DEF opening
<1>4. QED
  BY <1>1, <1>2, <1>3, Synthesised

\* One that keeps it because the cloud was denied.
LEMMA DeniedSynthesis ==
    ASSUME IInv, NEW s \in Sessions, NEW verdict, NEW reason,
           Synthesise(s, << Admission(Time(s), verdict) >> \o Retain(Time(s), reason)), Calm
    PROVE  Kept
<1>. DEFINE opening == << Admission(Time(s), verdict) >> \o Retain(Time(s), reason)
<1>1. IsBatch(opening)
  <2>. DEFINE d == Decision(Time(s), "evidence_complete", "retain_lease", reason, "local", 0)
  <2>1. << Admission(Time(s), verdict) >> \o <<d>> = << Admission(Time(s), verdict), d >>
    BY Joined
  <2>2. QED
    BY <2>1, TwoIsBatch DEF Retain
<1>2. \A z \in Folded(log[s], opening) : Opened(log[s], z, 0)
  BY DenyOpens, Openable, TimeIsNat
<1>. HIDE DEF opening
<1>3. Synthesise(s, opening)
  BY DEF opening
<1>4. QED
  BY <1>1, <1>2, <1>3, Synthesised

\* The local synthesis, routed or not.
LEMMA SynthesiseLocalKeeps ==
    ASSUME IInv, NEW s \in Sessions, SynthesiseLocal(s), Calm PROVE Kept
<1>. DEFINE j == [To(s, "revalidate") EXCEPT !.stamp = Time(s)]
<1>1. \/ job' = [job EXCEPT ![s] = j] /\ UNCHANGED <<log, rows>>
      \/ Synthesise(s, Retain(Time(s), LocalReason(s)))
  BY DEF SynthesiseLocal
<1>2. job[s].at = "next"
  BY DEF SynthesiseLocal, At
<1>3. DOMAIN j = DOMAIN Idle /\ j.at = "revalidate"
  <2>1. DOMAIN To(s, "revalidate") = DOMAIN Idle /\ To(s, "revalidate").at = "revalidate"
    BY PlaceIs
  <2>2. QED
    BY <2>1
<1>. HIDE DEF j
<1>4. QED
  BY <1>1, <1>2, <1>3, Waits, RetainedSynthesis

\* The workspace is read again before the synthesis.
LEMMA RevalidateKeeps == ASSUME IInv, NEW s \in Sessions, Revalidate(s), Calm PROVE Kept
<1>1. \/ End(s, "session.cancelled") \/ GiveUp(s)
      \/ Synthesise(s, Retain(Time(s), LocalReason(s)))
  BY DEF Revalidate
<1>2. QED
  BY <1>1, Ended, GivenUp, RetainedSynthesis

\* The reply of the local model.
LEMMA ReviewKeeps == ASSUME IInv, NEW s \in Sessions, Review(s), Calm PROVE Kept
<1>1. PICK outcome \in Replies(s) :
        IF outcome = "succeeded"
        THEN job' = [job EXCEPT ![s] = To(s, "verify")] /\ UNCHANGED <<log, rows>>
        ELSE FinishLocal(s, outcome, "error", Done)
  BY DEF Review
<1>2. outcome \in Failures \cup {"succeeded"}
  BY DEF Replies, Failures
<1>3. CASE outcome = "succeeded"
  <2>1. job[s].at = "review"
    BY DEF Review, At
  <2>2. DOMAIN To(s, "verify") = DOMAIN Idle /\ To(s, "verify").at = "verify"
    BY PlaceIs
  <2>3. QED
    BY <1>1, <1>3, <2>1, <2>2, Waits
<1>4. CASE outcome # "succeeded"
  BY <1>1, <1>2, <1>4, FinishedLocal
<1>5. QED
  BY <1>3, <1>4

\* The reply checked against the workspace.
LEMMA VerifyKeeps == ASSUME IInv, NEW s \in Sessions, Verify(s), Calm PROVE Kept
<1>1. PICK outcome \in Replies(s) : FinishLocal(s, outcome, "stop", To(s, "accepted"))
  BY DEF Verify
<1>2. outcome \in Failures \cup {"succeeded"} /\ (aborted[s] => outcome = "cancelled")
  BY DEF Replies, Failures
<1>3. DOMAIN To(s, "accepted") = DOMAIN Idle
  BY PlaceIs
<1>4. QED
  BY <1>1, <1>2, <1>3, FinishedLocal

\* A completion, whose obligations the reducer checks.
LEMMA CompleteKeeps == ASSUME IInv, NEW s \in Sessions, Complete(s), Calm PROVE Kept
<1>. DEFINE c == [type |-> "completion.obligations.checked", at |-> Time(s),
                  resolved |-> TRUE, outcome |-> "accepted",
                  remaining |-> Rounds - log[s].assistants]
            e == Ev("session.completed", Time(s))
<1>1. Commit(s, <<c, e>>, Done, rows) /\ job[s].at = "accepted"
  BY DEF Complete, At
<1>2. /\ c.type = "completion.obligations.checked" /\ c.at = Time(s) /\ Time(s) \in Nat
      /\ e.type \in Ends /\ e.at = Time(s)
  BY TimeIsNat DEF Ev, Ends
<1>. HIDE DEF c, e
<1>3. ~aborted[s]
  BY <1>1 DEF IInv, Heeded
<1>4. ASSUME NEW y \in Folded(log[s], <<c, e>>) PROVE Safe(s, y, Done, rows)
  <2>1. Resting(y) /\ Unpaid(log[s], y) /\ y.at = Time(s)
    BY <1>2, <1>4, CompleteBatch DEF IInv
  <2>2. Proper(s, y, Done)
    BY <1>3, DoneIs DEF Proper
  <2>3. QED
    BY <2>1, <2>2, UnpaidSafe
<1>5. QED
  BY <1>1, <1>4, Committed

-----------------------------------------------------------------------------
(* The actions: the cloud synthesis *)

\* An admitted cloud attempt: its events and its row of the budget in one transaction.
LEMMA AdmitCloudKeeps ==
    ASSUME IInv, NEW s \in Sessions, NEW r \in Projections, AdmitCloud(s, r), Calm PROVE Kept
<1>. DEFINE opening == << Admission(Time(s), "pass") >>
                           \o Assign(Time(s), "evidence_complete", "cloud_admitted", "cloud", r)
            ledger == Budget!Reserved(rows, s, r)
            j == To(s, "cloud")
<1>1. \/ GiveUp(s)
      \/ Synthesise(s, << Admission(Time(s), "pass") >> \o Retain(Time(s), "budget_denial"))
      \/ /\ Budget!Denial(rows, s, r) = "none"
         /\ Commit(s, opening \o Round(Time(s), "synthesis", r), j, ledger)
  BY DEF AdmitCloud
<1>2. CASE /\ Budget!Denial(rows, s, r) = "none"
           /\ Commit(s, opening \o Round(Time(s), "synthesis", r), j, ledger)
  <2>1. IsBatch(opening)
    <3>. DEFINE a == Admission(Time(s), "pass")
                d == Decision(Time(s), "evidence_complete", "assign_new_lease",
                              "cloud_admitted", "cloud", r)
                e == [type |-> "route.assigned", at |-> Time(s), provider |-> "cloud"]
    <3>1. <<a>> \o <<d, e>> = <<a, d, e>>
      BY JoinedThree
    <3>2. QED
      BY <3>1, ThreeIsBatch DEF Assign
  <2>2. r \in Nat /\ Time(s) \in Nat
    BY ReviewAssumption, TimeIsNat
  <2>3. \A z \in Folded(log[s], opening) : Opened(log[s], z, r)
    BY <2>2, AdmitOpens, Openable
  <2>4. DOMAIN j = DOMAIN Idle /\ j.at = "cloud"
    BY PlaceIs
  <2>. HIDE DEF opening, j, ledger
  <2>. DEFINE batch == opening \o Round(Time(s), "synthesis", r)
  <2>5. ASSUME NEW y \in Folded(log[s], batch) PROVE Safe(s, y, j, ledger)
    <3>1. /\ Resting(y) /\ y.at = Time(s) /\ y.status = "running"
          /\ y.settled = log[s].settled /\ y.reserved = log[s].reserved + r
          /\ r > 0 => log[s].reserved = 0
      BY <2>1, <2>2, <2>3, <2>5, RoundBatch DEF IInv
    <3>2. log[s].reserved = 0 /\ y.reserved = r
      BY <2>2, <3>1, ReviewAssumption
    <3>3. ledger = RowsWith(s, y) /\ Allowed(ledger)
      BY <1>2, <3>1, <3>2, RowsReserved DEF ledger
    <3>4. Proper(s, y, j)
      BY <2>4, <3>1 DEF Proper
    <3>5. QED
      BY <2>2, <3>1, <3>3, <3>4 DEF Safe
  <2>6. Commit(s, batch, j, ledger)
    BY <1>2
  <2>. HIDE DEF batch
  <2>7. QED
    BY <2>5, <2>6, Committed
<1>3. QED
  BY <1>1, <1>2, GivenUp, DeniedSynthesis

\* A proposal that is too late, denied or admitted.
LEMMA ProposeCloudKeeps == ASSUME IInv, NEW s \in Sessions, ProposeCloud(s), Calm PROVE Kept
<1>1. \/ \E verdict, reason :
             Synthesise(s, << Admission(Time(s), verdict) >> \o Retain(Time(s), reason))
      \/ \E r \in Projections : AdmitCloud(s, r)
  BY DEF ProposeCloud
<1>2. QED
  BY <1>1, DeniedSynthesis, AdmitCloudKeeps

\* What an answer of the cloud may be charged: its price, or all of what was reserved.
Chargeable(s, charge) ==
    /\ charge.cost \in Costs \cup {0} \/ charge.cost = log[s].decision.reserve
    /\ charge.provenance \in {"priced", "reserved_unknown"}

\* A cloud attempt that a batch ends is open, and its charge an amount.
LEMMA ChargeIs ==
    ASSUME NEW s, Resting(log[s]), log[s].attempt.open, NEW charge, Chargeable(s, charge)
    PROVE  charge.cost \in Costs \cup Projections \cup {0}
<1>1. /\ log[s].decision.reserve = log[s].attempt.reserve /\ log[s].attempt.reserve \in Nat
      /\ log[s].attempt.reserve > 0 => log[s].attempt.reserve = log[s].reserved
      /\ log[s].reserved \in Projections \cup {0}
  BY DEF Resting, Formed, Halted, Accounted
<1>2. log[s].decision.reserve \in Projections \cup {0}
  BY <1>1
<1>3. QED
  BY <1>2 DEF Chargeable

\* What answers a paid attempt answers its row.
LEMMA PaidAnswer ==
    ASSUME IInv, NEW s \in Sessions, log[s].attempt.open, NEW f, IsFinish(f), Priced(log[s], f),
           f.provenance # "local_zero_cost", NEW y, Resting(y), Answered(log[s], f, y)
    PROVE  /\ Budget!Resolved(rows, s, f.cost, f.disposition) = RowsWith(s, y)
           /\ Allowed(Budget!Resolved(rows, s, f.cost, f.disposition))
<1>1. log[s].attempt.reserve \in Nat /\ log[s].attempt.reserve # 0
  BY DEF IInv, Resting, Formed, Priced
<1>2. log[s].attempt.reserve > 0
  BY <1>1
<1>3. /\ y.reserved = log[s].reserved
      /\ y.settled = [disposition |-> f.disposition, cost |-> f.cost]
      /\ f.cost \in Costs \cup Projections \cup {0} /\ f.disposition \in {"sent", "not_sent"}
  BY <1>2 DEF Answered, IsFinish
<1>4. QED
  BY <1>2, <1>3, RowsResolved

\* The end of a cloud attempt.
LEMMA FinishedCloud ==
    ASSUME IInv, NEW s \in Sessions, NEW outcome \in Failures \cup {"succeeded"},
           NEW disposition \in {"sent", "not_sent"}, NEW charge, Chargeable(s, charge),
           outcome = "cancelled" =>
               charge.cost = 0 \/ charge.cost = log[s].decision.reserve,
           NEW fatal, NEW j, DOMAIN j = DOMAIN Idle, aborted[s] => j.at # "accepted",
           FinishCloud(s, outcome, disposition, charge, fatal, j), Calm
    PROVE  Kept
<1>. DEFINE x == log[s]
            stop == IF outcome = "succeeded" THEN "stop" ELSE "error"
            ledger == Budget!Resolved(rows, s, charge.cost, disposition)
            e == Ev(IF outcome = "cancelled" THEN "session.cancelled" ELSE "session.failed",
                    Time(s))
            over == charge.cost > x.decision.reserve
            last == outcome = "cancelled" \/ fatal \/ over
<1>1. PICK c, f :
        /\ Finishing(s, outcome, stop, disposition, charge.cost, charge.provenance) = <<c, f>>
        /\ IsFinishing(s, c, f, outcome, disposition, charge.cost, charge.provenance)
  BY FinishingIs
<1>2. Time(s) \in Nat /\ Resting(x)
  BY TimeIsNat DEF IInv
<1>3. /\ c.type = "assistant.message.completed" /\ c.at = Time(s)
      /\ f.at = Time(s) /\ f.outcome = outcome /\ f.cost = charge.cost
      /\ f.disposition = disposition /\ f.provenance # "local_zero_cost"
      /\ x.attempt.open => IsFinish(f)
  BY <1>1, <1>2, ChargeIs DEF IsFinishing, IsFinish, Chargeable
<1>4. e.type \in {"session.cancelled", "session.failed"} /\ e.at = Time(s)
      /\ (outcome # "cancelled" => e.type = "session.failed")
  BY <1>2 DEF Ev
<1>5. CASE ~last
  <2>1. Commit(s, <<c, f>> \o <<>>, j, ledger)
    BY <1>1, <1>5 DEF FinishCloud
  <2>2. <<c, f>> \o <<>> = <<c, f>>
    OBVIOUS
  <2>3. Commit(s, <<c, f>>, j, ledger)
    BY <2>1, <2>2
  <2>4. f.outcome \notin {"cancelled", "interrupted"} /\ ~(f.cost > x.decision.reserve)
    BY <1>3, <1>5 DEF Failures
  <2>. HIDE DEF ledger, last
  <2>5. ASSUME NEW y \in Folded(x, <<c, f>>) PROVE Safe(s, y, j, ledger)
    <3>1. x.attempt.open
      BY <1>2, <1>3, <2>5, FinishingOfOpen
    <3>2. Resting(y) /\ Answered(x, f, y) /\ Priced(x, f) /\ y.at = Time(s) /\ y.status = "running"
      BY <1>2, <1>3, <2>4, <2>5, <3>1, FinishBatch
    <3>3. ledger = RowsWith(s, y) /\ Allowed(ledger)
      BY <1>3, <3>1, <3>2, PaidAnswer DEF ledger
    <3>4. Proper(s, y, j)
      BY <3>2 DEF Proper
    <3>5. QED
      BY <1>2, <3>2, <3>3, <3>4 DEF Safe
  <2>6. QED
    BY <2>3, <2>5, Committed
<1>6. CASE last
  <2>1. Commit(s, <<c, f>> \o <<e>>, Done, ledger)
    <3>. DEFINE ends == IF outcome = "cancelled" THEN << Ev("session.cancelled", Time(s)) >>
                        ELSE IF fatal \/ over THEN << Ev("session.failed", Time(s)) >>
                        ELSE << >>
    <3>1. ends = <<e>>
      BY <1>6
    <3>2. ends # << >>
      BY <3>1
    <3>3. Commit(s, <<c, f>> \o ends, IF ends = << >> THEN j ELSE Done, ledger)
      BY <1>1 DEF FinishCloud
    <3>. HIDE DEF ends
    <3>4. QED
      BY <3>1, <3>2, <3>3
  <2>. HIDE DEF e, ledger
  <2>2. Commit(s, <<c, f, e>>, Done, ledger)
    BY <2>1, JoinedThree
  <2>3. ASSUME NEW y \in Folded(x, <<c, f, e>>) PROVE Safe(s, y, Done, ledger)
    <3>1. x.attempt.open
      BY <1>2, <1>3, <2>3, FinishingOfOpen
    <3>2. e.type \in Ends
      BY <1>4 DEF Ends
    <3>3. f.cost > x.decision.reserve => e.type = "session.failed"
      <4>1. x.decision.reserve \in Nat
        BY <1>2, <3>1 DEF Resting, Formed, Halted
      <4>2. QED
        BY <1>3, <1>4, <4>1
    <3>4. Resting(y) /\ Answered(x, f, y) /\ Priced(x, f) /\ y.at = Time(s)
          /\ y.status = StatusOf(e.type)
      BY <1>2, <1>3, <1>4, <2>3, <3>1, <3>2, <3>3, FinishEndBatch
    <3>5. ledger = RowsWith(s, y) /\ Allowed(ledger)
      BY <1>3, <3>1, <3>4, PaidAnswer DEF ledger
    <3>6. Proper(s, y, Done)
      BY <1>4, <3>4, DoneIs DEF Proper, StatusOf
    <3>7. QED
      BY <1>2, <3>4, <3>5, <3>6 DEF Safe
  <2>4. QED
    BY <2>2, <2>3, Committed
<1>7. QED
  BY <1>5, <1>6

\* The charges the coordinators name.
LEMMA ChargesAre ==
    ASSUME NEW s
    PROVE  /\ \A charge \in Charges(s) : Chargeable(s, charge)
           /\ Chargeable(s, InFull(s)) /\ InFull(s).cost = log[s].decision.reserve
           /\ Chargeable(s, Unsent) /\ Unsent.cost = 0
BY DEF Charges, Chargeable, InFull, Unsent

\* The reply of the cloud, with what it charged.
LEMMA CloudKeeps == ASSUME IInv, NEW s \in Sessions, Cloud(s), Calm PROVE Kept
<1>. DEFINE j == To(s, "fallback")
<1>1. DOMAIN j = DOMAIN Idle /\ j.at = "fallback"
  BY PlaceIs
<1>2. job[s].at = "cloud"
  BY DEF Cloud, At
<1>3. \/ \E outcome \in {"cancelled", "timeout"} :
             FinishCloud(s, outcome, "not_sent", Unsent, FALSE, j)
      \/ \E outcome \in Replies(s) \ {"succeeded"} :
             \E charge \in IF outcome = "protocol_error" THEN Charges(s) ELSE {InFull(s)} :
                 FinishCloud(s, outcome, "sent", charge, FALSE, j)
      \/ job' = [job EXCEPT ![s] = To(s, "cloudverify")] /\ UNCHANGED <<log, rows>>
  BY DEF Cloud
<1>. HIDE DEF j
<1>4. CASE \E outcome \in {"cancelled", "timeout"} :
             FinishCloud(s, outcome, "not_sent", Unsent, FALSE, j)
  BY <1>1, <1>4, ChargesAre, FinishedCloud DEF Failures
<1>5. ASSUME NEW outcome \in Replies(s) \ {"succeeded"},
             NEW charge \in IF outcome = "protocol_error" THEN Charges(s) ELSE {InFull(s)},
             FinishCloud(s, outcome, "sent", charge, FALSE, j)
      PROVE  Kept
  <2>1. outcome \in Failures
    BY DEF Replies, Failures
  <2>2. Chargeable(s, charge)
    BY ChargesAre
  <2>3. outcome = "cancelled" => charge.cost = log[s].decision.reserve
    BY ChargesAre
  <2>4. QED
    BY <1>1, <1>5, <2>1, <2>2, <2>3, FinishedCloud
<1>6. CASE job' = [job EXCEPT ![s] = To(s, "cloudverify")] /\ UNCHANGED <<log, rows>>
  <2>1. DOMAIN To(s, "cloudverify") = DOMAIN Idle /\ To(s, "cloudverify").at = "cloudverify"
    BY PlaceIs
  <2>2. QED
    BY <1>2, <1>6, <2>1, Waits
<1>7. QED
  BY <1>3, <1>4, <1>5, <1>6

\* It is accepted, rejected or overtaken by a stop.
LEMMA CloudVerifyKeeps == ASSUME IInv, NEW s \in Sessions, CloudVerify(s), Calm PROVE Kept
<1>1. \A place : DOMAIN To(s, place) = DOMAIN Idle /\ To(s, place).at = place
  BY PlaceIs
<1>2. CASE aborted[s]
  <2>1. FinishCloud(s, "cancelled", "sent", InFull(s), FALSE, Done)
    BY <1>2 DEF CloudVerify
  <2>2. QED
    BY <2>1, ChargesAre, DoneIs, FinishedCloud DEF Failures
<1>3. CASE ~aborted[s]
  <2>1. PICK charge \in Charges(s) :
          \/ FinishCloud(s, "succeeded", "sent", charge, FALSE, To(s, "accepted"))
          \/ \E stale \in BOOLEAN :
                 FinishCloud(s, "protocol_error", "sent", charge, stale, To(s, "fallback"))
    BY <1>3 DEF CloudVerify
  <2>2. Chargeable(s, charge)
    BY ChargesAre
  <2>3. CASE FinishCloud(s, "succeeded", "sent", charge, FALSE, To(s, "accepted"))
    BY <1>1, <1>3, <2>2, <2>3, FinishedCloud DEF Failures
  <2>4. ASSUME NEW stale \in BOOLEAN,
               FinishCloud(s, "protocol_error", "sent", charge, stale, To(s, "fallback"))
        PROVE  Kept
    BY <1>1, <2>2, <2>4, FinishedCloud DEF Failures
  <2>5. QED
    BY <2>1, <2>3, <2>4
<1>4. QED
  BY <1>2, <1>3

\* The local round after a failed cloud attempt.
LEMMA FallbackKeeps == ASSUME IInv, NEW s \in Sessions, Fallback(s), Calm PROVE Kept
<1>. DEFINE opening == Assign(Time(s), "provider_failure", "local_fallback", "local", 0)
<1>1. End(s, "session.cancelled") \/ GiveUp(s) \/ Synthesise(s, opening)
  BY DEF Fallback
<1>2. CASE Synthesise(s, opening)
  <2>1. IsBatch(opening)
    BY TwoIsBatch DEF Assign
  <2>2. \A z \in Folded(log[s], opening) : Opened(log[s], z, 0)
    BY AssignOpens, Openable, TimeIsNat
  <2>. HIDE DEF opening
  <2>3. QED
    BY <1>2, <2>1, <2>2, Synthesised
<1>3. QED
  BY <1>1, <1>2, Ended, GivenUp

-----------------------------------------------------------------------------
(* The actions: cancellation, failing writes, crash and recovery *)

\* A stop ends an idle session at once and only marks a running one.
LEMMA CancelKeeps == ASSUME IInv, NEW s \in Sessions, Cancel(s), now' = now PROVE Kept
<1>. DEFINE e == Ev("session.cancelled", now)
            x == log[s]
            y == Reduce(x, e)
<1>1. CASE /\ job[s].at = "idle" /\ Accepts(x, e)
           /\ log' = [log EXCEPT ![s] = y]
           /\ UNCHANGED <<rows, job, aborted>>
  <2>1. e.type = "session.cancelled" /\ e.at = now /\ now \in Nat /\ Resting(x)
    BY DEF Ev, IInv, Shaped
  <2>2. Leads(x, e, y)
    BY <1>1 DEF Leads
  <2>. HIDE DEF e, y
  <2>3. Resting(y) /\ Unpaid(x, y) /\ y.status = StatusOf(e.type)
    BY <2>1, <2>2, EndBatch DEF Ends
  <2>4. y.status = "cancelled"
    BY <2>1, <2>3 DEF StatusOf
  <2>5. Proper(s, y, job[s])
    BY <1>1, <2>4 DEF Proper, IInv, Shaped
  <2>6. Safe(s, y, job[s], rows')
    BY <1>1, <2>3, <2>5, UnpaidSafe
  <2>7. Moves(s, y, job[s]) /\ Calm
    BY <1>1 DEF IInv, Shaped, Moves, Calm
  <2>8. QED
    BY <2>6, <2>7, Moved
<1>2. CASE /\ job[s].at \notin {"idle", "done"}
           /\ aborted' = [aborted EXCEPT ![s] = TRUE]
           /\ UNCHANGED <<log, rows, job>>
  <2>1. \A t \in Sessions : job[t].at # "accepted"
    BY DEF Cancel, Synchronous
  <2>2. log[s].status # "completed"
    BY <1>2, RunningAt
  <2>3. Shaped'
    BY <1>2 DEF IInv, Shaped
  <2>4. \A t \in Sessions : Heeded(t)'
    BY <1>2, <2>1, <2>2 DEF IInv, Shaped, Heeded
  <2>5. IInv'
    BY <1>2, <2>3, <2>4 DEF IInv
  <2>6. QED
    BY <1>2, <2>5 DEF Kept, Allowed
<1>3. QED
  BY <1>1, <1>2 DEF Cancel

\* After a failing write the review gives up, or cannot write even that.
LEMMA FaultKeeps == ASSUME IInv, NEW s \in Sessions, Fault(s), Calm PROVE Kept
<1>1. \/ GiveUp(s)
      \/ job' = [job EXCEPT ![s] = Done] /\ UNCHANGED <<log, rows>>
  BY DEF Fault
<1>2. job[s].at \notin {"idle", "done"}
  BY DEF Fault
<1>3. QED
  BY <1>1, <1>2, GivenUp, Waits, DoneIs

\* Recovery ends a session and answers its open reservation in one transaction.
LEMMA RecoverKeeps == ASSUME IInv, NEW s \in Sessions, Recover(s) PROVE Kept
<1>. DEFINE x == log[s]
<1>1. PICK y \in Folded(x, Recovery(s)) : log' = [log EXCEPT ![s] = y]
  BY DEF Recover
<1>2. Resting(x) /\ now \in Nat
  BY DEF IInv, Shaped
<1>3. Recovers(x, y)
  BY <1>1, <1>2, RecoveryLeads
<1>4. rows' = RowsWith(s, y) /\ Allowed(rows')
  <2>1. CASE x.attempt.open /\ x.attempt.reserve > 0
    <3>. DEFINE ledger == Budget!Resolved(rows, s, x.attempt.reserve, "sent")
    <3>1. rows' = ledger
      BY <2>1 DEF Recover
    <3>2. x.attempt.reserve \in Costs \cup Projections \cup {0}
      BY <1>2, <2>1 DEF Resting, Accounted
    <3>3. /\ Resting(y) /\ y.reserved = x.reserved
          /\ y.settled = [disposition |-> "sent", cost |-> x.attempt.reserve]
      BY <1>3, <2>1 DEF Recovers
    <3>4. ledger = RowsWith(s, y) /\ Allowed(ledger)
      BY <2>1, <3>2, <3>3, RowsResolved
    <3>. HIDE DEF ledger
    <3>5. QED
      BY <3>1, <3>4
  <2>2. CASE ~(x.attempt.open /\ x.attempt.reserve > 0)
    <3>1. rows' = rows
      BY <2>2 DEF Recover
    <3>2. Unpaid(x, y)
      BY <1>3, <2>2 DEF Recovers
    <3>3. QED
      BY <3>1, <3>2, RowsUnpaid
  <2>3. QED
    BY <2>1, <2>2
<1>5. Proper(s, y, job[s])
  <2>1. y.status # "completed"
    BY <1>3 DEF Recovers
  <2>2. DOMAIN job[s] = DOMAIN Idle /\ (aborted[s] => job[s].at # "accepted")
    BY DEF IInv, Shaped, Heeded
  <2>3. QED
    BY <2>1, <2>2 DEF Proper
<1>6. Safe(s, y, job[s], rows')
  BY <1>3, <1>4, <1>5 DEF Safe, Recovers
<1>7. Moves(s, y, job[s]) /\ Calm
  BY <1>1 DEF IInv, Shaped, Moves, Recover, Calm
<1>8. QED
  BY <1>6, <1>7, Moved

\* A crash loses only the programs.
LEMMA CrashKeeps == ASSUME IInv, Crash PROVE Kept
<1>1. /\ job' = [s \in Sessions |-> Idle] /\ aborted' = [s \in Sessions |-> FALSE]
      /\ log' = log /\ rows' = rows /\ now' = now
  BY DEF Crash
<1>2. Idle.at = "idle"
  BY DEF Idle
<1>3. Shaped'
  BY <1>1 DEF IInv, Shaped
<1>4. \A s \in Sessions : Heeded(s)'
  BY <1>1, <1>2 DEF Heeded
<1>5. IInv'
  BY <1>1, <1>3, <1>4 DEF IInv
<1>6. QED
  BY <1>1, <1>5 DEF Kept, Allowed

\* The actions that change nothing here but, maybe, the time.
LEMMA IdleKeeps ==
    ASSUME IInv, Recovered \/ Tick \/ SetBack \/ UNCHANGED vars
    PROVE  Kept
<1>1. log' = log /\ rows' = rows /\ job' = job /\ aborted' = aborted
  BY DEF Recovered, Tick, SetBack, vars
<1>2. now' \in Nat
  BY DEF IInv, Shaped, Recovered, Tick, SetBack, vars
<1>3. Shaped'
  BY <1>1, <1>2 DEF IInv, Shaped
<1>4. \A s \in Sessions : Heeded(s)'
  BY <1>1 DEF IInv, Heeded
<1>5. IInv'
  BY <1>1, <1>3, <1>4 DEF IInv
<1>6. QED
  BY <1>1, <1>5 DEF Kept, Allowed

-----------------------------------------------------------------------------
(* The theorems *)

\* Every step keeps the invariant, and is the ledger's or nothing to it.
LEMMA StepKeeps == ASSUME IInv, [Next]_vars PROVE Kept
<1>1. ASSUME NEW s \in Sessions, Step(s), Calm PROVE Kept
  BY <1>1, HealthKeeps, AskKeeps, RequestKeeps, ToolKeeps, EndKeeps, ReadNextKeeps,
     SynthesiseLocalKeeps, RevalidateKeeps, ReviewKeeps, VerifyKeeps, CompleteKeeps,
     ProposeCloudKeeps, CloudKeeps, CloudVerifyKeeps, FallbackKeeps DEF Step
<1>2. QED
  BY <1>1, BeginKeeps, CancelKeeps, FaultKeeps, RecoverKeeps, CrashKeeps, IdleKeeps
  DEF Next, Calm, Step

\* A session starts at rest.
LEMMA NewRests == ASSUME NEW hybrid, NEW at \in Nat PROVE Resting(NewSession(hybrid, at))
<1>. DEFINE x == NewSession(hybrid, at)
<1>1. /\ DOMAIN x = Fields /\ x.message = NoMessage /\ x.attempt = NoAttempt
      /\ x.status = "created" /\ x.at = at /\ x.contexts = 0 /\ x.attempts = 0
      /\ x.last = "user.message" /\ x.reserved = 0 /\ x.settled = Unsettled
  BY DEF NewSession, Fields
<1>2. /\ NoAttempt.open = FALSE /\ NoAttempt.reserve = 0 /\ Unsettled.cost = 0
      /\ Unsettled.disposition = "none" /\ NoMessage.status = "none" /\ NoMessage.call = "none"
  BY DEF NoAttempt, Unsettled, NoMessage
<1>. HIDE DEF x
<1>3. Formed(x)
  <2>1. x.attempt.open \in BOOLEAN
    BY <1>1 DEF NoAttempt
  <2>2. x.status \in Terminal \cup {"created", "running"} /\ x.attempt.reserve \in Nat
        /\ x.at \in Nat
    BY <1>1, <1>2
  <2>3. DOMAIN x.message = DOMAIN NoMessage /\ DOMAIN x.attempt = DOMAIN NoAttempt
    BY <1>1
  <2>4. QED
    BY <1>1, <2>1, <2>2, <2>3 DEF Formed
<1>4. Halted(x)
  BY <1>1, <1>2 DEF Halted, Streaming, PendingCall
<1>5. Accounted(x) /\ OverrunFailed(x)
  BY <1>1, <1>2 DEF Accounted, OverrunFailed
<1>6. QED
  BY <1>3, <1>4, <1>5 DEF Resting, x

\* New sessions are at rest and have no rows.
LEMMA InitIInv == Init => IInv
<1>. SUFFICES ASSUME Init PROVE IInv
  OBVIOUS
<1>1. PICK hybrid \in [Sessions -> BOOLEAN] :
          log = [s \in Sessions |-> NewSession(hybrid[s], now)]
  BY DEF Init
<1>. now \in Nat
  BY ReviewAssumption DEF Init
<1>2. \A s \in Sessions : Resting(log[s])
  BY <1>1, NewRests
<1>3. \A s \in Sessions : log[s].reserved = 0 /\ log[s].status = "created"
  BY <1>1 DEF NewSession
<1>4. Shaped
  BY <1>1 DEF Init, Shaped
<1>5. rows = [s \in Sessions |-> RowOf(log[s])]
  <2>1. \A s \in Sessions : RowOf(log[s]) = Budget!NoRow
    BY <1>3 DEF RowOf
  <2>2. rows = [s \in Sessions |-> Budget!NoRow]
    BY DEF Init
  <2>3. QED
    BY <2>1, <2>2
<1>6. \A s \in Sessions : Heeded(s)
  BY <1>3 DEF Init, Heeded
<1>7. QED
  BY <1>2, <1>4, <1>5, <1>6 DEF IInv

\* The invariant holds throughout.
THEOREM AlwaysIInv == Spec => []IInv
<1>1. IInv /\ [Next]_vars => IInv'
  BY StepKeeps DEF Kept
<1>2. QED
  BY InitIInv, <1>1, PTL DEF Spec

\* What a session's state says of its row.
LEMMA RowsReconciled == IInv => Reconciled
<1>. SUFFICES ASSUME IInv, NEW s \in Sessions
              PROVE  /\ rows[s] = RowOf(log[s])
                     /\ rows[s].state = "reserved" => log[s].status = "running"
                     /\ rows[s].state = "overrun" => log[s].status = "failed"
  BY DEF Reconciled
<1>. DEFINE x == log[s]
<1>1. rows[s] = RowOf(x) /\ Resting(x) /\ x.reserved \in Nat
  BY Openable DEF IInv
<1>2. CASE x.reserved = 0
  BY <1>1, <1>2, RowIsNone DEF RowMade
<1>3. CASE x.reserved # 0 /\ x.settled = Unsettled
  <2>1. x.attempt.open
    BY <1>1, <1>3 DEF Resting, Accounted
  <2>2. x.status = "running"
    BY <1>1, <2>1 DEF Resting, Halted
  <2>3. rows[s].state = "reserved"
    BY <1>1, <1>3, RowIsOpen DEF RowMade
  <2>4. QED
    BY <1>1, <2>2, <2>3
<1>4. CASE x.reserved # 0 /\ x.settled # Unsettled
  <2>1. rows[s].state = Budget!TerminalState(RowMade("reserved", x.reserved, 0),
                                             x.settled.cost, x.settled.disposition)
    BY <1>1, <1>4, RowIsAnswered DEF RowMade
  <2>2. /\ rows[s].state # "reserved"
        /\ rows[s].state = "overrun" => x.settled.cost > x.reserved
    BY <2>1 DEF Budget!TerminalState, RowMade
  <2>3. QED
    BY <1>1, <2>2 DEF Resting, OverrunFailed
<1>5. QED
  BY <1>2, <1>3, <1>4

\* The rows of the budget are the ones the event logs call for, so a review with an open
\* reservation is running and one that was overcharged has failed; recovery may rely on it.
THEOREM RowsAreReconciled == Spec => []Reconciled
BY AlwaysIInv, RowsReconciled, PTL

\* A clock that is behind the review's last event is all that keeps the next start from
\* ending a running review: recovery's batch is refused then, and accepted otherwise,
\* whatever the review has written and wherever the crash caught it.
THEOREM RecoveryNeedsTheClock == Spec => []RecoveryAccepted
<1>1. IInv => RecoveryAccepted
  <2>. SUFFICES ASSUME IInv, NEW s \in Sessions, log[s].status = "running"
                PROVE  Folded(log[s], Recovery(s)) # {} <=> log[s].at <= now
    BY DEF RecoveryAccepted
  <2>1. Resting(log[s]) /\ now \in Nat
    BY DEF IInv, Shaped
  <2>2. QED
    BY <2>1, RecoveryIsAccepted, LateIsRefused
<1>2. QED
  BY AlwaysIInv, <1>1, PTL

\* A review its user stopped is never completed, not even by an answer already accepted.
THEOREM CancellationWins == Spec => []CancelWins
<1>1. IInv => CancelWins
  BY DEF IInv, Heeded, CancelWins
<1>2. QED
  BY AlwaysIInv, <1>1, PTL

-----------------------------------------------------------------------------
(* The event logs implement the budget ledger *)

\* The ledger of the logs computes as that of the rows.
LEMMA SameDenial ==
    ASSUME NEW r, NEW s, NEW cost
    PROVE  Logged!Denial(r, s, cost) = Budget!Denial(r, s, cost)
<1>1. Logged!Exposure(r) = Budget!Exposure(r)
  BY DEF Logged!Exposure, Budget!Exposure, Logged!MapThenSumSet, Budget!MapThenSumSet,
     Logged!MapThenFoldSet, Budget!MapThenFoldSet, Logged!Held, Budget!Held
<1>2. Logged!Overrun(r) = Budget!Overrun(r) /\ Logged!Held(r[s]) = Budget!Held(r[s])
  BY DEF Logged!Overrun, Budget!Overrun, Logged!Held, Budget!Held
<1>3. QED
  BY <1>1, <1>2 DEF Logged!Denial, Budget!Denial

\* It reserves and answers as that of the rows.
LEMMA SameChange ==
    ASSUME NEW r, NEW s, NEW amount, NEW disposition
    PROVE  /\ Logged!Reserved(r, s, amount) = Budget!Reserved(r, s, amount)
           /\ Logged!Resolved(r, s, amount, disposition)
                = Budget!Resolved(r, s, amount, disposition)
BY DEF Logged!Reserved, Budget!Reserved, Logged!Resolved, Budget!Resolved,
   Logged!TerminalState, Budget!TerminalState

\* The event logs alone are a budget ledger: what they reserve is admitted and reserved
\* once, and answered once.
THEOREM LogsImplementBudget == Spec => ImplementsBudget
<1>. DEFINE mapped == [s \in Sessions |-> RowOf(log[s])]
<1>1. Init => Logged!Init
  <2>. SUFFICES ASSUME Init PROVE Logged!Init
    OBVIOUS
  <2>1. rows = mapped
    BY InitIInv DEF IInv
  <2>2. mapped = [s \in Sessions |-> Logged!NoRow]
    BY <2>1 DEF Init, Budget!NoRow, Logged!NoRow
  <2>3. QED
    BY <2>2 DEF Logged!Init
<1>2. IInv /\ [Next]_vars => [Logged!Next]_mapped
  <2>. SUFFICES ASSUME IInv, [Next]_vars PROVE [Logged!Next]_mapped
    OBVIOUS
  <2>1. rows = mapped /\ rows' = mapped' /\ Allowed(rows')
    BY StepKeeps DEF IInv, Kept
  <2>. HIDE DEF mapped
  <2>2. CASE rows' = rows
    BY <2>1, <2>2
  <2>3. ASSUME NEW t \in Sessions, NEW amount \in Projections \cup Costs \cup {0},
               rows[t].state = "none", amount > 0, Budget!Denial(rows, t, amount) = "none",
               rows' = Budget!Reserved(rows, t, amount)
        PROVE  Logged!Next
    <3>1. /\ mapped[t].state = "none" /\ Logged!Denial(mapped, t, amount) = "none"
          /\ mapped' = Logged!Reserved(mapped, t, amount)
      BY <2>1, <2>3, SameDenial, SameChange
    <3>2. Logged!Reserve(t, amount)
      BY <2>3, <3>1 DEF Logged!Reserve, mapped
    <3>3. QED
      BY <3>2 DEF Logged!Next
  <2>4. ASSUME NEW t \in Sessions, NEW amount \in Projections \cup Costs \cup {0},
               NEW disposition \in {"not_sent", "sent", "unknown"},
               rows[t].state = "reserved", disposition = "not_sent" => amount = 0,
               rows' = Budget!Resolved(rows, t, amount, disposition)
        PROVE  Logged!Next
    <3>1. /\ mapped[t].state = "reserved"
          /\ mapped' = Logged!Resolved(mapped, t, amount, disposition)
      BY <2>1, <2>4, SameChange
    <3>2. Logged!Resolve(t, amount, disposition)
      BY <2>4, <3>1 DEF Logged!Resolve, mapped
    <3>3. QED
      BY <3>2 DEF Logged!Next
  <2>5. QED
    BY <2>1, <2>2, <2>3, <2>4 DEF Allowed
<1>3. QED
  BY <1>1, <1>2, AlwaysIInv, PTL DEF Spec, ImplementsBudget, Logged!Spec

-----------------------------------------------------------------------------
(* What the campaign owes *)

Plus(total, n) == n + total
Sums == INSTANCE FoldLaws WITH Op <- Plus

\* A sum over a set takes its elements in any order.
AnyChoice(S) == [t \in SUBSET S |-> CHOOSE x \in t : TRUE]

\* g sums f over every subset of S.
Totals(g, f, S) == Sums!Folds(0, g, S, f, AnyChoice(S))

\* Finite there is finite here.
LEMMA SameFinite ==
    ASSUME NEW S
    PROVE  Sums!IsFiniteSet(S) <=> IsFiniteSet(S)
BY DEF Sums!IsFiniteSet, IsFiniteSet

\* What the rows r hold.
Holdings(r) == [s \in Sessions |-> Budget!Held(r[s])]

\* The exposure of the campaign is such a sum.
LEMMA ExposureIsATotal ==
    ASSUME NEW r
    PROVE  \E g : Totals(g, Holdings(r), Sessions) /\ Budget!Exposure(r) = 0 + g[Sessions]
<1>. DEFINE p == AnyChoice(Sessions)
            f == Holdings(r)
            Is(g) == g = [t \in SUBSET Sessions |->
                       IF t = {} THEN 0
                       ELSE Budget!Held(r[CHOOSE x \in t : TRUE]) + g[t \ {CHOOSE x \in t : TRUE}]]
            iter == CHOOSE g : Is(g)
<1>1. Budget!Exposure(r) = 0 + iter[Sessions]
  BY DEF Budget!Exposure, Budget!MapThenSumSet, Budget!MapThenFoldSet
<1>2. \A t \in SUBSET Sessions : p[t] = CHOOSE x \in t : TRUE
  BY DEF AnyChoice
<1>3. \A t \in SUBSET Sessions : t # {} => p[t] \in t
  BY <1>2
<1>4. \A s \in Sessions : f[s] = Budget!Held(r[s])
  BY DEF Holdings
<1>. HIDE DEF p, f
<1>5. \A g : Totals(g, f, Sessions) <=> Is(g)
  <2>. SUFFICES ASSUME NEW g
                PROVE  [t \in SUBSET Sessions |->
                          IF t = {} THEN 0 ELSE f[p[t]] + g[t \ {p[t]}]]
                         = [t \in SUBSET Sessions |->
                              IF t = {} THEN 0
                              ELSE Budget!Held(r[CHOOSE x \in t : TRUE])
                                     + g[t \ {CHOOSE x \in t : TRUE}]]
    BY DEF Totals, Sums!Folds, Plus, p
  <2>1. \A t \in SUBSET Sessions : t # {} => f[p[t]] = Budget!Held(r[CHOOSE x \in t : TRUE])
    BY <1>2, <1>3, <1>4
  <2>2. QED
    BY <1>2, <2>1
<1>6. Sums!Picks(p, Sessions)
  BY <1>3 DEF Sums!Picks
<1>7. \E g : Totals(g, f, Sessions)
  <2>1. Sums!IsFiniteSet(Sessions)
    BY ReviewAssumption, SameFinite
  <2>4. \A b : \E g : Sums!Folds(b, g, Sessions, f, p)
    <3>. SUFFICES ASSUME NEW b PROVE \E g : Sums!Folds(b, g, Sessions, f, p)
      OBVIOUS
    <3>1. QED
      BY <1>6, <2>1, Sums!FoldsExist
  <2>2. \E g : Sums!Folds(0, g, Sessions, f, p)
    BY <2>4
  <2>3. QED
    BY <2>2 DEF Totals, p
<1>. HIDE DEF Is
<1>8. Is(iter)
  BY <1>5, <1>7
<1>. HIDE DEF iter
<1>9. Totals(iter, f, Sessions)
  BY <1>5, <1>8
<1>10. QED
  BY <1>1, <1>9 DEF f

\* Two sums differ by what they differ at one element.
LEMMA TotalsDiffer ==
    ASSUME NEW S, IsFiniteSet(S), NEW f \in [S -> Int], NEW e \in [S -> Int], NEW x \in S,
           \A y \in S \ {x} : e[y] = f[y],
           NEW g, Totals(g, f, S), NEW h, Totals(h, e, S)
    PROVE  g[S] \in Int /\ h[S] = g[S] + (e[x] - f[x])
<1>. DEFINE p == AnyChoice(S)
            Gap(u) == IF x \in u THEN e[x] - f[x] ELSE 0
            Fine(u) == g[u] \in Int /\ h[u] \in Int /\ h[u] = g[u] + Gap(u)
            T == {u \in SUBSET S : ~Fine(u)}
<1>1. \A t \in SUBSET S : t # {} => p[t] \in t
  BY DEF AnyChoice
<1>2. \A u \in SUBSET S : /\ g[u] = IF u = {} THEN 0 ELSE f[p[u]] + g[u \ {p[u]}]
                          /\ h[u] = IF u = {} THEN 0 ELSE e[p[u]] + h[u \ {p[u]}]
  BY DEF Totals, Sums!Folds, Plus
<1>3. e[x] - f[x] \in Int
  OBVIOUS
<1>. HIDE DEF p
<1>4. ASSUME NEW u \in SUBSET S, u # {}, Fine(u \ {p[u]}) PROVE Fine(u)
  <2>. DEFINE y == p[u]
              v == u \ {y}
  <2>1. y \in u /\ y \in S /\ f[y] \in Int /\ e[y] \in Int
    BY <1>1, <1>4
  <2>2. g[u] = f[y] + g[v] /\ h[u] = e[y] + h[v]
    BY <1>2, <1>4
  <2>3. g[v] \in Int /\ h[v] \in Int /\ h[v] = g[v] + Gap(v)
    BY <1>4
  <2>4. CASE y = x
    <3>1. Gap(v) = 0 /\ Gap(u) = e[y] - f[y]
      BY <2>1, <2>4
    <3>. HIDE DEF v, y, Gap
    <3>2. QED
      BY <2>1, <2>2, <2>3, <3>1
  <2>5. CASE y # x
    <3>1. Gap(v) = Gap(u) /\ e[y] = f[y] /\ Gap(u) \in Int
      BY <1>3, <2>1, <2>5
    <3>. HIDE DEF v, y, Gap
    <3>2. QED
      BY <2>1, <2>2, <2>3, <3>1
  <2>6. QED
    BY <2>4, <2>5
<1>5. Fine({})
  BY <1>2
<1>8. \A u : u \in T <=> u \in SUBSET S /\ ~Fine(u)
  OBVIOUS
<1>. HIDE DEF Fine, T
<1>6. Fine(S)
  <2>. SUFFICES ASSUME ~Fine(S) PROVE FALSE
    OBVIOUS
  <2>8. S \in T /\ T \subseteq SUBSET S
    BY <1>8
  <2>1. Sums!Family(T, S)
    BY <2>8, SameFinite DEF Sums!Family
  <2>2. /\ \A u \in SUBSET S : u \notin T => Fine(u)
        /\ \A u \in T : u \in SUBSET S /\ ~Fine(u)
    BY <1>8
  <2>3. PICK u : Sums!Smallest(u, T)
    BY <2>1, Sums!SmallestSet
  <2>4. u \in SUBSET S /\ ~Fine(u)
    BY <2>2, <2>3 DEF Sums!Smallest
  <2>5. u # {} /\ p[u] \in u
    BY <1>1, <1>5, <2>4
  <2>6. Fine(u \ {p[u]})
    BY <2>2, <2>3, <2>4, <2>5 DEF Sums!Smallest
  <2>7. QED
    BY <1>4, <2>4, <2>5, <2>6
<1>7. QED
  BY <1>6 DEF Fine

\* What the rows hold are integers.
LEMMA RowValues ==
    ASSUME IInv, NEW s \in Sessions
    PROVE  \E state, n, m :
              /\ n \in Nat /\ m \in Nat
              /\ rows[s] = RowMade(state, n, m)
              /\ state \in {"none", "reserved"} => m = 0
<1>. DEFINE x == log[s]
<1>1. rows[s] = RowOf(x) /\ Accounted(x) /\ x.reserved \in Nat
  BY Openable DEF IInv, Resting
<1>2. CASE x.reserved = 0
  BY <1>1, <1>2, RowIsNone
<1>3. CASE x.reserved # 0 /\ x.settled = Unsettled
  BY <1>1, <1>3, RowIsOpen
<1>4. CASE x.reserved # 0 /\ x.settled # Unsettled
  <2>. DEFINE state == Budget!TerminalState(RowMade("reserved", x.reserved, 0),
                                            x.settled.cost, x.settled.disposition)
  <2>1. rows[s] = RowMade(state, x.reserved, x.settled.cost)
    BY <1>1, <1>4, RowIsAnswered
  <2>2. x.settled.cost \in Nat
    <3>1. x.settled \in Answers
      BY <1>1, <1>4 DEF Accounted
    <3>2. x.settled.cost \in Costs \cup Projections \cup {0}
      BY <3>1 DEF Answers
    <3>3. Costs \cup Projections \cup {0} \subseteq Nat
      BY ReviewAssumption
    <3>4. QED
      BY <3>2, <3>3
  <2>3. state \notin {"none", "reserved"}
    BY DEF Budget!TerminalState
  <2>. HIDE DEF state
  <2>4. QED
    BY <1>1, <2>1, <2>2, <2>3
<1>5. QED
  BY <1>2, <1>3, <1>4

\* So the sum of the campaign is a sum of integers.
LEMMA HoldingsAreNumbers ==
    ASSUME IInv
    PROVE  Holdings(rows) \in [Sessions -> Int]
<1>1. ASSUME NEW s \in Sessions PROVE Budget!Held(rows[s]) \in Int
  <2>1. PICK state, n, m : n \in Nat /\ m \in Nat /\ rows[s] = RowMade(state, n, m)
    BY RowValues
  <2>2. rows[s].reserved \in Int /\ rows[s].amount \in Int
    BY <2>1 DEF RowMade
  <2>3. QED
    BY <2>2 DEF Budget!Held
<1>2. QED
  BY <1>1 DEF Holdings

\* A new row moves the exposure by what it holds more than the old one.
LEMMA ExposureMoves ==
    ASSUME IInv, NEW t \in Sessions, NEW row, Budget!Held(row) \in Int
    PROVE  /\ Budget!Exposure(rows) \in Int
           /\ Budget!Exposure([rows EXCEPT ![t] = row])
                = Budget!Exposure(rows) + (Budget!Held(row) - Budget!Held(rows[t]))
<1>. DEFINE r == [rows EXCEPT ![t] = row]
            f == Holdings(rows)
            e == Holdings(r)
<1>1. f \in [Sessions -> Int] /\ f[t] = Budget!Held(rows[t])
  BY HoldingsAreNumbers DEF Holdings
<1>2. r[t] = row /\ \A s \in Sessions \ {t} : r[s] = rows[s]
  BY DEF IInv
<1>. HIDE DEF r
<1>3. e[t] = Budget!Held(row) /\ \A s \in Sessions \ {t} : e[s] = f[s]
  BY <1>2 DEF Holdings
<1>4. \A s \in Sessions : e[s] \in Int
  BY <1>1, <1>3
<1>5. e \in [Sessions -> Int]
  BY <1>4 DEF Holdings
<1>. HIDE DEF f, e
<1>6. PICK g : Totals(g, f, Sessions) /\ Budget!Exposure(rows) = 0 + g[Sessions]
  BY ExposureIsATotal DEF f
<1>7. PICK h : Totals(h, e, Sessions) /\ Budget!Exposure(r) = 0 + h[Sessions]
  BY ExposureIsATotal DEF e
<1>8. g[Sessions] \in Int /\ h[Sessions] = g[Sessions] + (e[t] - f[t])
  <2>1. IsFiniteSet(Sessions)
    BY ReviewAssumption
  <2>2. QED
    BY <1>1, <1>3, <1>5, <1>6, <1>7, <2>1, TotalsDiffer
<1>9. e[t] \in Int /\ f[t] \in Int
  BY <1>1, <1>5
<1>10. QED
  BY <1>1, <1>3, <1>6, <1>7, <1>8, <1>9 DEF r

\* Before anything is reserved nothing is owed.
LEMMA NothingOwed == Init => Budget!Exposure(rows) = 0
<1>. SUFFICES ASSUME Init PROVE Budget!Exposure(rows) = 0
  OBVIOUS
<1>. DEFINE f == Holdings(rows)
            p == AnyChoice(Sessions)
<1>1. \A s \in Sessions : f[s] = 0
  BY DEF Init, Holdings, Budget!NoRow, Budget!Held
<1>. HIDE DEF f
<1>2. PICK g : Totals(g, f, Sessions) /\ Budget!Exposure(rows) = 0 + g[Sessions]
  BY ExposureIsATotal DEF f
<1>3. Sums!Picks(p, Sessions)
  BY DEF Sums!Picks, AnyChoice
<1>4. Sums!FoldWithin(0, g, Sessions, f, p, {0}, {0})
  BY <1>1, <1>2, <1>3, ReviewAssumption, SameFinite DEF Sums!FoldWithin, Totals
<1>5. Sums!Keeps({0}, {0})
  BY DEF Sums!Keeps, Plus
<1>6. g[Sessions] \in {0}
  BY <1>4, <1>5, Sums!FoldsStay
<1>7. QED
  BY <1>2, <1>6

\* A request that is admitted keeps the campaign within its stop.
LEMMA ReservedWithin ==
    ASSUME IInv, NEW t \in Sessions, NEW cost \in Projections \cup Costs \cup {0},
           rows[t].state = "none", Budget!Denial(rows, t, cost) = "none"
    PROVE  Budget!Exposure(Budget!Reserved(rows, t, cost)) <= Stop
<1>. DEFINE row == RowMade("reserved", cost, 0)
<1>1. cost \in Int /\ Stop \in Int
  <2>1. Projections \cup Costs \cup {0} \subseteq Nat /\ Stop \in Nat
    BY ReviewAssumption
  <2>2. QED
    BY <2>1
<1>2. Budget!Held(row) = cost
  BY DEF RowMade, Budget!Held
<1>3. Budget!Held(rows[t]) = 0
  <2>1. PICK state, n, m : /\ rows[t] = RowMade(state, n, m)
                           /\ state \in {"none", "reserved"} => m = 0
    BY RowValues
  <2>2. rows[t].state = "none" /\ rows[t].amount = 0
    BY <2>1 DEF RowMade
  <2>3. QED
    BY <2>2 DEF Budget!Held
<1>4. ~(Budget!Exposure(rows) + cost > Stop)
  BY DEF Budget!Denial
<1>5. Budget!Reserved(rows, t, cost) = [rows EXCEPT ![t] = row]
  BY DEF Budget!Reserved, RowMade
<1>. HIDE DEF row
<1>6. /\ Budget!Exposure(rows) \in Int
      /\ Budget!Exposure([rows EXCEPT ![t] = row]) = Budget!Exposure(rows) + (cost - 0)
  BY <1>1, <1>2, <1>3, ExposureMoves
<1>7. QED
  BY <1>1, <1>4, <1>5, <1>6

\* An answer is an overrun or costs at most what it answers had reserved.
LEMMA ResolvedWithin ==
    ASSUME IInv, NEW t \in Sessions, NEW cost \in Projections \cup Costs \cup {0},
           NEW disposition, disposition = "not_sent" => cost = 0,
           rows[t].state = "reserved", Budget!WithinCampaign
    PROVE  \/ Budget!Exposure(Budget!Resolved(rows, t, cost, disposition)) <= Stop
           \/ Budget!Overrun(Budget!Resolved(rows, t, cost, disposition))
<1>1. cost \in Nat /\ Stop \in Int
  <2>1. Projections \cup Costs \cup {0} \subseteq Nat /\ Stop \in Nat
    BY ReviewAssumption
  <2>2. QED
    BY <2>1
<1>2. PICK n : n \in Nat /\ rows[t] = RowMade("reserved", n, 0)
  <2>1. PICK state, n, m : /\ n \in Nat
                           /\ rows[t] = RowMade(state, n, m)
                           /\ state \in {"none", "reserved"} => m = 0
    BY RowValues
  <2>2. state = "reserved"
    BY <2>1 DEF RowMade
  <2>3. QED
    BY <2>1, <2>2
<1>. DEFINE after == Budget!TerminalState(rows[t], cost, disposition)
            row == RowMade(after, n, cost)
            r == Budget!Resolved(rows, t, cost, disposition)
<1>3. r = [rows EXCEPT ![t] = row]
  BY <1>2, ResolvedIs
<1>4. rows[t].reserved = n /\ Budget!Held(rows[t]) = n
  BY <1>2 DEF RowMade, Budget!Held
<1>5. /\ after \in {"released", "overrun", "settled"}
      /\ after # "overrun" => cost <= n
  <2>1. disposition = "not_sent" => cost <= n
    BY <1>1, <1>2
  <2>2. ~(cost > n) => cost <= n
    BY <1>1, <1>2
  <2>3. QED
    BY <1>4, <2>1, <2>2 DEF Budget!TerminalState
<1>. HIDE DEF after
<1>6. row.state = after /\ row.amount = cost
  BY DEF RowMade
<1>7. Budget!Held(row) = cost
  BY <1>5, <1>6 DEF Budget!Held
<1>8. /\ r[t] = row
      /\ \A s \in Sessions : s # t => r[s] = rows[s]
  BY <1>3 DEF IInv
<1>. HIDE DEF r, row
<1>9. CASE after = "overrun"
  BY <1>6, <1>8, <1>9 DEF Budget!Overrun, r
<1>10. CASE Budget!Overrun(rows)
  <2>1. PICK s \in Sessions : rows[s].state = "overrun"
    BY <1>10 DEF Budget!Overrun
  <2>2. r[s].state = "overrun"
    BY <1>8, <2>1
  <2>3. QED
    BY <2>2 DEF Budget!Overrun, r
<1>11. CASE after # "overrun" /\ ~Budget!Overrun(rows)
  <2>1. Budget!Exposure(rows) <= Stop
    BY <1>11 DEF Budget!WithinCampaign
  <2>2. /\ Budget!Exposure(rows) \in Int
        /\ Budget!Exposure([rows EXCEPT ![t] = row]) = Budget!Exposure(rows) + (cost - n)
    <3>1. Budget!Held(row) \in Int
      BY <1>1, <1>7
    <3>2. QED
      BY <1>4, <1>7, <3>1, ExposureMoves
  <2>3. Budget!Exposure(r) <= Stop
    BY <1>1, <1>2, <1>3, <1>5, <1>11, <2>1, <2>2
  <2>4. QED
    BY <2>3 DEF r
<1>12. QED
  BY <1>9, <1>10, <1>11

\* The campaign never owes more than its automatic stop but for a provider that charged
\* more than was reserved: what is open counts in full when a request is admitted.
THEOREM CampaignStays == Spec => []WithinCampaign
<1>1. Init => WithinCampaign
  <2>. SUFFICES ASSUME Init PROVE Budget!Exposure(rows) <= Stop
    BY DEF WithinCampaign, Budget!WithinCampaign
  <2>1. Stop \in Nat
    BY ReviewAssumption
  <2>2. QED
    BY <2>1, NothingOwed
<1>2. IInv /\ WithinCampaign /\ [Next]_vars => WithinCampaign'
  <2>. SUFFICES ASSUME IInv, Budget!WithinCampaign, [Next]_vars
                PROVE  WithinCampaign'
    BY DEF WithinCampaign
  <2>6. (Budget!Exposure(rows') <= Stop \/ Budget!Overrun(rows')) => WithinCampaign'
    BY DEF WithinCampaign, Budget!WithinCampaign
  <2>1. Allowed(rows')
    BY StepKeeps DEF Kept
  <2>2. rows' = rows => Budget!Exposure(rows') <= Stop \/ Budget!Overrun(rows')
    BY DEF Budget!WithinCampaign
  <2>3. ASSUME NEW t \in Sessions, NEW amount \in Projections \cup Costs \cup {0},
               rows[t].state = "none", Budget!Denial(rows, t, amount) = "none",
               rows' = Budget!Reserved(rows, t, amount)
        PROVE  Budget!Exposure(rows') <= Stop
    BY <2>3, ReservedWithin
  <2>4. ASSUME NEW t \in Sessions, NEW amount \in Projections \cup Costs \cup {0},
               NEW disposition, rows[t].state = "reserved",
               disposition = "not_sent" => amount = 0,
               rows' = Budget!Resolved(rows, t, amount, disposition)
        PROVE  Budget!Exposure(rows') <= Stop \/ Budget!Overrun(rows')
    BY <2>4, ResolvedWithin
  <2>5. QED
    BY <2>1, <2>2, <2>3, <2>4, <2>6 DEF Allowed
<1>3. QED
  BY <1>1, <1>2, AlwaysIInv, PTL DEF Spec

=============================================================================
