-------------------------- MODULE DispatchLedgerProofs --------------------------
(***************************************************************************)
(* No uncertain dispatch is ever followed by another, no grant pays twice, *)
(* no stale packet is sent, and the ledger implements the allowance, for   *)
(* any set of calls, packets, destinations, grants and limits.             *)
(***************************************************************************)
EXTENDS DispatchLedger, FiniteSetTheorems, TLAPS

\* A failure that request() retries is one that leaves nothing uncertain for
\* that packet: the two retry conditions of broker.ts imply isConfirmedAbort.
LEMMA RetriedIsConfirmed ==
    ASSUME NEW c, NEW f, RetryAfter(c, f)
    PROVE  ConfirmedAbort(f, ZeroRisk(c))
BY DEF RetryAfter, ConfirmedAbort, RetryableAbort, HttpRejected, ClosedByPeer

\* Closing a row keeps the others, and the row's request and call.
LEMMA CloseKeepsRows ==
    ASSUME rows \in Seq(Row), NEW r, NEW status \in Resolved \union {"unknown"},
           NEW fee \in Nat, NEW f \in FailureCodes \union {None}, Close(r, status, fee, f)
    PROVE  /\ rows' \in Seq(Row)
           /\ Len(rows') = Len(rows)
           /\ \A i \in 1 .. Len(rows) :
                /\ rows'[i].request = rows[i].request
                /\ rows'[i].call = rows[i].call
                /\ ~(rows[i].request = r /\ rows[i].status = "committed") => rows'[i] = rows[i]
                /\ rows[i].request = r /\ rows[i].status = "committed" =>
                     rows'[i].status = status /\ rows'[i].failure = f /\ rows'[i].fee = fee
<1>. DEFINE new(i) == IF rows[i].request = r /\ rows[i].status = "committed"
                      THEN [rows[i] EXCEPT !.status = status, !.fee = fee, !.failure = f]
                      ELSE rows[i]
<1>1. rows' = [i \in 1 .. Len(rows) |-> new(i)]
  BY DEF Close
<1>2. \A i \in 1 .. Len(rows) : rows[i] \in Row
  OBVIOUS
<1>3. \A i \in 1 .. Len(rows) : new(i) \in Row
  BY <1>2 DEF Row, Statuses
<1>4. Len(rows) \in Nat
  OBVIOUS
<1>. HIDE DEF new
<1>5. rows' \in Seq(Row) /\ Len(rows') = Len(rows)
  BY <1>1, <1>3, <1>4
<1>6. \A i \in 1 .. Len(rows) : rows'[i] = new(i)
  BY <1>1
<1>7. QED
  BY <1>2, <1>5, <1>6 DEF new, Row

\* Closing a row neither adds nor removes one, whatever it writes.
LEMMA CloseKeepsLength ==
    ASSUME Len(rows) \in Nat, NEW r, NEW status, NEW fee, NEW f, Close(r, status, fee, f)
    PROVE  Len(rows') = Len(rows)
<1>. DEFINE new(i) == IF rows[i].request = r /\ rows[i].status = "committed"
                      THEN [rows[i] EXCEPT !.status = status, !.fee = fee, !.failure = f]
                      ELSE rows[i]
            News == {new(i) : i \in 1 .. Len(rows)}
<1>1. rows' = [i \in 1 .. Len(rows) |-> new(i)]
  BY DEF Close
<1>. HIDE DEF new
<1>2. rows' \in [1 .. Len(rows) -> News]
  BY <1>1
<1>. HIDE DEF News
<1>3. QED
  BY <1>2

-----------------------------------------------------------------------------
(* The inductive invariant *)

\* A call waits only to retry what request() retries, with an attempt left.
WaitsToRetry ==
    \A r \in Requests : pc[r] = "backoff" =>
        attempt[r] < BROKER_MAX_ATTEMPTS /\ RetryAfter(call[r], failure[r])

\* The rows a call leaves behind it when it makes another attempt.
Abandoned(row, c) ==
    /\ row.status = "superseded"
    /\ row.call = c
    /\ RetryAfter(row.call, row.failure)

\* Until it returns, every row of a call but the one in flight is abandoned,
\* and before its first commit it has none.
EarlierRowsAbandoned ==
    \A r \in Requests, i \in 1 .. Len(rows) :
        rows[i].request = r /\ pc[r] \in {"idle"} \union InFlight =>
            \/ pc[r] \in {"sending", "backoff"} /\ i = Len(rows)
            \/ pc[r] \in {"ready", "sending", "backoff"} /\ Abandoned(rows[i], call[r])

ResentOnlyAfterAbandon ==
    \A i, j \in 1 .. Len(rows) :
        i < j /\ rows[i].request = rows[j].request => Abandoned(rows[i], rows[j].call)

Inv ==
    /\ TypeOK
    /\ WaitsToRetry
    /\ UnresolvedIsLast
    /\ InFlightHoldsItsRow
    /\ EarlierRowsAbandoned
    /\ ResentOnlyAfterAbandon

-----------------------------------------------------------------------------
(* Types *)

\* A call in flight has a typed packet, with a destination and a fee.
LEMMA CallsTyped ==
    ASSUME TypeOK, NEW r \in Requests, pc[r] \in InFlight
    PROVE  /\ call[r] \in Calls
           /\ DestOf[call[r].packet] \in Destinations
           /\ FeeOf[call[r].packet] \in Nat
BY LedgerAssumption DEF TypeOK, Calls

\* A call that returns leaves only typed values behind, whatever became of rows.
LEMMA ReturnTyped ==
    ASSUME TypeOK, NEW r \in Requests, NEW where \in Finished, Return(r, where)
    PROVE  /\ pc' \in [Requests -> {"idle"} \union InFlight \union Finished]
           /\ call' \in [Requests -> Calls \union {Idle}]
           /\ \A q \in Requests : pc'[q] \in InFlight => call'[q] \in Calls
           /\ attempt' \in [Requests -> 0 .. BROKER_MAX_ATTEMPTS]
           /\ signal' \in [Requests -> BOOLEAN]
           /\ failure' \in [Requests -> FailureCodes \union {None}]
<1>1. where \notin InFlight
  BY DEF Finished, InFlight
<1>2. 0 \in 0 .. BROKER_MAX_ATTEMPTS
  BY DEF BROKER_MAX_ATTEMPTS
<1>3. pc' \in [Requests -> {"idle"} \union InFlight \union Finished]
  BY DEF TypeOK, Return, Goto
<1>4. \A q \in Requests : pc'[q] \in InFlight => call'[q] \in Calls
  BY <1>1 DEF TypeOK, Return, Goto
<1>5. QED
  BY <1>2, <1>3, <1>4 DEF TypeOK, Return

\* A grant that gives up a use is still one.
LEMMA GrantTyped ==
    ASSUME TypeOK, NEW g \in Grants, grants[g] # None, grants[g].uses >= 1
    PROVE  Consume(grants[g]) \in GrantRow
<1>1. grants[g] \in GrantRow
  BY DEF TypeOK
<1>2. grants[g].uses - 1 \in 0 .. MaxUses \union {1}
  BY <1>1, LedgerAssumption DEF GrantRow
<1>3. QED
  BY <1>1, <1>2 DEF Consume, GrantRow

\* The first state is typed.
LEMMA TypeInit == Init => TypeOK
<1>. SUFFICES ASSUME Init PROVE TypeOK
  OBVIOUS
<1>. USE LedgerAssumption DEF Init
<1>1. rows \in Seq(Row)
  OBVIOUS
<1>2. policy \in Policies
  BY DEF Policies
<1>3. attempt \in [Requests -> 0 .. BROKER_MAX_ATTEMPTS]
  BY DEF BROKER_MAX_ATTEMPTS
<1>4. QED
  BY <1>1, <1>2, <1>3 DEF TypeOK, InFlight

\* Host operations: policy, context and grants only.
LEMMA TypeHost == TypeOK /\ Host => TypeOK'
<1>. SUFFICES ASSUME TypeOK, Host PROVE TypeOK'
  OBVIOUS
<1>. USE LedgerAssumption
<1>1. ASSUME NEW next \in Revisions, RevisePolicy(next[1], next[2]) PROVE TypeOK'
  <2>1. next[1] \in Modes /\ next[2] \in SUBSET Destinations
    OBVIOUS
  <2>2. policy \in Policies /\ policy.revision + 1 \in 0 .. MaxRevision
    BY <1>1 DEF TypeOK, RevisePolicy, Policies
  <2>3. policy' \in Policies
    BY <1>1, <2>1, <2>2 DEF RevisePolicy, Policies
  <2>4. QED
    BY <1>1, <2>3 DEF TypeOK, RevisePolicy
<1>2. CASE CancelJob
  <2>1. policy \in Policies /\ policy.revision + 1 \in 0 .. MaxRevision
    BY <1>2 DEF TypeOK, CancelJob, Policies
  <2>2. policy' \in Policies
    BY <1>2, <2>1 DEF CancelJob, Policies
  <2>3. QED
    BY <1>2, <2>2 DEF TypeOK, CancelJob
<1>3. ASSUME NEW s \in Sources, AddSource(s) PROVE TypeOK'
  BY <1>3 DEF TypeOK, AddSource
<1>4. ASSUME NEW g \in Grants, NEW p \in Packets, NEW a \in Proposals \union {None}, NEW u \in 1 .. MaxUses,
             IssueGrant(g, p, a, u)
      PROVE TypeOK'
  <2>1. [packet |-> p, sources |-> context, revision |-> policy.revision, approval |-> a,
         issued |-> u, uses |-> u, revoked |-> FALSE, expired |-> FALSE] \in GrantRow
    BY DEF TypeOK, GrantRow, Policies
  <2>2. QED
    BY <1>4, <2>1 DEF TypeOK, IssueGrant
<1>5. ASSUME NEW g \in Grants, RevokeGrant(g) \/ ExpireGrant(g) PROVE TypeOK'
  <2>1. grants[g] \in GrantRow
    BY <1>5 DEF TypeOK, RevokeGrant, ExpireGrant
  <2>2. [grants[g] EXCEPT !.revoked = TRUE] \in GrantRow /\ [grants[g] EXCEPT !.expired = TRUE] \in GrantRow
    BY <2>1 DEF GrantRow
  <2>3. grants' \in [Grants -> GrantRow \union {None}]
    BY <1>5, <2>2 DEF TypeOK, RevokeGrant, ExpireGrant
  <2>4. QED
    BY <1>5, <2>3 DEF TypeOK, RevokeGrant, ExpireGrant
<1>6. ASSUME NEW r \in Requests, AbortSignal(r) PROVE TypeOK'
  BY <1>6 DEF TypeOK, AbortSignal
<1>7. ASSUME NEW r \in Requests, NEW p \in Packets, NEW g \in Grants \union {None}, NEW a \in Proposals \union {None},
             Begin(r, p, g, a)
      PROVE TypeOK'
  <2>1. CASE Admissible(r, p, g, a)
    <3>1. [packet |-> p, grant |-> g, approval |-> a, revision |-> policy.revision, sources |-> context] \in Calls
      BY DEF TypeOK, Calls, Policies
    <3>2. call' \in [Requests -> Calls \union {Idle}] /\ call'[r] \in Calls
      BY <1>7, <2>1, <3>1 DEF TypeOK, Begin
    <3>3. pc' \in [Requests -> {"idle"} \union InFlight \union Finished]
      <4>1. PICK where \in {"scanning", AfterScan(DestOf[p])} : Goto(r, where)
        BY <1>7, <2>1 DEF Begin
      <4>2. where \in InFlight
        BY DEF AfterScan, InFlight
      <4>3. QED
        BY <4>1, <4>2 DEF TypeOK, Goto
    <3>4. \A q \in Requests : pc'[q] \in InFlight => call'[q] \in Calls
      BY <1>7, <2>1, <3>2 DEF TypeOK, Begin, Goto
    <3>5. 1 \in 0 .. BROKER_MAX_ATTEMPTS
      BY DEF BROKER_MAX_ATTEMPTS
    <3>6. attempt' \in [Requests -> 0 .. BROKER_MAX_ATTEMPTS]
      BY <1>7, <2>1, <3>5 DEF TypeOK, Begin
    <3>7. QED
      BY <1>7, <2>1, <3>2, <3>3, <3>4, <3>6 DEF TypeOK, Begin, stored
  <2>2. CASE ~Admissible(r, p, g, a)
    BY <1>7, <2>2, ReturnTyped DEF TypeOK, Begin, Finished, stored
  <2>3. QED
    BY <2>1, <2>2
<1>8. QED
  BY <1>1, <1>2, <1>3, <1>4, <1>5, <1>6, <1>7 DEF Host

\* The steps of a call, and a crash.
LEMMA TypeStep == TypeOK /\ WaitsToRetry /\ [Crash \/ \E r \in Requests : Step(r)]_vars => TypeOK'
<1>. SUFFICES ASSUME TypeOK, WaitsToRetry, [Crash \/ \E r \in Requests : Step(r)]_vars PROVE TypeOK'
  OBVIOUS
<1>. USE LedgerAssumption
<1>1. ASSUME NEW r \in Requests, NEW clean \in BOOLEAN, ScanEnds(r, clean) PROVE TypeOK'
  <2>1. CASE Return(r, "denied")
    BY <1>1, <2>1, ReturnTyped DEF TypeOK, ScanEnds, Finished, stored
  <2>2. CASE Continue(r, AfterScan(DestOf[call[r].packet]))
    BY <1>1, <2>2 DEF TypeOK, ScanEnds, Continue, Goto, AfterScan, InFlight, stored
  <2>3. QED
    BY <1>1, <2>1, <2>2 DEF ScanEnds
<1>2. ASSUME NEW r \in Requests, NEW admitted \in BOOLEAN, AdmissionEnds(r, admitted) PROVE TypeOK'
  <2>1. CASE Return(r, "denied")
    BY <1>2, <2>1, ReturnTyped DEF TypeOK, AdmissionEnds, Finished, stored
  <2>2. CASE Continue(r, "ready")
    BY <1>2, <2>2 DEF TypeOK, AdmissionEnds, Continue, Goto, InFlight, stored
  <2>3. QED
    BY <1>2, <2>1, <2>2 DEF AdmissionEnds
<1>3. ASSUME NEW r \in Requests, Commit(r) PROVE TypeOK'
  <2>1. call[r] \in Calls
    BY <1>3, CallsTyped DEF Commit, InFlight
  <2>2. [request |-> r, call |-> call[r], status |-> "committed", fee |-> 0, failure |-> None] \in Row
    BY <2>1 DEF Row, Statuses
  <2>3. rows' \in Seq(Row)
    BY <1>3, <2>2 DEF TypeOK, Commit
  <2>4. grants' \in [Grants -> GrantRow \union {None}]
    <3>1. CASE call[r].grant = None
      BY <1>3, <3>1 DEF TypeOK, Commit
    <3>2. CASE call[r].grant # None
      <4>1. call[r].grant \in Grants
        BY <2>1, <3>2 DEF Calls
      <4>2. grants[call[r].grant] # None /\ grants[call[r].grant].uses >= 1
        BY <1>3, <3>2 DEF Commit, Committable, GrantMatches
      <4>3. Consume(grants[call[r].grant]) \in GrantRow
        BY <4>1, <4>2, GrantTyped
      <4>4. QED
        BY <1>3, <3>2, <4>1, <4>3 DEF TypeOK, Commit
    <3>3. QED
      BY <3>1, <3>2
  <2>5. QED
    BY <1>3, <2>3, <2>4 DEF TypeOK, Commit, Continue, Goto, InFlight
<1>4. ASSUME NEW r \in Requests, CommitRefused(r) PROVE TypeOK'
  BY <1>4, ReturnTyped DEF TypeOK, CommitRefused, Finished, stored
<1>5. ASSUME NEW r \in Requests, NEW fee \in ReplyFees, Reply(r, fee) PROVE TypeOK'
  <2>1. PICK status \in Resolved \union {"unknown"}, n \in Nat, f \in FailureCodes \union {None} : Close(r, status, n, f)
    <3>1. CASE fee <= FeeOf[call[r].packet]
      BY <1>5, <3>1 DEF Reply, Resolved
    <3>2. CASE ~(fee <= FeeOf[call[r].packet])
      BY <1>5, <3>2 DEF Reply, FailureCodes
    <3>3. QED
      BY <3>1, <3>2
  <2>2. rows' \in Seq(Row)
    BY <2>1, CloseKeepsRows DEF TypeOK
  <2>3. PICK where \in Finished : Return(r, where)
    BY <1>5 DEF Reply, Finished
  <2>4. QED
    BY <1>5, <2>2, <2>3, ReturnTyped DEF TypeOK, Reply
<1>6. ASSUME NEW r \in Requests, NEW f \in Failures, SendFails(r, f) PROVE TypeOK'
  <2>1. PICK status \in Resolved \union {"unknown"} : Close(r, status, 0, f)
    BY <1>6 DEF SendFails, Resolved
  <2>2. rows' \in Seq(Row)
    BY <2>1, CloseKeepsRows DEF TypeOK
  <2>3. QED
    BY <1>6, <2>2, ReturnTyped DEF TypeOK, SendFails, Finished
<1>7. ASSUME NEW r \in Requests, NEW f \in Failures, BackOff(r, f) PROVE TypeOK'
  <2>1. pc' \in [Requests -> {"idle"} \union InFlight \union Finished]
    BY <1>7 DEF TypeOK, BackOff, Goto, InFlight
  <2>2. failure' \in [Requests -> FailureCodes \union {None}]
    BY <1>7 DEF TypeOK, BackOff
  <2>3. \A q \in Requests : pc'[q] \in InFlight => call[q] \in Calls
    BY <1>7 DEF TypeOK, BackOff, Goto, InFlight
  <2>4. QED
    BY <1>7, <2>1, <2>2, <2>3 DEF TypeOK, BackOff
<1>8. ASSUME NEW r \in Requests, BackoffEnds(r) PROVE TypeOK'
  <2>1. attempt[r] + 1 \in 0 .. BROKER_MAX_ATTEMPTS
    <3>1. attempt[r] < BROKER_MAX_ATTEMPTS
      BY <1>8 DEF WaitsToRetry, BackoffEnds
    <3>2. attempt[r] \in 0 .. BROKER_MAX_ATTEMPTS
      BY DEF TypeOK
    <3>3. QED
      BY <3>1, <3>2 DEF BROKER_MAX_ATTEMPTS
  <2>2. failure[r] \in FailureCodes \union {None}
    BY DEF TypeOK
  <2>3. rows' \in Seq(Row)
    BY <1>8, <2>2, CloseKeepsRows DEF TypeOK, BackoffEnds, Resolved
  <2>4. pc' \in [Requests -> {"idle"} \union InFlight \union Finished]
    BY <1>8 DEF TypeOK, BackoffEnds, Goto, InFlight
  <2>5. \A q \in Requests : pc'[q] \in InFlight => call[q] \in Calls
    BY <1>8 DEF TypeOK, BackoffEnds, Goto, InFlight
  <2>6. attempt' \in [Requests -> 0 .. BROKER_MAX_ATTEMPTS]
    BY <1>8, <2>1 DEF TypeOK, BackoffEnds
  <2>7. QED
    BY <1>8, <2>3, <2>4, <2>5, <2>6 DEF TypeOK, BackoffEnds
<1>12. ASSUME NEW r \in Requests, BackoffAborted(r) PROVE TypeOK'
  <2>1. failure[r] \in FailureCodes \union {None}
    BY DEF TypeOK
  <2>2. rows' \in Seq(Row)
    BY <1>12, <2>1, CloseKeepsRows DEF TypeOK, BackoffAborted, Resolved
  <2>3. QED
    BY <1>12, <2>2, ReturnTyped DEF TypeOK, BackoffAborted, Finished
<1>9. CASE Crash
  <2>1. pc' \in [Requests -> {"idle"} \union InFlight \union Finished]
    BY <1>9 DEF TypeOK, Crash, Finished
  <2>2. \A q \in Requests : pc'[q] \notin InFlight
    BY <1>9 DEF TypeOK, Crash, InFlight
  <2>3. 0 \in 0 .. BROKER_MAX_ATTEMPTS
    BY DEF BROKER_MAX_ATTEMPTS
  <2>4. QED
    BY <1>9, <2>1, <2>2, <2>3 DEF TypeOK, Crash, stored
<1>10. CASE UNCHANGED vars
  BY <1>10 DEF TypeOK, vars
<1>11. QED
  BY <1>1, <1>2, <1>3, <1>4, <1>5, <1>6, <1>7, <1>8, <1>9, <1>10, <1>12 DEF Step

-----------------------------------------------------------------------------
(* Preservation: steps that leave the rows alone, that close one, and commit *)

Same(q) == /\ pc'[q] = pc[q] /\ call'[q] = call[q]
           /\ failure'[q] = failure[q] /\ attempt'[q] = attempt[q]

\* How a call may move without touching a row.
Moves(q) ==
    \/ Same(q)
    \/ pc'[q] \in Finished
    \/ pc[q] = "idle" /\ pc'[q] \in {"scanning", "admitting", "ready"}
    \/ pc[q] \in {"scanning", "admitting"} /\ pc'[q] \in {"admitting", "ready"}
    \/ /\ pc[q] = "sending" /\ pc'[q] = "backoff"
       /\ call'[q] = call[q]
       /\ attempt'[q] < BROKER_MAX_ATTEMPTS /\ RetryAfter(call[q], failure'[q])

\* Steps that leave the rows alone keep the invariant: no call gets onto the wire by them.
LEMMA RowsKept ==
    ASSUME Inv, TypeOK', rows' = rows, \A q \in Requests : Moves(q)
    PROVE  Inv'
<1>1. UnresolvedIsLast' /\ ResentOnlyAfterAbandon'
  BY DEF Inv, UnresolvedIsLast, ResentOnlyAfterAbandon
<1>2. \A q \in Requests : pc'[q] \in {"sending", "backoff"} =>
        pc[q] \in {"sending", "backoff"} /\ call'[q] = call[q]
  BY DEF Moves, Same, Finished
<1>3. WaitsToRetry'
  BY DEF Inv, WaitsToRetry, Moves, Same, Finished
<1>4. InFlightHoldsItsRow'
  BY <1>2 DEF Inv, InFlightHoldsItsRow
<1>5. EarlierRowsAbandoned'
  <2>. SUFFICES ASSUME NEW q \in Requests, NEW i \in 1 .. Len(rows),
                       rows[i].request = q, pc'[q] \in {"idle"} \union InFlight
                PROVE  \/ pc'[q] \in {"sending", "backoff"} /\ i = Len(rows)
                       \/ pc'[q] \in {"ready", "sending", "backoff"} /\ Abandoned(rows[i], call'[q])
    BY DEF EarlierRowsAbandoned, Abandoned
  <2>1. CASE Same(q)
    BY <2>1 DEF Same, Inv, EarlierRowsAbandoned
  <2>2. CASE pc[q] = "sending" /\ pc'[q] = "backoff" /\ call'[q] = call[q]
    BY <2>2 DEF Inv, EarlierRowsAbandoned, InFlight
  <2>3. CASE pc[q] \in {"idle", "scanning", "admitting"}
    BY <2>3 DEF Inv, EarlierRowsAbandoned, InFlight
  <2>4. pc'[q] \notin Finished
    BY DEF Finished, InFlight
  <2>5. QED
    BY <2>1, <2>2, <2>3, <2>4 DEF Moves
<1>6. QED
  BY <1>1, <1>3, <1>4, <1>5 DEF Inv

\* The call in flight closes its row and returns, or supersedes it and retries.
LEMMA RowClosed ==
    ASSUME Inv, TypeOK', NEW r \in Requests, pc[r] \in {"sending", "backoff"},
           NEW status \in Resolved \union {"unknown"}, NEW fee \in Nat, NEW f \in FailureCodes \union {None},
           Close(r, status, fee, f),
           \A q \in Requests \ {r} : Same(q),
           \/ pc'[r] \in Finished
           \/ /\ pc'[r] = "ready" /\ call'[r] = call[r]
              /\ status = "superseded" /\ RetryAfter(call[r], f)
    PROVE  Inv'
<1>. USE DEF Inv
<1>1. rows \in Seq(Row) /\ Len(rows) \in Nat
  BY DEF TypeOK
<1>2. /\ Len(rows') = Len(rows)
      /\ \A i \in 1 .. Len(rows) :
           /\ rows'[i].request = rows[i].request
           /\ rows'[i].call = rows[i].call
           /\ ~(rows[i].request = r /\ rows[i].status = "committed") => rows'[i] = rows[i]
           /\ rows[i].request = r /\ rows[i].status = "committed" =>
                rows'[i].status = status /\ rows'[i].failure = f
  BY <1>1, CloseKeepsRows
<1>3. /\ Len(rows) > 0
      /\ rows[Len(rows)].request = r /\ rows[Len(rows)].status = "committed"
      /\ rows[Len(rows)].call = call[r]
  BY DEF InFlightHoldsItsRow
<1>4. \A i \in 1 .. Len(rows) : i # Len(rows) => rows'[i] = rows[i]
  BY <1>2 DEF UnresolvedIsLast, Unresolved, Resolved
<1>5. \A q \in Requests \ {r} : pc'[q] \notin {"sending", "backoff"}
  BY <1>3 DEF Same, InFlightHoldsItsRow
<1>6. pc'[r] \notin {"sending", "backoff"}
  BY DEF Finished
<1>7. WaitsToRetry' /\ InFlightHoldsItsRow'
  BY <1>5, <1>6 DEF WaitsToRetry, InFlightHoldsItsRow
<1>8. UnresolvedIsLast'
  BY <1>2, <1>4 DEF UnresolvedIsLast, Unresolved
<1>9. ResentOnlyAfterAbandon'
  <2>. SUFFICES ASSUME NEW i \in 1 .. Len(rows), NEW j \in 1 .. Len(rows), i < j,
                       rows'[i].request = rows'[j].request
                PROVE  Abandoned(rows'[i], rows'[j].call)
    BY <1>2 DEF ResentOnlyAfterAbandon, Abandoned
  <2>1. rows'[i] = rows[i] /\ rows'[j].call = rows[j].call /\ rows[i].request = rows[j].request
    BY <1>1, <1>2, <1>4
  <2>2. QED
    BY <2>1 DEF ResentOnlyAfterAbandon
<1>10. EarlierRowsAbandoned'
  <2>. SUFFICES ASSUME NEW q \in Requests, NEW i \in 1 .. Len(rows),
                       rows'[i].request = q, pc'[q] \in {"idle"} \union InFlight
                PROVE  pc'[q] = "ready" /\ Abandoned(rows'[i], call'[q])
    BY <1>2 DEF EarlierRowsAbandoned, Abandoned
  <2>1. rows[i].request = q
    BY <1>2
  <2>2. CASE q = r
    <3>1. pc'[r] = "ready" /\ call'[r] = call[r] /\ status = "superseded" /\ RetryAfter(call[r], f)
      BY <2>2 DEF Finished, InFlight
    <3>2. CASE i = Len(rows)
      BY <1>2, <1>3, <2>2, <3>1, <3>2 DEF Abandoned
    <3>3. CASE i # Len(rows)
      <4>1. Abandoned(rows[i], call[r])
        BY <2>1, <2>2, <3>3 DEF EarlierRowsAbandoned, InFlight
      <4>2. QED
        BY <1>4, <2>2, <3>1, <3>3, <4>1
    <3>4. QED
      BY <3>2, <3>3
  <2>3. CASE q # r
    <3>1. Same(q) /\ pc[q] \notin {"sending", "backoff"}
      BY <1>5, <2>3 DEF Same
    <3>2. i # Len(rows)
      BY <1>3, <2>1, <2>3
    <3>3. pc[q] = "ready" /\ Abandoned(rows[i], call[q])
      BY <2>1, <3>1 DEF EarlierRowsAbandoned, Same
    <3>4. QED
      BY <1>4, <3>1, <3>2, <3>3 DEF Same
  <2>4. QED
    BY <2>2, <2>3
<1>11. QED
  BY <1>7, <1>8, <1>9, <1>10

\* A commit adds the one row that may be unresolved, under the call that made it.
LEMMA CommitKeeps ==
    ASSUME Inv, TypeOK', NEW r \in Requests, Commit(r)
    PROVE  Inv'
<1>. USE DEF Inv
<1>. DEFINE new == [request |-> r, call |-> call[r], status |-> "committed", fee |-> 0, failure |-> None]
<1>1. rows \in Seq(Row) /\ Len(rows) \in Nat
  BY DEF TypeOK
<1>2. rows' = Append(rows, new) /\ pc[r] = "ready"
  BY DEF Commit
<1>3. /\ Len(rows') = Len(rows) + 1
      /\ rows'[Len(rows')] = new
      /\ \A i \in 1 .. Len(rows) : rows'[i] = rows[i]
  BY <1>1, <1>2
<1>4. new.request = r /\ new.call = call[r] /\ new.status = "committed"
  OBVIOUS
<1>. HIDE DEF new
<1>5. \A i \in 1 .. Len(rows) : ~Unresolved(rows[i])
  BY DEF Commit, Committable, NoneUnresolved
<1>6. \A q \in Requests : /\ call'[q] = call[q] /\ failure'[q] = failure[q] /\ attempt'[q] = attempt[q]
                          /\ q # r => pc'[q] = pc[q]
  BY DEF Commit, Continue, Goto, TypeOK
<1>7. pc'[r] = "sending"
  BY DEF Commit, Continue, Goto, TypeOK
<1>8. \A q \in Requests : pc[q] \notin {"sending", "backoff"}
  BY <1>1, <1>5 DEF InFlightHoldsItsRow, Unresolved, Resolved
<1>9. WaitsToRetry'
  BY <1>6, <1>7, <1>8 DEF WaitsToRetry
<1>10. UnresolvedIsLast'
  BY <1>1, <1>3, <1>5 DEF UnresolvedIsLast, Unresolved
<1>11. InFlightHoldsItsRow'
  BY <1>1, <1>3, <1>4, <1>6, <1>7, <1>8 DEF InFlightHoldsItsRow
<1>12. \A i \in 1 .. Len(rows) : rows[i].request = r => Abandoned(rows[i], call[r])
  BY <1>2 DEF EarlierRowsAbandoned, InFlight
<1>13. EarlierRowsAbandoned'
  <2>. SUFFICES ASSUME NEW q \in Requests, NEW i \in 1 .. Len(rows'),
                       rows'[i].request = q, pc'[q] \in {"idle"} \union InFlight
                PROVE  \/ pc'[q] \in {"sending", "backoff"} /\ i = Len(rows')
                       \/ pc'[q] \in {"ready", "sending", "backoff"} /\ Abandoned(rows'[i], call'[q])
    BY DEF EarlierRowsAbandoned, Abandoned
  <2>1. CASE i = Len(rows')
    BY <1>3, <1>4, <1>7, <2>1
  <2>2. CASE i # Len(rows') /\ q = r
    BY <1>1, <1>3, <1>6, <1>7, <1>12, <2>2
  <2>3. CASE i # Len(rows') /\ q # r
    <3>1. i \in 1 .. Len(rows) /\ rows'[i] = rows[i] /\ pc'[q] = pc[q] /\ call'[q] = call[q]
      BY <1>1, <1>3, <1>6, <2>3
    <3>2. QED
      BY <1>8, <3>1 DEF EarlierRowsAbandoned
  <2>4. QED
    BY <2>1, <2>2, <2>3
<1>14. ResentOnlyAfterAbandon'
  <2>. SUFFICES ASSUME NEW i \in 1 .. Len(rows'), NEW j \in 1 .. Len(rows'), i < j,
                       rows'[i].request = rows'[j].request
                PROVE  Abandoned(rows'[i], rows'[j].call)
    BY DEF ResentOnlyAfterAbandon, Abandoned
  <2>1. i \in 1 .. Len(rows) /\ rows'[i] = rows[i]
    BY <1>1, <1>3
  <2>2. CASE j = Len(rows')
    BY <1>3, <1>4, <1>12, <2>1, <2>2
  <2>3. CASE j # Len(rows')
    BY <1>1, <1>3, <2>1, <2>3 DEF ResentOnlyAfterAbandon
  <2>4. QED
    BY <2>2, <2>3
<1>15. QED
  BY <1>9, <1>10, <1>11, <1>13, <1>14

-----------------------------------------------------------------------------
(* What the rows of a grant were paid with *)

\* The rows a grant paid for.
Paid(g) == {i \in 1 .. Len(rows) : rows[i].call.grant = g}

\* Nothing was sent under a grant that was not issued yet.
PaidByIssued ==
    \A i \in 1 .. Len(rows) :
        rows[i].call.grant # None => grants[rows[i].call.grant] # None

\* What eligible() asks of a call that takes restricted context off the machine.
Disclosable(c) ==
    LET d == DestOf[c.packet] IN
    RestrictedContext(c.sources) /\ (Kind(d) # "local_model" \/ ~Has(d, "privateDataAdmitted")) =>
      /\ \/ SyntheticContext(c.sources) /\ (Has(d, "grantFreeSynthetic") \/ Kind(d) = "local_model")
         \/ c.grant # None
      /\ Has(d, "syntheticOnly") => SyntheticContext(c.sources)

RowsDisclosable == \A i \in 1 .. Len(rows) : Disclosable(rows[i].call)

\* None of the three is inductive without the other two and the types.
GrantInv == PaidByIssued /\ GrantCoversItsRows /\ RowsDisclosable

SameCalls ==
    /\ Len(rows') = Len(rows)
    /\ \A i \in 1 .. Len(rows) : rows'[i].call = rows[i].call

\* A grant may be revoked, expire or be issued; what it covers does not change.
SameGrant(g) ==
    /\ grants'[g] # None
    /\ grants'[g].packet = grants[g].packet /\ grants'[g].sources = grants[g].sources
    /\ grants'[g].revision = grants[g].revision
    /\ grants'[g].uses = grants[g].uses /\ grants'[g].issued = grants[g].issued

GrantsStand ==
    \A g \in Grants :
        /\ grants[g] # None => SameGrant(g)
        /\ grants[g] = None /\ grants'[g] # None => grants'[g].uses = grants'[g].issued

\* The rows of a grant are finitely many.
LEMMA PaidFinite ==
    ASSUME TypeOK, NEW g
    PROVE  IsFiniteSet(Paid(g)) /\ Cardinality(Paid(g)) \in Nat
<1>1. Len(rows) \in Nat
  BY DEF TypeOK
<1>2. IsFiniteSet(1 .. Len(rows)) /\ Paid(g) \subseteq 1 .. Len(rows)
  BY <1>1, FS_Interval DEF Paid
<1>3. QED
  BY <1>2, FS_Subset, FS_CardinalityType

\* A row's call is typed, and so is the grant it names.
LEMMA RowTyped ==
    ASSUME TypeOK, NEW i \in 1 .. Len(rows)
    PROVE  rows[i].call \in Calls /\ rows[i].call.grant \in Grants \union {None}
<1>1. rows[i] \in Row
  BY DEF TypeOK
<1>2. QED
  BY <1>1 DEF Row, Calls

\* Nothing was sent under a grant nobody issued.
LEMMA UnissuedPaysNothing ==
    ASSUME TypeOK, PaidByIssued, NEW g \in Grants, grants[g] = None
    PROVE  Paid(g) = {}
<1>1. g # None
  BY LedgerAssumption
<1>2. QED
  BY <1>1 DEF PaidByIssued, Paid

\* Steps that commit no row keep the account of every grant.
LEMMA AccountsStand ==
    ASSUME TypeOK, TypeOK', GrantInv, SameCalls, GrantsStand
    PROVE  GrantInv'
<1>1. \A g : Paid(g)' = Paid(g)
  BY DEF SameCalls, Paid
<1>2. \A i \in 1 .. Len(rows) : rows[i].call.grant \in Grants \union {None}
  BY RowTyped
<1>3. PaidByIssued'
  BY <1>2 DEF GrantInv, PaidByIssued, SameCalls, GrantsStand, SameGrant
<1>4. RowsDisclosable'
  BY DEF GrantInv, RowsDisclosable, Disclosable, SameCalls
<1>5. GrantCoversItsRows'
  <2>. SUFFICES ASSUME NEW g \in Grants, grants'[g] # None
                PROVE  /\ Cardinality(Paid(g)) + grants'[g].uses = grants'[g].issued
                       /\ \A i \in Paid(g) : /\ rows'[i].call.packet = grants'[g].packet
                                             /\ rows'[i].call.sources = grants'[g].sources
                                             /\ rows'[i].call.revision = grants'[g].revision
    BY <1>1 DEF GrantCoversItsRows, Paid
  <2>1. CASE grants[g] # None
    <3>1. SameGrant(g)
      BY <2>1 DEF GrantsStand
    <3>2. \A i \in Paid(g) : rows'[i].call = rows[i].call
      BY DEF Paid, SameCalls
    <3>3. QED
      BY <2>1, <3>1, <3>2 DEF SameGrant, GrantInv, GrantCoversItsRows, Paid
  <2>2. CASE grants[g] = None
    <3>1. Paid(g) = {} /\ Cardinality({}) = 0
      BY <2>2, UnissuedPaysNothing, FS_EmptySet DEF GrantInv
    <3>2. grants'[g].uses = grants'[g].issued /\ grants'[g].uses \in Nat
      <4>1. grants'[g] \in GrantRow
        BY DEF TypeOK
      <4>2. grants'[g].uses \in Nat
        BY <4>1, LedgerAssumption DEF GrantRow
      <4>3. QED
        BY <2>2, <4>2 DEF GrantsStand
    <3>3. QED
      BY <3>1, <3>2
  <2>3. QED
    BY <2>1, <2>2
<1>6. QED
  BY <1>3, <1>4, <1>5 DEF GrantInv

\* Closing a row changes no call.
LEMMA CloseSameCalls ==
    ASSUME TypeOK, NEW r, NEW status \in Resolved \union {"unknown"},
           NEW fee \in Nat, NEW f \in FailureCodes \union {None}, Close(r, status, fee, f)
    PROVE  SameCalls
BY CloseKeepsRows DEF TypeOK, SameCalls

\* What commit re-checks in its transaction makes the row disclosable.
LEMMA EligibleDiscloses ==
    ASSUME NEW r, Committable(r)
    PROVE  Disclosable(call[r])
BY DEF Committable, Current, Eligible, Disclosable

\* A commit takes one use of the grant it names, which was issued for that very call.
LEMMA CommitAccounts ==
    ASSUME TypeOK, TypeOK', GrantInv, NEW r \in Requests, Commit(r)
    PROVE  GrantInv'
<1>. DEFINE new == [request |-> r, call |-> call[r], status |-> "committed", fee |-> 0, failure |-> None]
            n == Len(rows) + 1
<1>1. rows \in Seq(Row) /\ Len(rows) \in Nat /\ rows' = Append(rows, new)
  BY DEF TypeOK, Commit
<1>2. /\ Len(rows') = n /\ rows'[n].call = call[r]
      /\ \A i \in 1 .. Len(rows) : rows'[i] = rows[i]
      /\ 1 .. n = (1 .. Len(rows)) \union {n} /\ n \notin 1 .. Len(rows)
  BY <1>1
<1>3. call[r] \in Calls
  BY CallsTyped DEF Commit, InFlight
<1>. HIDE DEF new, n
<1>4. \A g : Paid(g)' = IF call[r].grant = g THEN Paid(g) \union {n} ELSE Paid(g)
  BY <1>2 DEF Paid
<1>5. \A g \in Grants : g # call[r].grant => grants'[g] = grants[g]
  BY DEF Commit, TypeOK
<1>6. call[r].grant # None =>
        /\ call[r].grant \in Grants
        /\ grants[call[r].grant] # None /\ grants[call[r].grant].uses >= 1
        /\ SameDisclosure(grants[call[r].grant], call[r])
        /\ grants'[call[r].grant] = Consume(grants[call[r].grant])
  BY <1>3 DEF Commit, Committable, GrantMatches, TypeOK, Calls
<1>7. call[r].grant # None =>
        /\ grants'[call[r].grant] # None
        /\ grants'[call[r].grant].packet = grants[call[r].grant].packet
        /\ grants'[call[r].grant].sources = grants[call[r].grant].sources
        /\ grants'[call[r].grant].revision = grants[call[r].grant].revision
        /\ grants'[call[r].grant].issued = grants[call[r].grant].issued
        /\ grants'[call[r].grant].uses = grants[call[r].grant].uses - 1
  <2>. SUFFICES ASSUME call[r].grant # None
                PROVE  LET g == grants[call[r].grant]
                       IN  /\ Consume(g) # None
                           /\ Consume(g).packet = g.packet /\ Consume(g).sources = g.sources
                           /\ Consume(g).revision = g.revision /\ Consume(g).issued = g.issued
                           /\ Consume(g).uses = g.uses - 1
    BY <1>6
  <2>1. grants[call[r].grant] \in GrantRow /\ Consume(grants[call[r].grant]) \in GrantRow
    BY <1>6, GrantTyped DEF TypeOK
  <2>2. Consume(grants[call[r].grant]) # None
    BY <2>1, NoneAssumption
  <2>3. QED
    BY <2>1, <2>2 DEF Consume, GrantRow
<1>8. PaidByIssued'
  <2>. SUFFICES ASSUME NEW i \in 1 .. n, rows'[i].call.grant # None
                PROVE  grants'[rows'[i].call.grant] # None
    BY <1>2 DEF PaidByIssued
  <2>1. CASE rows'[i].call.grant = call[r].grant
    BY <1>7, <2>1
  <2>2. CASE rows'[i].call.grant # call[r].grant
    <3>1. i \in 1 .. Len(rows) /\ rows'[i] = rows[i]
      BY <1>2, <2>2
    <3>2. rows[i].call.grant \in Grants
      BY <3>1, RowTyped
    <3>3. QED
      BY <1>5, <2>2, <3>1, <3>2 DEF GrantInv, PaidByIssued
  <2>3. QED
    BY <2>1, <2>2
<1>9. RowsDisclosable'
  <2>1. Disclosable(call[r])
    BY EligibleDiscloses DEF Commit
  <2>2. \A i \in 1 .. n : rows'[i].call = call[r] \/ (i \in 1 .. Len(rows) /\ rows'[i] = rows[i])
    BY <1>2
  <2>3. \A i \in 1 .. n : Disclosable(rows'[i].call)
    BY <2>1, <2>2 DEF GrantInv, RowsDisclosable
  <2>4. QED
    BY <1>2, <2>3 DEF RowsDisclosable, Disclosable
<1>10. GrantCoversItsRows'
  <2>. SUFFICES ASSUME NEW g \in Grants, grants'[g] # None
                PROVE  /\ Cardinality(Paid(g)') + grants'[g].uses = grants'[g].issued
                       /\ \A i \in Paid(g)' : /\ rows'[i].call.packet = grants'[g].packet
                                              /\ rows'[i].call.sources = grants'[g].sources
                                              /\ rows'[i].call.revision = grants'[g].revision
    BY DEF GrantCoversItsRows, Paid
  <2>1. \A i \in Paid(g) : rows'[i] = rows[i] /\ i # n
    BY <1>2 DEF Paid
  <2>2. CASE call[r].grant = g
    <3>1. g # None
      BY LedgerAssumption
    <3>2. /\ grants[g] # None /\ SameDisclosure(grants[g], call[r]) /\ grants[g].uses >= 1
          /\ grants'[g].packet = grants[g].packet /\ grants'[g].sources = grants[g].sources
          /\ grants'[g].revision = grants[g].revision /\ grants'[g].issued = grants[g].issued
          /\ grants'[g].uses = grants[g].uses - 1
      BY <1>6, <1>7, <2>2, <3>1
    <3>3. /\ Cardinality(Paid(g)) + grants[g].uses = grants[g].issued
          /\ \A i \in Paid(g) : /\ rows[i].call.packet = grants[g].packet
                                /\ rows[i].call.sources = grants[g].sources
                                /\ rows[i].call.revision = grants[g].revision
      BY <3>2 DEF GrantInv, GrantCoversItsRows, Paid
    <3>4. Cardinality(Paid(g)') = Cardinality(Paid(g)) + 1
      BY <1>4, <2>1, <2>2, PaidFinite, FS_AddElement
    <3>5. grants[g].uses \in Int
      <4>1. grants[g] \in GrantRow
        BY <3>2 DEF TypeOK
      <4>2. QED
        BY <4>1, LedgerAssumption DEF GrantRow
    <3>6. Cardinality(Paid(g)') + grants'[g].uses = grants'[g].issued
      BY <3>2, <3>3, <3>4, <3>5, PaidFinite
    <3>7. \A i \in Paid(g)' : rows'[i].call = call[r] \/ (i \in Paid(g) /\ rows'[i] = rows[i])
      BY <1>2, <1>4, <2>1, <2>2
    <3>8. \A i \in Paid(g)' : /\ rows'[i].call.packet = grants'[g].packet
                             /\ rows'[i].call.sources = grants'[g].sources
                             /\ rows'[i].call.revision = grants'[g].revision
      BY <3>2, <3>3, <3>7 DEF SameDisclosure
    <3>9. QED
      BY <3>6, <3>8
  <2>3. CASE call[r].grant # g
    <3>1. grants'[g] = grants[g] /\ Paid(g)' = Paid(g)
      BY <1>4, <1>5, <2>3
    <3>2. /\ Cardinality(Paid(g)) + grants[g].uses = grants[g].issued
          /\ \A i \in Paid(g) : /\ rows[i].call.packet = grants[g].packet
                                /\ rows[i].call.sources = grants[g].sources
                                /\ rows[i].call.revision = grants[g].revision
      <4>1. grants[g] # None
        BY <3>1
      <4>2. QED
        BY <4>1 DEF GrantInv, GrantCoversItsRows, Paid
    <3>3. QED
      BY <2>1, <3>1, <3>2
  <2>4. QED
    BY <2>2, <2>3
<1>11. QED
  BY <1>8, <1>9, <1>10 DEF GrantInv

\* Every other step leaves what a grant covers, and what a row says, alone.
LEMMA GrantInvNext ==
    ASSUME Inv, Inv', GrantInv, [Next]_vars
    PROVE  GrantInv'
<1>1. TypeOK /\ TypeOK'
  BY DEF Inv
<1>. USE LedgerAssumption
<1>2. ASSUME rows' = rows, grants' = grants PROVE GrantInv'
  <2>1. SameCalls
    BY <1>2 DEF SameCalls
  <2>2. GrantsStand
    BY <1>2 DEF GrantsStand, SameGrant
  <2>3. QED
    BY <1>1, <2>1, <2>2, AccountsStand
<1>3. ASSUME rows' = rows, GrantsStand PROVE GrantInv'
  BY <1>1, <1>3, AccountsStand DEF SameCalls
<1>4. ASSUME grants' = grants, SameCalls PROVE GrantInv'
  BY <1>1, <1>4, AccountsStand DEF GrantsStand, SameGrant
<1>5. ASSUME NEW g \in Grants, NEW p \in Packets, NEW a \in Proposals \union {None}, NEW u \in 1 .. MaxUses,
             IssueGrant(g, p, a, u)
      PROVE  GrantInv'
  <2>1. GrantsStand
    BY <1>1, <1>5 DEF IssueGrant, GrantsStand, SameGrant, TypeOK
  <2>2. QED
    BY <1>3, <1>5, <2>1 DEF IssueGrant
<1>6. ASSUME NEW g \in Grants, RevokeGrant(g) \/ ExpireGrant(g) PROVE GrantInv'
  <2>1. grants[g] \in GrantRow /\ grants'[g] \in GrantRow \union {None}
    BY <1>1, <1>6 DEF TypeOK, RevokeGrant, ExpireGrant
  <2>2. PICK v \in {[grants[g] EXCEPT !.revoked = TRUE], [grants[g] EXCEPT !.expired = TRUE]} :
          grants' = [grants EXCEPT ![g] = v]
    BY <1>6 DEF RevokeGrant, ExpireGrant
  <2>3. v \in GrantRow /\ v # None
    <3>1. grants[g] \in GrantRow
      BY <1>6, <2>1 DEF RevokeGrant, ExpireGrant
    <3>2. [grants[g] EXCEPT !.revoked = TRUE] \in GrantRow /\ [grants[g] EXCEPT !.expired = TRUE] \in GrantRow
      BY <3>1 DEF GrantRow
    <3>3. QED
      BY <2>2, <3>2, NoneAssumption
  <2>4. /\ v.packet = grants[g].packet /\ v.sources = grants[g].sources
        /\ v.revision = grants[g].revision /\ v.uses = grants[g].uses /\ v.issued = grants[g].issued
    BY <2>1, <2>2 DEF GrantRow
  <2>5. grants'[g] = v /\ \A h \in Grants : h # g => grants'[h] = grants[h]
    BY <1>1, <2>2 DEF TypeOK
  <2>6. GrantsStand
    BY <2>1, <2>3, <2>4, <2>5, NoneAssumption DEF GrantsStand, SameGrant
  <2>7. QED
    BY <1>3, <1>6, <2>6 DEF RevokeGrant, ExpireGrant
<1>7. CASE Host
  <2>1. CASE grants' = grants
    BY <1>2, <1>7, <2>1 DEF Host, RevisePolicy, CancelJob, AddSource, IssueGrant, RevokeGrant, ExpireGrant,
       AbortSignal, Begin, stored
  <2>2. CASE grants' # grants
    <3>1. \E g \in Grants : \/ \E p \in Packets, a \in Proposals \union {None}, u \in 1 .. MaxUses : IssueGrant(g, p, a, u)
                            \/ RevokeGrant(g) \/ ExpireGrant(g)
      BY <1>7, <2>2 DEF Host, RevisePolicy, CancelJob, AddSource, AbortSignal, Begin, stored
    <3>2. QED
      BY <1>5, <1>6, <3>1
  <2>3. QED
    BY <2>1, <2>2
<1>8. CASE Crash \/ UNCHANGED vars
  BY <1>2, <1>8 DEF Crash, stored, vars
<1>9. ASSUME NEW r \in Requests, Step(r) PROVE GrantInv'
  <2>1. CASE Commit(r)
    BY <1>1, <2>1, CommitAccounts
  <2>2. CASE CommitRefused(r) \/ \E clean \in BOOLEAN : ScanEnds(r, clean) \/ AdmissionEnds(r, clean)
    BY <1>2, <2>2 DEF CommitRefused, ScanEnds, AdmissionEnds, stored
  <2>3. CASE BackoffEnds(r) \/ BackoffAborted(r)
    <3>1. failure[r] \in FailureCodes \union {None} /\ 0 \in Nat
      BY <1>1 DEF TypeOK
    <3>2. (\E status \in Resolved : Close(r, status, 0, failure[r])) /\ grants' = grants
      BY <2>3 DEF BackoffEnds, BackoffAborted, Resolved
    <3>3. QED
      BY <1>1, <1>4, <3>1, <3>2, CloseSameCalls
  <2>4. ASSUME NEW fee \in ReplyFees, Reply(r, fee) PROVE GrantInv'
    <3>1. fee \in Nat /\ 0 \in Nat /\ "settlement" \in FailureCodes
      BY DEF FailureCodes
    <3>2. (Close(r, "settled", fee, None) \/ Close(r, "unknown", 0, "settlement")) /\ grants' = grants
      BY <2>4 DEF Reply
    <3>3. SameCalls
      BY <1>1, <3>1, <3>2, CloseSameCalls DEF Resolved
    <3>4. QED
      BY <1>4, <3>2, <3>3
  <2>5. ASSUME NEW f \in Failures, SendFails(r, f) PROVE GrantInv'
    <3>1. (Close(r, "failed", 0, f) \/ Close(r, "unknown", 0, f)) /\ grants' = grants
      BY <2>5 DEF SendFails
    <3>2. SameCalls
      BY <1>1, <3>1, CloseSameCalls DEF Resolved
    <3>3. QED
      BY <1>4, <3>1, <3>2
  <2>6. ASSUME NEW f \in Failures, BackOff(r, f) PROVE GrantInv'
    BY <1>2, <2>6 DEF BackOff
  <2>7. QED
    BY <1>9, <2>1, <2>2, <2>3, <2>4, <2>5, <2>6 DEF Step
<1>10. QED
  BY <1>7, <1>8, <1>9 DEF Next

\* No grant is issued and no row written at the start.
LEMMA GrantInvInit == Init => GrantInv
<1>1. Init => Len(rows) = 0 /\ \A g \in Grants : grants[g] = None
  BY DEF Init
<1>2. QED
  BY <1>1 DEF GrantInv, PaidByIssued, GrantCoversItsRows, RowsDisclosable

-----------------------------------------------------------------------------
(* The account: Exposure and Spent are folds of the rows *)

AddCharge(sum, row) == sum + Charge(row)
AddFee(sum, row) == sum + row.fee

Charges == INSTANCE FoldLaws WITH Op <- AddCharge
Fees == INSTANCE FoldLaws WITH Op <- AddFee

\* The two sums of the ledger are the folds the laws are about.
LEMMA SumsAreFolds ==
    /\ Exposure = Charges!Fold(0, rows) /\ Spent = Fees!Fold(0, rows)
    /\ Exposure' = Charges!Fold(0, rows') /\ Spent' = Fees!Fold(0, rows')
<1>1. Exposure = Charges!Fold(0, rows) /\ Exposure' = Charges!Fold(0, rows')
  BY DEF Exposure, Charges!Fold, AddCharge, FoldLeft, Charges!FoldLeft, MapThenFoldSet, Charges!MapThenFoldSet,
     Max, Charges!Max
<1>2. Spent = Fees!Fold(0, rows) /\ Spent' = Fees!Fold(0, rows')
  BY DEF Spent, Fees!Fold, AddFee, FoldLeft, Fees!FoldLeft, MapThenFoldSet, Fees!MapThenFoldSet, Max, Fees!Max
<1>3. QED
  BY <1>1, <1>2

\* What a row counts for is an amount.
LEMMA ChargeTyped ==
    ASSUME NEW row \in Row
    PROVE  Charge(row) \in Nat /\ row.fee \in Nat /\ FeeOf[row.call.packet] \in Nat
BY LedgerAssumption DEF Charge, Row, Calls

\* Every sequence of rows adds up to an amount.
LEMMA SumsTyped ==
    ASSUME NEW s \in Seq(Row)
    PROVE  Charges!Fold(0, s) \in Nat /\ Fees!Fold(0, s) \in Nat
<1>1. 0 \in Nat /\ Charges!Keeps(Nat, Row) /\ Fees!Keeps(Nat, Row)
  BY ChargeTyped DEF AddCharge, AddFee, Charges!Keeps, Fees!Keeps
<1>2. Charges!Fold(0, s) \in Nat
  BY <1>1, Charges!FoldStays
<1>3. Fees!Fold(0, s) \in Nat
  BY <1>1, Fees!FoldStays
<1>4. QED
  BY <1>2, <1>3

\* The fee of the reservation that is open, or frozen.
Held == IF Holding THEN FeeOf[rows[Len(rows)].call.packet] ELSE 0

\* The fees settled and the fee held are all that counts against the allowance, and a row
\* still committed has cost nothing yet.
Balanced ==
    /\ Exposure = Spent + Held
    /\ \A i \in 1 .. Len(rows) : rows[i].status = "committed" => rows[i].fee = 0

\* A new row reserves its fee and has cost nothing.
LEMMA CommitReserves ==
    ASSUME Inv, Balanced, NEW r \in Requests, Commit(r)
    PROVE  /\ ~Holding /\ Held = 0
           /\ Holding' /\ Held' = FeeOf[call[r].packet] /\ rows'[Len(rows')].status = "committed"
           /\ Spent' = Spent /\ Spent \in Nat /\ Len(rows) \in Nat /\ Len(rows') = Len(rows) + 1
           /\ Balanced'
<1>. DEFINE new == [request |-> r, call |-> call[r], status |-> "committed", fee |-> 0, failure |-> None]
            n == Len(rows) + 1
<1>1. rows \in Seq(Row) /\ Len(rows) \in Nat /\ rows' = Append(rows, new)
  BY DEF Inv, TypeOK, Commit
<1>2. new.status = "committed" /\ new.call = call[r] /\ new.fee = 0
  OBVIOUS
<1>3. FeeOf[call[r].packet] \in Nat
  BY CallsTyped DEF Inv, Commit, InFlight
<1>. HIDE DEF new
<1>4. Len(rows') = n /\ rows'[n] = new /\ \A i \in 1 .. Len(rows) : rows'[i] = rows[i]
  BY <1>1
<1>5. ~Holding
  BY <1>1 DEF Commit, Committable, NoneUnresolved, Holding
<1>6. Holding' /\ Held' = FeeOf[call[r].packet]
  BY <1>1, <1>2, <1>4 DEF Holding, Held, Unresolved, Resolved
<1>7. Exposure' = Charges!Fold(0, Append(rows, new)) /\ Spent' = Fees!Fold(0, Append(rows, new))
  BY <1>1, SumsAreFolds
<1>8. Charges!Fold(0, Append(rows, new)) = AddCharge(Exposure, new)
  BY <1>1, SumsAreFolds, Charges!FoldAppend
<1>9. Fees!Fold(0, Append(rows, new)) = AddFee(Spent, new)
  BY <1>1, SumsAreFolds, Fees!FoldAppend
<1>10. Exposure \in Nat /\ Spent \in Nat
  BY <1>1, SumsAreFolds, SumsTyped
<1>11. Charge(new) = FeeOf[call[r].packet]
  BY <1>2 DEF Charge
<1>12. Exposure' = Exposure + FeeOf[call[r].packet] /\ Spent' = Spent
  BY <1>2, <1>7, <1>8, <1>9, <1>10, <1>11 DEF AddCharge, AddFee
<1>13. Held = 0
  BY <1>5 DEF Held
<1>14. Balanced'
  <2>1. Exposure' = Spent' + Held'
    BY <1>3, <1>6, <1>10, <1>12, <1>13 DEF Balanced
  <2>2. \A i \in 1 .. n : rows'[i].status = "committed" => rows'[i].fee = 0
    BY <1>1, <1>2, <1>4 DEF Balanced
  <2>3. QED
    BY <1>4, <2>1, <2>2 DEF Balanced
<1>15. QED
  BY <1>1, <1>2, <1>4, <1>5, <1>6, <1>10, <1>12, <1>13, <1>14

\* The row a call closes is the last, and the rows before it stand.
LEMMA ClosesTheLast ==
    ASSUME Inv, NEW r \in Requests, pc[r] \in {"sending", "backoff"},
           NEW status \in Resolved \union {"unknown"}, NEW fee \in Nat, NEW f \in FailureCodes \union {None},
           Close(r, status, fee, f)
    PROVE  /\ rows \in Seq(Row) /\ rows' \in Seq(Row)
           /\ Len(rows') = Len(rows) /\ Len(rows) \in Nat /\ Len(rows) > 0
           /\ rows[Len(rows)].status = "committed" /\ rows[Len(rows)].call = call[r]
           /\ rows'[Len(rows)].status = status /\ rows'[Len(rows)].fee = fee
           /\ rows'[Len(rows)].call = call[r]
           /\ \A i \in 1 .. Len(rows) : i # Len(rows) => rows'[i] = rows[i]
           /\ SubSeq(rows', 1, Len(rows) - 1) = SubSeq(rows, 1, Len(rows) - 1)
<1>1. rows \in Seq(Row) /\ Len(rows) \in Nat
  BY DEF Inv, TypeOK
<1>2. /\ rows' \in Seq(Row)
      /\ Len(rows') = Len(rows)
      /\ \A i \in 1 .. Len(rows) :
           /\ rows'[i].call = rows[i].call
           /\ ~(rows[i].request = r /\ rows[i].status = "committed") => rows'[i] = rows[i]
           /\ rows[i].request = r /\ rows[i].status = "committed" =>
                rows'[i].status = status /\ rows'[i].fee = fee
  BY <1>1, CloseKeepsRows
<1>3. /\ Len(rows) > 0
      /\ rows[Len(rows)].request = r /\ rows[Len(rows)].status = "committed"
      /\ rows[Len(rows)].call = call[r]
  BY DEF Inv, InFlightHoldsItsRow
<1>4. \A i \in 1 .. Len(rows) : i # Len(rows) => rows'[i] = rows[i]
  BY <1>2 DEF Inv, UnresolvedIsLast, Unresolved, Resolved
<1>5. SubSeq(rows', 1, Len(rows) - 1) = SubSeq(rows, 1, Len(rows) - 1)
  BY <1>1, <1>2, <1>3, <1>4
<1>6. QED
  BY <1>1, <1>2, <1>3, <1>4, <1>5

\* A settled row is paid what it cost, one of unknown outcome stays reserved, and any
\* other gives its reservation back.
LEMMA CloseBalances ==
    ASSUME Inv, Balanced, NEW r \in Requests, pc[r] \in {"sending", "backoff"},
           NEW status \in Resolved \union {"unknown"}, NEW fee \in Nat, NEW f \in FailureCodes \union {None},
           Close(r, status, fee, f), status # "settled" => fee = 0
    PROVE  /\ Holding /\ rows[Len(rows)].status = "committed" /\ Held = FeeOf[call[r].packet]
           /\ Held' = IF status = "unknown" THEN Held ELSE 0
           /\ Holding' <=> status = "unknown"
           /\ rows'[Len(rows')].status = status
           /\ Spent' = Spent + fee /\ Len(rows') = Len(rows)
           /\ Balanced'
<1>. DEFINE n == Len(rows)
            front == SubSeq(rows, 1, n - 1)
<1>1. /\ rows \in Seq(Row) /\ rows' \in Seq(Row) /\ n \in Nat /\ n > 0 /\ Len(rows') = n
      /\ rows[n].status = "committed" /\ rows[n].call = call[r]
      /\ rows'[n].status = status /\ rows'[n].fee = fee /\ rows'[n].call = call[r]
      /\ \A i \in 1 .. n : i # n => rows'[i] = rows[i]
      /\ SubSeq(rows', 1, n - 1) = front
  BY ClosesTheLast
<1>2. front \in Seq(Row)
  BY <1>1
<1>. HIDE DEF n, front
<1>3. FeeOf[call[r].packet] \in Nat
  BY CallsTyped DEF Inv, InFlight
<1>4. Holding /\ Held = FeeOf[call[r].packet]
  BY <1>1 DEF Holding, Held, Unresolved, Resolved, n
<1>5. (Holding' <=> status = "unknown") /\ Held' = IF status = "unknown" THEN Held ELSE 0
  <2>1. Holding' <=> status \notin Resolved
    BY <1>1 DEF Holding, Unresolved
  <2>2. status \notin Resolved <=> status = "unknown"
    BY DEF Resolved
  <2>3. Held' = IF Holding' THEN FeeOf[call[r].packet] ELSE 0
    BY <1>1 DEF Held
  <2>4. QED
    BY <1>4, <2>1, <2>2, <2>3
<1>6. Charges!Fold(0, rows) = AddCharge(Charges!Fold(0, front), rows[n]) /\ Fees!Fold(0, rows) = AddFee(Fees!Fold(0, front), rows[n])
  BY <1>1, Charges!FoldLast, Fees!FoldLast DEF front, n
<1>7. Charges!Fold(0, rows') = AddCharge(Charges!Fold(0, front), rows'[n]) /\ Fees!Fold(0, rows') = AddFee(Fees!Fold(0, front), rows'[n])
  BY <1>1, Charges!FoldLast, Fees!FoldLast
<1>8. Charges!Fold(0, front) \in Nat /\ Fees!Fold(0, front) \in Nat
  BY <1>2, SumsTyped
<1>9. rows[n].fee = 0 /\ Charge(rows[n]) = FeeOf[call[r].packet]
  BY <1>1 DEF Balanced, Charge, n
<1>10. Charge(rows'[n]) = IF status = "unknown" THEN FeeOf[call[r].packet] ELSE fee
  BY <1>1 DEF Charge, Resolved
<1>11. /\ Exposure = Charges!Fold(0, front) + FeeOf[call[r].packet] /\ Spent = Fees!Fold(0, front)
       /\ Exposure' = Charges!Fold(0, front) + Charge(rows'[n]) /\ Spent' = Fees!Fold(0, front) + fee
  <2>1. /\ Exposure = Charges!Fold(0, front) + Charge(rows[n]) /\ Spent = Fees!Fold(0, front) + rows[n].fee
         /\ Exposure' = Charges!Fold(0, front) + Charge(rows'[n]) /\ Spent' = Fees!Fold(0, front) + rows'[n].fee
    BY <1>6, <1>7, SumsAreFolds DEF AddCharge, AddFee
  <2>2. QED
    BY <1>1, <1>8, <1>9, <2>1
<1>12. Charges!Fold(0, front) = Fees!Fold(0, front)
  BY <1>3, <1>4, <1>8, <1>11 DEF Balanced
<1>13. Exposure' = Spent' + Held'
  BY <1>3, <1>4, <1>5, <1>8, <1>10, <1>11, <1>12
<1>14. \A i \in 1 .. n : rows'[i].status = "committed" => rows'[i].fee = 0
  BY <1>1 DEF Balanced, Resolved, n
<1>15. Balanced'
  BY <1>1, <1>13, <1>14 DEF Balanced
<1>16. QED
  BY <1>1, <1>4, <1>5, <1>11, <1>15 DEF n

\* Nothing but a commit and the close of the call in flight touches the rows.
LEMMA RowsStand ==
    ASSUME [Next]_vars, rows' # rows
    PROVE  \E r \in Requests :
             \/ Commit(r) \/ BackoffEnds(r) \/ BackoffAborted(r)
             \/ \E fee \in ReplyFees : Reply(r, fee)
             \/ \E f \in Failures : SendFails(r, f)
BY DEF Next, Host, Crash, Step, vars, stored, RevisePolicy, CancelJob, AddSource, IssueGrant,
   RevokeGrant, ExpireGrant, AbortSignal, Begin, ScanEnds, AdmissionEnds, CommitRefused, BackOff

\* What the allowance sees of the ledger.
Phase == IF ~Holding THEN "open" ELSE IF rows[Len(rows)].status = "unknown" THEN "frozen" ELSE "holding"

\* A step of the allowance, in the ledger's terms.
Reserves(fee) ==
    /\ Phase = "open" /\ Len(rows) < MaxRequests /\ Spent + fee <= MaxFee
    /\ Phase' = "holding" /\ Held' = fee /\ Len(rows') = Len(rows) + 1 /\ Spent' = Spent
Settles(fee) ==
    /\ Phase = "holding" /\ fee <= Held
    /\ Phase' = "open" /\ Held' = 0 /\ Spent' = Spent + fee /\ Len(rows') = Len(rows)
Freezes ==
    /\ Phase = "holding"
    /\ Phase' = "frozen" /\ Held' = Held /\ Spent' = Spent /\ Len(rows') = Len(rows)

\* A commit is a reservation: its exposure test, with nothing unresolved, is the allowance's.
LEMMA CommitIsReserve ==
    ASSUME Inv, Balanced, NEW r \in Requests, Commit(r)
    PROVE  Reserves(FeeOf[call[r].packet]) /\ call[r].packet \in Packets /\ Balanced'
<1>1. /\ ~Holding /\ Held = 0
      /\ Holding' /\ Held' = FeeOf[call[r].packet] /\ rows'[Len(rows')].status = "committed"
      /\ Spent' = Spent /\ Spent \in Nat /\ Len(rows) \in Nat /\ Len(rows') = Len(rows) + 1
      /\ Balanced'
  BY CommitReserves
<1>2. Exposure = Spent
  BY <1>1 DEF Balanced
<1>3. Len(rows) < MaxRequests /\ Exposure + FeeOf[call[r].packet] <= MaxFee
  BY DEF Commit, Committable
<1>4. Phase = "open" /\ Phase' = "holding"
  BY <1>1 DEF Phase
<1>5. call[r].packet \in Packets
  BY CallsTyped DEF Inv, Commit, InFlight, Calls
<1>6. QED
  BY <1>1, <1>2, <1>3, <1>4, <1>5 DEF Reserves

\* A close settles what was reserved or freezes it.
LEMMA CloseSettles ==
    ASSUME Inv, Balanced, NEW r \in Requests, pc[r] \in {"sending", "backoff"},
           NEW status \in Resolved \union {"unknown"}, NEW fee \in Nat, NEW f \in FailureCodes \union {None},
           Close(r, status, fee, f), status # "settled" => fee = 0, fee <= FeeOf[call[r].packet]
    PROVE  /\ status = "unknown" => Freezes
           /\ status # "unknown" => Settles(fee)
           /\ Balanced'
<1>1. /\ Holding /\ rows[Len(rows)].status = "committed" /\ Held = FeeOf[call[r].packet]
      /\ Held' = IF status = "unknown" THEN Held ELSE 0
      /\ Holding' <=> status = "unknown"
      /\ rows'[Len(rows')].status = status
      /\ Spent' = Spent + fee /\ Len(rows') = Len(rows)
      /\ Balanced'
  BY CloseBalances
<1>2. Phase = "holding" /\ Phase' = IF status = "unknown" THEN "frozen" ELSE "open"
  BY <1>1 DEF Phase
<1>3. Spent \in Nat
  BY SumsAreFolds, SumsTyped DEF Inv, TypeOK
<1>4. QED
  BY <1>1, <1>2, <1>3 DEF Freezes, Settles

\* Every step of the ledger is a step of the allowance, or none.
LEMMA StepsOfAllowance ==
    ASSUME Inv, Balanced, [Next]_vars
    PROVE  /\ Balanced'
           /\ \/ \E p \in Packets : Reserves(FeeOf[p])
              \/ \E fee \in ReplyFees \union {0} : Settles(fee)
              \/ Freezes
              \/ UNCHANGED <<Phase, Spent, Held, Len(rows)>>
<1>. USE LedgerAssumption
<1>1. CASE rows' = rows
  <2>1. Exposure' = Exposure /\ Spent' = Spent
    BY <1>1, SumsAreFolds
  <2>2. (Holding' <=> Holding) /\ Held' = Held /\ Phase' = Phase
    BY <1>1 DEF Held, Holding, Phase
  <2>3. Balanced'
    BY <1>1, <2>1, <2>2 DEF Balanced
  <2>4. QED
    BY <1>1, <2>1, <2>2, <2>3
<1>2. ASSUME NEW r \in Requests, Commit(r)
      PROVE  Balanced' /\ \E p \in Packets : Reserves(FeeOf[p])
  BY <1>2, CommitIsReserve
<1>3. ASSUME NEW r \in Requests, BackoffEnds(r) \/ BackoffAborted(r)
      PROVE  Balanced' /\ Settles(0)
  <2>1. pc[r] = "backoff" /\ failure[r] \in FailureCodes \union {None} /\ 0 \in Nat
    BY <1>3 DEF Inv, TypeOK, BackoffEnds, BackoffAborted
  <2>2. FeeOf[call[r].packet] \in Nat
    BY <2>1, CallsTyped DEF Inv, InFlight
  <2>3. Close(r, "superseded", 0, failure[r]) \/ Close(r, "failed", 0, failure[r])
    BY <1>3 DEF BackoffEnds, BackoffAborted
  <2>4. CASE Close(r, "superseded", 0, failure[r])
    BY <2>1, <2>2, <2>4, CloseSettles DEF Resolved
  <2>5. CASE Close(r, "failed", 0, failure[r])
    BY <2>1, <2>2, <2>5, CloseSettles DEF Resolved
  <2>6. QED
    BY <2>3, <2>4, <2>5
<1>4. ASSUME NEW r \in Requests, NEW fee \in ReplyFees, Reply(r, fee)
      PROVE  Balanced' /\ (Settles(fee) \/ Freezes)
  <2>1. pc[r] = "sending" /\ fee \in Nat /\ 0 \in Nat /\ "settlement" \in FailureCodes
    BY <1>4 DEF Reply, FailureCodes
  <2>2. FeeOf[call[r].packet] \in Nat
    BY <2>1, CallsTyped DEF Inv, InFlight
  <2>3. CASE fee <= FeeOf[call[r].packet]
    <3>1. Close(r, "settled", fee, None)
      BY <1>4, <2>3 DEF Reply
    <3>2. QED
      BY <2>1, <2>3, <3>1, CloseSettles DEF Resolved
  <2>4. CASE ~ (fee <= FeeOf[call[r].packet])
    <3>1. Close(r, "unknown", 0, "settlement")
      BY <1>4, <2>4 DEF Reply
    <3>2. QED
      BY <2>1, <2>2, <3>1, CloseSettles
  <2>5. QED
    BY <2>3, <2>4
<1>5. ASSUME NEW r \in Requests, NEW f \in Failures, SendFails(r, f)
      PROVE  Balanced' /\ (Settles(0) \/ Freezes)
  <2>1. pc[r] = "sending" /\ f \in FailureCodes /\ 0 \in Nat
    BY <1>5 DEF SendFails
  <2>2. FeeOf[call[r].packet] \in Nat
    BY <2>1, CallsTyped DEF Inv, InFlight
  <2>3. Close(r, "failed", 0, f) \/ Close(r, "unknown", 0, f)
    BY <1>5 DEF SendFails
  <2>4. CASE Close(r, "failed", 0, f)
    BY <2>1, <2>2, <2>4, CloseSettles DEF Resolved
  <2>5. CASE Close(r, "unknown", 0, f)
    BY <2>1, <2>2, <2>5, CloseSettles
  <2>6. QED
    BY <2>3, <2>4, <2>5
<1>6. CASE rows' # rows
  <2>1. PICK r \in Requests :
             \/ Commit(r) \/ BackoffEnds(r) \/ BackoffAborted(r)
             \/ \E fee \in ReplyFees : Reply(r, fee)
             \/ \E f \in Failures : SendFails(r, f)
    BY <1>6, RowsStand
  <2>2. QED
    BY <1>2, <1>3, <1>4, <1>5, <2>1
<1>7. QED
  BY <1>1, <1>6

-----------------------------------------------------------------------------
(* The theorems *)

\* The first state satisfies the invariant.
LEMMA InvInit == Init => Inv
<1>. SUFFICES ASSUME Init PROVE Inv
  OBVIOUS
<1>1. TypeOK
  BY TypeInit
<1>2. Len(rows) = 0 /\ \A r \in Requests : pc[r] = "idle"
  BY DEF Init
<1>3. QED
  BY <1>1, <1>2 DEF Inv, WaitsToRetry, UnresolvedIsLast, InFlightHoldsItsRow, EarlierRowsAbandoned, ResentOnlyAfterAbandon

\* Every step keeps the invariant.
LEMMA InvNext == Inv /\ [Next]_vars => Inv'
<1>. SUFFICES ASSUME Inv, [Next]_vars PROVE Inv'
  OBVIOUS
<1>1. TypeOK /\ WaitsToRetry
  BY DEF Inv
<1>2. TypeOK'
  BY <1>1, TypeHost, TypeStep DEF Next
<1>. USE DEF Moves, Same
<1>3. CASE Host
  <2>1. rows' = rows
    BY <1>3 DEF Host, RevisePolicy, CancelJob, AddSource, IssueGrant, RevokeGrant, ExpireGrant, AbortSignal, Begin, stored
  <2>2. \A q \in Requests : Moves(q)
    <3>1. ASSUME NEW r \in Requests, NEW p \in Packets, NEW g \in Grants \union {None},
                 NEW a \in Proposals \union {None}, Begin(r, p, g, a), NEW q \in Requests
          PROVE  Moves(q)
      BY <1>1, <3>1 DEF Begin, Return, Goto, AfterScan, TypeOK, Finished
    <3>2. UNCHANGED <<pc, call, attempt, failure>> => \A q \in Requests : Moves(q)
      OBVIOUS
    <3>3. QED
      BY <1>3, <3>1, <3>2 DEF Host, RevisePolicy, CancelJob, AddSource, IssueGrant, RevokeGrant, ExpireGrant, AbortSignal
  <2>3. QED
    BY <1>2, <2>1, <2>2, RowsKept
<1>4. CASE Crash
  <2>1. rows' = rows /\ \A q \in Requests : pc[q] \in InFlight => pc'[q] \in Finished
    BY <1>4 DEF Crash, stored, Finished
  <2>2. \A q \in Requests : pc'[q] \notin {"sending", "backoff"} /\ (pc[q] \notin InFlight => pc'[q] = pc[q])
    BY <1>4 DEF Crash, InFlight
  <2>3. QED
    BY <1>2, <2>1, <2>2 DEF Inv, WaitsToRetry, UnresolvedIsLast, InFlightHoldsItsRow, EarlierRowsAbandoned, ResentOnlyAfterAbandon, InFlight, Finished
<1>5. ASSUME NEW r \in Requests, NEW clean \in BOOLEAN, ScanEnds(r, clean) \/ AdmissionEnds(r, clean) PROVE Inv'
  <2>1. rows' = rows /\ \A q \in Requests : Moves(q)
    BY <1>1, <1>5 DEF ScanEnds, AdmissionEnds, Return, Continue, Goto, AfterScan, TypeOK, Finished, stored
  <2>2. QED
    BY <1>2, <2>1, RowsKept
<1>6. ASSUME NEW r \in Requests, Commit(r) PROVE Inv'
  BY <1>2, <1>6, CommitKeeps
<1>7. ASSUME NEW r \in Requests, CommitRefused(r) PROVE Inv'
  <2>1. rows' = rows /\ \A q \in Requests : Moves(q)
    BY <1>1, <1>7 DEF CommitRefused, Return, Goto, TypeOK, Finished, stored
  <2>2. QED
    BY <1>2, <2>1, RowsKept
<1>8. ASSUME NEW r \in Requests, NEW fee \in ReplyFees, Reply(r, fee) PROVE Inv'
  <2>1. \A q \in Requests \ {r} : Same(q)
    BY <1>1, <1>8 DEF Reply, Return, Goto, TypeOK
  <2>2. pc'[r] \in Finished
    BY <1>1, <1>8 DEF Reply, Return, Goto, TypeOK, Finished
  <2>3. PICK status \in Resolved \union {"unknown"}, n \in Nat, f \in FailureCodes \union {None} : Close(r, status, n, f)
    <3>1. CASE fee <= FeeOf[call[r].packet]
      BY <1>8, <3>1, LedgerAssumption DEF Reply, Resolved
    <3>2. CASE ~(fee <= FeeOf[call[r].packet])
      BY <1>8, <3>2 DEF Reply, FailureCodes
    <3>3. QED
      BY <3>1, <3>2
  <2>4. QED
    BY <1>2, <1>8, <2>1, <2>2, <2>3, RowClosed DEF Reply
<1>9. ASSUME NEW r \in Requests, NEW f \in Failures, SendFails(r, f) PROVE Inv'
  <2>1. (\A q \in Requests \ {r} : Same(q)) /\ pc'[r] \in Finished
    BY <1>1, <1>9 DEF SendFails, Return, Goto, TypeOK, Finished
  <2>2. PICK status \in Resolved \union {"unknown"} : Close(r, status, 0, f)
    BY <1>9 DEF SendFails, Resolved
  <2>3. QED
    BY <1>2, <1>9, <2>1, <2>2, RowClosed, LedgerAssumption DEF SendFails
<1>10. ASSUME NEW r \in Requests, NEW f \in Failures, BackOff(r, f) PROVE Inv'
  <2>1. rows' = rows /\ \A q \in Requests : Moves(q)
    BY <1>1, <1>10 DEF BackOff, WillRetry, Goto, TypeOK, InFlight
  <2>2. QED
    BY <1>2, <2>1, RowsKept
<1>11. ASSUME NEW r \in Requests, BackoffEnds(r) PROVE Inv'
  <2>1. \A q \in Requests \ {r} : Same(q)
    BY <1>1, <1>11 DEF BackoffEnds, Return, Goto, TypeOK
  <2>2. failure[r] \in FailureCodes \union {None} /\ RetryAfter(call[r], failure[r])
    BY <1>1, <1>11 DEF TypeOK, WaitsToRetry, BackoffEnds
  <2>3. pc'[r] = "ready" /\ call'[r] = call[r]
    BY <1>1, <1>11 DEF BackoffEnds, Goto, TypeOK
  <2>4. QED
    BY <1>2, <1>11, <2>1, <2>2, <2>3, RowClosed DEF BackoffEnds, Resolved
<1>14. ASSUME NEW r \in Requests, BackoffAborted(r) PROVE Inv'
  <2>1. (\A q \in Requests \ {r} : Same(q)) /\ pc'[r] \in Finished
    BY <1>1, <1>14 DEF BackoffAborted, Return, Goto, TypeOK, Finished
  <2>2. failure[r] \in FailureCodes \union {None}
    BY <1>1 DEF TypeOK
  <2>3. QED
    BY <1>2, <1>14, <2>1, <2>2, RowClosed DEF BackoffAborted, Resolved
<1>12. CASE UNCHANGED vars
  BY <1>2, <1>12, RowsKept DEF vars
<1>13. QED
  BY <1>3, <1>4, <1>5, <1>6, <1>7, <1>8, <1>9, <1>10, <1>11, <1>12, <1>14 DEF Next, Step

\* The invariant holds in every state.
LEMMA InvHolds == Spec => []Inv
BY InvInit, InvNext, PTL DEF Spec

\* Every value the ledger stores or a call holds has its type.
THEOREM TypesKept == Spec => []TypeOK
<1>1. Inv => TypeOK
  BY DEF Inv
<1>2. QED
  BY <1>1, InvHolds, PTL

\* A dispatch of uncertain outcome is the job's last, whatever crashes, cancels
\* and retries surround it (PrivateAgentStore.commit, PrivateAgentBroker.request).
THEOREM UncertainIsLast == Spec => []UnresolvedIsLast
<1>1. Inv => UnresolvedIsLast
  BY DEF Inv
<1>2. QED
  BY <1>1, InvHolds, PTL

\* Nothing is on the wire, or waiting to retry, without its own row committed,
\* and so never two calls of a job at once.
THEOREM WireHoldsItsRow == Spec => []InFlightHoldsItsRow
<1>1. Inv => InFlightHoldsItsRow
  BY DEF Inv
<1>2. QED
  BY <1>1, InvHolds, PTL

\* No packet is sent again after an attempt that may have been executed, unless
\* executing it twice costs and changes nothing.
THEOREM ResendIsSafe == Spec => []ResendOnlyAfterConfirmedAbort
<1>1. Inv => ResendOnlyAfterConfirmedAbort
  BY RetriedIsConfirmed DEF Inv, ResentOnlyAfterAbandon, Abandoned, ResendOnlyAfterConfirmedAbort
<1>2. QED
  BY <1>1, InvHolds, PTL

\* The accounts of the grants stand in every state.
LEMMA GrantInvHolds == Spec => [](Inv /\ GrantInv)
<1>1. Init => Inv /\ GrantInv
  BY InvInit, GrantInvInit
<1>2. (Inv /\ GrantInv) /\ [Next]_vars => (Inv /\ GrantInv)'
  BY InvNext, GrantInvNext
<1>3. QED
  BY <1>1, <1>2, PTL DEF Spec

\* A grant pays for exactly as many dispatches as it lost uses, each the packet, the
\* context and the policy revision it was issued for: no order of issues, revocations,
\* retries and crashes spends a use twice or on something else (PrivateAgentStore.commit).
THEOREM GrantsPayWhatTheyCover == Spec => []GrantCoversItsRows
<1>1. GrantInv => GrantCoversItsRows
  BY DEF GrantInv
<1>2. QED
  BY <1>1, GrantInvHolds, PTL

\* Restricted context never left for a destination not admitted to private data but under
\* a grant of that very packet and context, and no private data for a synthetic-only one
\* (eligible in broker.ts, re-checked by PrivateAgentStore.commit).
THEOREM DisclosureIsGranted == Spec => []PrivateDisclosureGranted
<1>1. Inv /\ GrantInv => PrivateDisclosureGranted
  <2>. SUFFICES ASSUME TypeOK, PaidByIssued, GrantCoversItsRows, RowsDisclosable
                PROVE  PrivateDisclosureGranted
    BY DEF Inv, GrantInv
  <2>1. ASSUME NEW i \in 1 .. Len(rows), rows[i].call.grant # None
        PROVE  /\ grants[rows[i].call.grant].packet = rows[i].call.packet
               /\ grants[rows[i].call.grant].sources = rows[i].call.sources
    <3>1. rows[i].call.grant \in Grants /\ grants[rows[i].call.grant] # None
      BY <2>1, RowTyped DEF PaidByIssued
    <3>2. QED
      BY <3>1 DEF GrantCoversItsRows
  <2>2. QED
    BY <2>1 DEF RowsDisclosable, Disclosable, PrivateDisclosureGranted
<1>2. QED
  BY <1>1, GrantInvHolds, PTL

\* Only a commit adds a row, and it re-reads the policy and the context in its own
\* transaction: what a cancel, a revision or a new source overtook is not sent.
THEOREM DispatchIsCurrent == Spec => NoStaleDispatch
<1>. DEFINE Stale ==
       Len(rows') > Len(rows) =>
         LET c == rows'[Len(rows')].call IN
         /\ ~policy.cancelled
         /\ c.revision = policy.revision /\ c.sources = context
         /\ DestOf[c.packet] \in policy.dests
         /\ policy.mode = "offline" => Kind(DestOf[c.packet]) = "local_model"
<1>1. Inv /\ [Next]_vars => Stale
  <2>. SUFFICES ASSUME TypeOK, [Next]_vars, Len(rows') > Len(rows) PROVE Stale
    BY DEF Inv
  <2>1. Len(rows) \in Nat
    BY DEF TypeOK
  <2>2. ASSUME NEW r, NEW status, NEW fee, NEW f, Close(r, status, fee, f) PROVE FALSE
    <3>1. Len(rows') = Len(rows)
      BY <2>1, <2>2, CloseKeepsLength
    <3>2. QED
      BY <2>1, <3>1
  <2>3. rows' # rows
    BY <2>1
  <2>4. PICK r \in Requests : Commit(r)
    BY <2>2, <2>3 DEF Next, Host, Crash, Step, vars, stored, RevisePolicy, CancelJob, AddSource, IssueGrant,
       RevokeGrant, ExpireGrant, AbortSignal, Begin, ScanEnds, AdmissionEnds, CommitRefused, Reply, SendFails,
       BackOff, BackoffEnds, BackoffAborted
  <2>5. rows'[Len(rows')].call = call[r]
    BY <2>4 DEF Commit, TypeOK
  <2>6. /\ Current(call[r]) /\ DestOf[call[r].packet] \in policy.dests
        /\ Eligible(policy, context, DestOf[call[r].packet], call[r].grant)
    BY <2>4 DEF Commit, Committable
  <2>7. QED
    BY <2>5, <2>6 DEF Current, Eligible
<1>2. Spec => [][Stale]_vars
  BY <1>1, InvHolds, PTL DEF Spec
<1>3. QED
  BY <1>2 DEF NoStaleDispatch

\* The ledger's constants are an allowance's.
LEMMA AllowanceConstants == Allowance!AllowanceAssumption
BY LedgerAssumption DEF Allowance!AllowanceAssumption

\* At the start nothing is spent or held.
LEMMA BalancedInit == Init => Balanced /\ Phase = "open" /\ Spent = 0 /\ Held = 0 /\ Len(rows) = 0
<1>. SUFFICES ASSUME Init PROVE Balanced /\ Phase = "open" /\ Spent = 0 /\ Held = 0 /\ Len(rows) = 0
  OBVIOUS
<1>1. rows = << >> /\ Len(rows) = 0
  BY DEF Init
<1>2. Exposure = 0 /\ Spent = 0
  BY <1>1, SumsAreFolds, Charges!FoldEmpty, Fees!FoldEmpty
<1>3. QED
  BY <1>1, <1>2 DEF Balanced, Held, Holding, Phase

\* The account is balanced in every state.
LEMMA BalanceHolds == Spec => [](Inv /\ Balanced)
<1>1. Init => Inv /\ Balanced
  BY InvInit, BalancedInit
<1>2. (Inv /\ Balanced) /\ [Next]_vars => (Inv /\ Balanced)'
  BY InvNext, StepsOfAllowance
<1>3. QED
  BY <1>1, <1>2, PTL DEF Spec

\* The ledger implements the allowance of SpendLedger: whatever the broker, its callers and
\* the network do, a commit is a reservation the allowance grants, a reply settles within
\* it, and a dispatch of unknown outcome holds its fee for good.
THEOREM LedgerIsAnAllowance == Spec => ImplementsAllowance
<1>1. Init => Allowance!Init
  BY BalancedInit DEF Allowance!Init, Phase, Held
<1>2. ASSUME Inv, Balanced, [Next]_vars
      PROVE  [Allowance!Next]_(Allowance!allowance)
  <2>1. CASE \E p \in Packets : Reserves(FeeOf[p])
    BY <2>1 DEF Reserves, Phase, Held, Allowance!Next, Allowance!Reserve
  <2>2. CASE \E fee \in ReplyFees \union {0} : Settles(fee)
    BY <2>2 DEF Settles, Phase, Held, Allowance!Next, Allowance!Settle
  <2>3. CASE Freezes
    BY <2>3 DEF Freezes, Phase, Held, Allowance!Next, Allowance!Freeze
  <2>4. CASE UNCHANGED <<Phase, Spent, Held, Len(rows)>>
    BY <2>4 DEF Phase, Held, Allowance!allowance
  <2>5. QED
    BY <1>2, <2>1, <2>2, <2>3, <2>4, StepsOfAllowance
<1>3. QED
  BY <1>1, <1>2, BalanceHolds, PTL DEF Spec, ImplementsAllowance, Allowance!Spec

\* What is spent and reserved never exceeds the allowance, nor the dispatches their number,
\* for every cap, fee and reply.
THEOREM AllowanceKept == Spec => []Allowance!WithinAllowance
<1>. DEFINE Within == Spent + Held <= MaxFee /\ Len(rows) <= MaxRequests
<1>1. Init => Within
  BY BalancedInit, LedgerAssumption
<1>2. ASSUME Inv, Balanced, Within, [Next]_vars
      PROVE  Within'
  <2>1. Spent \in Nat /\ Held \in Nat /\ Len(rows) \in Nat
    <3>1. Spent \in Nat /\ Len(rows) \in Nat
      BY <1>2, SumsAreFolds, SumsTyped DEF Inv, TypeOK
    <3>2. Exposure \in Nat /\ Exposure = Spent + Held
      BY <1>2, SumsAreFolds, SumsTyped DEF Inv, TypeOK, Balanced
    <3>3. Len(rows) > 0 => FeeOf[rows[Len(rows)].call.packet] \in Nat
      BY <1>2, <3>1, ChargeTyped DEF Inv, TypeOK
    <3>4. Held \in Nat
      BY <3>3 DEF Held, Holding
    <3>5. QED
      BY <3>1, <3>4
  <2>2. CASE \E p \in Packets : Reserves(FeeOf[p])
    BY <2>1, <2>2, LedgerAssumption DEF Reserves
  <2>3. CASE \E fee \in ReplyFees \union {0} : Settles(fee)
    BY <1>2, <2>1, <2>3, LedgerAssumption DEF Settles
  <2>4. CASE Freezes
    BY <1>2, <2>1, <2>4 DEF Freezes
  <2>5. CASE UNCHANGED <<Phase, Spent, Held, Len(rows)>>
    BY <1>2, <2>5
  <2>6. QED
    BY <1>2, <2>2, <2>3, <2>4, <2>5, StepsOfAllowance
<1>3. Within => Allowance!WithinAllowance
  BY DEF Allowance!WithinAllowance, Held
<1>4. QED
  BY <1>1, <1>2, <1>3, BalanceHolds, PTL DEF Spec

\* A fee reserved for a dispatch of unknown outcome is never released or spent over.
THEOREM FrozenKept == Spec => Allowance!FrozenForGood
<1>1. ASSUME Inv, Balanced, [Next]_vars
      PROVE  [Phase = "frozen" => UNCHANGED <<Phase, Spent, Held, Len(rows)>>]_<<Phase, Spent, Held, Len(rows)>>
  BY <1>1, StepsOfAllowance DEF Reserves, Settles, Freezes
<1>2. QED
  BY <1>1, BalanceHolds, PTL DEF Spec, Allowance!FrozenForGood, Allowance!allowance, Phase, Held

=============================================================================
