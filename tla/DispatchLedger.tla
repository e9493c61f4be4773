---------------------------- MODULE DispatchLedger ----------------------------
(***************************************************************************)
(* The dispatch ledger of one private-agent job: the policy, context,      *)
(* grant and dispatch tables of PrivateAgentStore (store.ts) and the calls *)
(* of PrivateAgentBroker.request (broker.ts) that reserve, send, retry and *)
(* settle against them.  A step is one SQLite transaction, or what one     *)
(* call does between two awaits when that is at most one transaction, so   *)
(* a crash or another caller may fall between any two transactions.        *)
(***************************************************************************)
EXTENDS Integers, Sequences, FiniteSets, SequencesExt

CONSTANTS
    Requests,      \* calls of request()
    Packets,       \* exact packets: method, url, headers and body
    Destinations,  \* destination ids the broker was constructed with
    DestOf,        \* packet -> destination
    FeeOf,         \* packet -> fee reserved for it (reservedFeeMicrousd)
    Profile,       \* destination -> [kind, flags]
    Sources,       \* context sources
    Class,         \* source -> classification
    FirstSources,  \* what the context is created with
    Grants,        \* grant ids
    Proposals,     \* proposal ids of exact approvals
    None,          \* no grant, no approval, no row
    MaxRequests,   \* policy.maxRequests
    MaxFee,        \* policy.maxFeeMicrousd
    ReplyFees,     \* what settleFee may compute from a reply
    Failures,      \* failure classes the transport may end with
    FirstMode,     \* mode and destinations the job is created with
    FirstDests,
    Revisions,     \* bound: what a revision may set, <<mode, destinations>>
    MaxRevision,   \* bound: policy revisions explored
    MaxUses        \* bound: uses of a grant without an approval

Modes == {"private", "cloud_help", "offline"}
Kinds == {"local_model", "cloud_model", "public_web"}
Flags == {"recoverable", "requireExactGrant", "privateDataAdmitted", "syntheticOnly",
          "grantFreeSynthetic", "anthropic", "publicDnsResolver", "loopback", "tokenAdmission"}
Classes == {"public", "private", "synthetic", "credential"}

\* UnknownRequestDiagnosticSchema: one representative per way a code is treated.
\* "uncertain" stands for request_timeout, response_oversize, transport_failed,
\* inactivity_timeout and stream_invalid; "settlement" for the settlement phase;
\* "http_4xx" also for a 429 that reports a spend cap or too long a wait.
HttpRejected == {"http_4xx", "http_429", "http_529", "http_5xx"}
ClosedByPeer == {"upstream_closed", "response_interrupted", "stream_error", "stream_error_5xx"}
FailureCodes == {"connection_failed", "cancelled", "uncertain", "settlement"} \union HttpRejected \union ClosedByPeer

BROKER_MAX_ATTEMPTS == 3

Kind(d) == Profile[d].kind
Has(d, flag) == flag \in Profile[d].flags

\* What normalizeDestination lets through.
Normalized(d) ==
    /\ Has(d, "recoverable") => Kind(d) # "cloud_model"
    /\ Has(d, "anthropic") => Kind(d) = "cloud_model"
    /\ Has(d, "tokenAdmission") => Kind(d) = "local_model"
    /\ Has(d, "publicDnsResolver") => Kind(d) = "public_web"
    /\ Has(d, "syntheticOnly") => ~Has(d, "privateDataAdmitted")
    /\ Has(d, "grantFreeSynthetic") =>
         Kind(d) = "cloud_model" /\ Has(d, "syntheticOnly") /\ ~Has(d, "requireExactGrant")

ASSUME ProfileAssumption ==
    /\ Profile \in [Destinations -> [kind: Kinds, flags: SUBSET Flags]]
    /\ \A d \in Destinations : Normalized(d)

ASSUME LedgerAssumption ==
    /\ DestOf \in [Packets -> Destinations]
    /\ FeeOf \in [Packets -> Nat]
    /\ Class \in [Sources -> Classes]
    /\ FirstSources \subseteq {s \in Sources : Class[s] # "credential"}
    /\ None \notin Requests \union Grants \union Proposals
    /\ MaxRequests \in Nat /\ MaxFee \in Nat /\ MaxRevision \in Nat /\ MaxUses \in Nat
    /\ ReplyFees \subseteq Nat
    /\ Failures \subseteq FailureCodes
    /\ FirstMode \in Modes /\ FirstDests \subseteq Destinations
    /\ Revisions \subseteq Modes \X SUBSET Destinations

VARIABLES
    policy,   \* private_agent_jobs: mode, destinations, revision, cancelled
    context,  \* private_agent_contexts: the sources (its fingerprint is injective)
    grants,   \* private_agent_grants
    rows,     \* private_agent_dispatches, in rowid order
    pc,       \* where each request() call is
    call,     \* its frozen input and packet preview
    attempt,  \* its loop counter
    signal,   \* its caller's AbortSignal has fired
    failure   \* the failure it is waiting to retry after

stored == <<policy, context, grants, rows>>
vars == <<policy, context, grants, rows, pc, call, attempt, signal, failure>>

-----------------------------------------------------------------------------
(* Rows, failures and grants *)

Resolved == {"settled", "superseded", "failed"}
Statuses == Resolved \union {"committed", "unknown"}

Policies == [mode: Modes, dests: SUBSET Destinations, revision: 0 .. MaxRevision, cancelled: BOOLEAN]

Calls == [packet: Packets, grant: Grants \union {None}, approval: Proposals \union {None},
          revision: 0 .. MaxRevision, sources: SUBSET Sources]

Row == [request: Requests, call: Calls, status: Statuses, fee: Nat,
        failure: FailureCodes \union {None}]

GrantRow == [packet: Packets, sources: SUBSET Sources, revision: 0 .. MaxRevision,
             approval: Proposals \union {None}, issued: 1 .. MaxUses \union {1}, uses: 0 .. MaxUses \union {1},
             revoked: BOOLEAN, expired: BOOLEAN]

\* The key of no row is none of the rows.
ASSUME NoneAssumption == None \notin GrantRow

RestrictedContext(s) == \E x \in s : Class[x] # "public"
SyntheticContext(s) == \A x \in s : Class[x] \in {"public", "synthetic"}

\* A local packet of no fee, or a public GET, without a grant: re-sending it costs nothing.
ZeroRisk(c) ==
    /\ c.grant = None /\ c.approval = None
    /\ \/ Kind(DestOf[c.packet]) = "local_model" /\ FeeOf[c.packet] = 0
       \/ Kind(DestOf[c.packet]) = "public_web"

ConfirmedAbort(f, zeroRisk) ==
    \/ f \in {"connection_failed"} \union HttpRejected
    \/ zeroRisk /\ f \in ClosedByPeer

\* Fault: a timeout is taken for an abort that can be repeated.
RepeatTimeouts(f) == f \in {"uncertain", "http_429", "http_529", "http_5xx", "upstream_closed"}

RetryableAbort(f) ==
    f \in {"connection_failed", "http_429", "http_529", "http_5xx",
           "upstream_closed", "response_interrupted", "stream_error_5xx"}

\* Which of the two retry loops of request(), if any, a failure enters.
RetryAfter(c, f) ==
    LET d == DestOf[c.packet] IN
    \/ Has(d, "anthropic") /\ f \in {"http_429", "http_529"}
    \/ Has(d, "recoverable") /\ ZeroRisk(c) /\ RetryableAbort(f)

Unresolved(row) == row.status \notin Resolved

\* Fault: a settled row no longer counts.
ChargeOpenOnly(row) == IF row.status \in Resolved THEN 0 ELSE FeeOf[row.call.packet]

\* What a row counts against the fee allowance.
Charge(row) == CASE row.status = "settled" -> row.fee
                 [] row.status \in {"superseded", "failed"} -> 0
                 [] OTHER -> FeeOf[row.call.packet]

Exposure == FoldLeft(LAMBDA sum, row : sum + Charge(row), 0, rows)

Eligible(pol, s, d, grant) ==
    /\ ~pol.cancelled
    /\ Has(d, "requireExactGrant") => grant # None
    /\ Has(d, "publicDnsResolver") => ~RestrictedContext(s)
    /\ pol.mode = "offline" => Kind(d) = "local_model" /\ Has(d, "loopback")
    /\ Kind(d) = "cloud_model" => pol.mode = "cloud_help"
    /\ Has(d, "syntheticOnly") => SyntheticContext(s)
    /\ RestrictedContext(s) =>
         IF Kind(d) = "local_model"
         THEN Has(d, "privateDataAdmitted") \/ (Has(d, "syntheticOnly") /\ SyntheticContext(s))
         ELSE grant # None \/ (Has(d, "grantFreeSynthetic") /\ SyntheticContext(s))

-----------------------------------------------------------------------------
Idle == [packet |-> None, grant |-> None, approval |-> None, revision |-> 0, sources |-> {}]

Init ==
    /\ policy = [mode |-> FirstMode, dests |-> FirstDests, revision |-> 0, cancelled |-> FALSE]
    /\ context = FirstSources
    /\ grants = [g \in Grants |-> None]
    /\ rows = << >>
    /\ pc = [r \in Requests |-> "idle"]
    /\ call = [r \in Requests |-> Idle]
    /\ attempt = [r \in Requests |-> 0]
    /\ signal = [r \in Requests |-> FALSE]
    /\ failure = [r \in Requests |-> None]

-----------------------------------------------------------------------------
(* The host's other calls on the store *)

\* PrivateAgentStore.revisePolicy
RevisePolicy(mode, dests) ==
    /\ ~policy.cancelled
    /\ policy.revision < MaxRevision
    /\ policy' = [policy EXCEPT !.mode = mode, !.dests = dests, !.revision = @ + 1]
    /\ UNCHANGED <<context, grants, rows, pc, call, attempt, signal, failure>>

\* PrivateAgentBroker.cancelJob: the durable cancel, then the abort of the
\* controllers of the calls in flight, which Aborted reads off the policy.
CancelJob ==
    /\ policy.revision < MaxRevision
    /\ policy' = [policy EXCEPT !.revision = @ + 1, !.cancelled = TRUE]
    /\ UNCHANGED <<context, grants, rows, pc, call, attempt, signal, failure>>

\* PrivateAgentStore.addSources
AddSource(s) ==
    /\ s \notin context
    /\ Class[s] # "credential"
    /\ context' = context \union {s}
    /\ UNCHANGED <<policy, grants, rows, pc, call, attempt, signal, failure>>

\* PrivateAgentStore.grant; only exact-grant packets are ever approved.
IssueGrant(g, p, a, uses) ==
    /\ grants[g] = None
    /\ ~policy.cancelled
    /\ a # None => uses = 1 /\ Has(DestOf[p], "requireExactGrant")
    /\ grants' = [grants EXCEPT ![g] =
          [packet |-> p, sources |-> context, revision |-> policy.revision, approval |-> a,
           issued |-> uses, uses |-> uses, revoked |-> FALSE, expired |-> FALSE]]
    /\ UNCHANGED <<policy, context, rows, pc, call, attempt, signal, failure>>

\* PrivateAgentStore.revoke
RevokeGrant(g) ==
    /\ grants[g] # None
    /\ grants' = [grants EXCEPT ![g].revoked = TRUE]
    /\ UNCHANGED <<policy, context, rows, pc, call, attempt, signal, failure>>

\* The clock passes grant.expiresAt (of a revoked grant nobody reads it).
ExpireGrant(g) ==
    /\ grants[g] # None
    /\ ~grants[g].revoked
    /\ grants' = [grants EXCEPT ![g].expired = TRUE]
    /\ UNCHANGED <<policy, context, rows, pc, call, attempt, signal, failure>>

-----------------------------------------------------------------------------
(* PrivateAgentBroker.request *)

InFlight == {"scanning", "admitting", "ready", "sending", "backoff"}
Finished == {"answered", "denied", "lost"}

\* The caller's signal, or cancelJob through the controller of this attempt.
Aborted(r) == signal[r] \/ policy.cancelled

AbortSignal(r) ==
    /\ pc[r] \notin Finished
    /\ signal' = [signal EXCEPT ![r] = TRUE]
    /\ UNCHANGED <<policy, context, grants, rows, pc, call, attempt, failure>>

Goto(r, where) == pc' = [pc EXCEPT ![r] = where]

\* The promise settles: the call's locals are gone and it listens to no signal.
Return(r, where) ==
    /\ Goto(r, where)
    /\ call' = [call EXCEPT ![r] = Idle]
    /\ attempt' = [attempt EXCEPT ![r] = 0]
    /\ signal' = [signal EXCEPT ![r] = FALSE]
    /\ failure' = [failure EXCEPT ![r] = None]

Continue(r, where) == Goto(r, where) /\ UNCHANGED <<call, attempt, signal, failure>>

AfterScan(d) == IF Has(d, "tokenAdmission") THEN "admitting" ELSE "ready"

\* The synchronous head: packet() snapshots revision and context, then eligible().
Admissible(r, p, g, a) ==
    LET d == DestOf[p] IN
    /\ ~signal[r]
    /\ Has(d, "requireExactGrant") <=> a # None
    /\ Eligible(policy, context, d, g)

Begin(r, p, g, a) ==
    LET d == DestOf[p]
        unscanned == Kind(d) = "local_model" /\ (Has(d, "privateDataAdmitted") \/ Has(d, "syntheticOnly"))
    IN
    /\ pc[r] = "idle"
    /\ IF Admissible(r, p, g, a)
       THEN /\ Goto(r, IF unscanned THEN AfterScan(d) ELSE "scanning")
            /\ call' = [call EXCEPT ![r] = [packet |-> p, grant |-> g, approval |-> a,
                                            revision |-> policy.revision, sources |-> context]]
            /\ attempt' = [attempt EXCEPT ![r] = 1]
            /\ UNCHANGED <<signal, failure>>
       ELSE Return(r, "denied")
    /\ UNCHANGED stored

\* The scanner answers, complete and unblocked or not.
ScanEnds(r, clean) ==
    /\ pc[r] = "scanning"
    /\ IF clean /\ ~signal[r] THEN Continue(r, AfterScan(DestOf[call[r].packet])) ELSE Return(r, "denied")
    /\ UNCHANGED stored

\* Local token admission answers; a cancel while it ran refuses the call.
AdmissionEnds(r, admitted) ==
    /\ pc[r] = "admitting"
    /\ IF admitted /\ ~Aborted(r) THEN Continue(r, "ready") ELSE Return(r, "denied")
    /\ UNCHANGED stored

\* Fault: the grant pays for the packet with whatever context it now carries.
SamePacketOnly(g, c) == g.packet = c.packet /\ g.revision = c.revision

SameDisclosure(g, c) == g.packet = c.packet /\ g.sources = c.sources /\ g.revision = c.revision

GrantMatches(c) ==
    /\ grants[c.grant] # None
    /\ LET g == grants[c.grant] IN
        /\ ~g.revoked /\ ~g.expired /\ g.uses >= 1
        /\ g.approval = c.approval
        /\ SameDisclosure(g, c)

\* Fault: the packet of an older context or revision is still good.
NotCancelled(c) == ~policy.cancelled

Current(c) == ~policy.cancelled /\ c.revision = policy.revision /\ c.sources = context

\* Fault: a row left committed by a crash is not seen.
NoneUnknown == \A i \in 1 .. Len(rows) : rows[i].status # "unknown"

NoneUnresolved == \A i \in 1 .. Len(rows) : ~Unresolved(rows[i])

NotDispatched(c) == \A i \in 1 .. Len(rows) : rows[i].call.approval # c.approval

\* Every condition PrivateAgentStore.commit re-checks inside its transaction.
Committable(r) ==
    LET c == call[r]
        d == DestOf[c.packet]
    IN
    /\ c.approval # None => c.grant # None
    /\ Current(c)
    /\ d \in policy.dests
    /\ Eligible(policy, context, d, c.grant)
    /\ ~signal[r]
    /\ NoneUnresolved
    /\ c.approval # None => NotDispatched(c)
    /\ Len(rows) < MaxRequests
    /\ Exposure + FeeOf[c.packet] <= MaxFee
    /\ c.grant # None => GrantMatches(c)

\* Fault: a use of a grant for many uses is not counted.
ConsumeLast(g) == [g EXCEPT !.revoked = g.uses = 1]

Consume(g) == [g EXCEPT !.uses = @ - 1, !.revoked = g.uses = 1]

Commit(r) ==
    /\ pc[r] = "ready"
    /\ Committable(r)
    /\ rows' = Append(rows, [request |-> r, call |-> call[r], status |-> "committed", fee |-> 0, failure |-> None])
    /\ grants' = IF call[r].grant = None THEN grants
                 ELSE [grants EXCEPT ![call[r].grant] = Consume(@)]
    /\ Continue(r, "sending")
    /\ UNCHANGED <<policy, context>>

\* Token admission and the consultation pass a check of their own, which may refuse.
Vetoable(d) == Has(d, "tokenAdmission") \/ Has(d, "requireExactGrant")

CommitRefused(r) ==
    /\ pc[r] = "ready"
    /\ ~Committable(r) \/ Vetoable(DestOf[call[r].packet])
    /\ Return(r, "denied")
    /\ UNCHANGED stored

\* settle, unknown and resolveFailure rewrite the row of this attempt, the
\* last one this call committed, and only while it is still committed.
Close(r, status, fee, f) ==
    rows' = [i \in 1 .. Len(rows) |->
               IF rows[i].request = r /\ rows[i].status = "committed"
               THEN [rows[i] EXCEPT !.status = status, !.fee = fee, !.failure = f]
               ELSE rows[i]]

\* Decided before the wait: attempts left, a free session request, no abort.
WillRetry(r, f) ==
    /\ RetryAfter(call[r], f)
    /\ attempt[r] < BROKER_MAX_ATTEMPTS
    /\ Len(rows) < MaxRequests
    /\ ~signal[r]

\* A valid reply of that computed fee; settle throws on one above the reservation.
Reply(r, fee) ==
    /\ pc[r] = "sending"
    /\ IF fee <= FeeOf[call[r].packet]
       THEN Close(r, "settled", fee, None) /\ Return(r, "answered")
       ELSE Close(r, "unknown", 0, "settlement") /\ Return(r, "denied")
    /\ UNCHANGED <<policy, context, grants>>

\* The transport or the reply's validation fails, and it is not retried.
SendFails(r, f) ==
    /\ pc[r] = "sending"
    /\ f = "cancelled" => Aborted(r)
    /\ ~WillRetry(r, f)
    /\ Close(r, IF ConfirmedAbort(f, ZeroRisk(call[r])) THEN "failed" ELSE "unknown", 0, f)
    /\ Return(r, "denied")
    /\ UNCHANGED <<policy, context, grants>>

\* A confirmed abort worth another attempt: the row stays committed meanwhile.
BackOff(r, f) ==
    /\ pc[r] = "sending"
    /\ WillRetry(r, f)
    /\ Goto(r, "backoff")
    /\ failure' = [failure EXCEPT ![r] = f]
    /\ UNCHANGED <<policy, context, grants, rows, call, attempt, signal>>

\* The timer fires: only frozen.signal is looked at, never the policy.
BackoffEnds(r) ==
    /\ pc[r] = "backoff"
    /\ ~signal[r]
    /\ Close(r, "superseded", 0, failure[r])
    /\ Goto(r, "ready")
    /\ attempt' = [attempt EXCEPT ![r] = @ + 1]
    /\ failure' = [failure EXCEPT ![r] = None]
    /\ UNCHANGED <<policy, context, grants, call, signal>>

\* Fault: the wait is not wired to the signal.
Unheard(r) == FALSE

\* The signal fires during the wait.
BackoffAborted(r) ==
    /\ pc[r] = "backoff"
    /\ signal[r]
    /\ Close(r, "failed", 0, failure[r])
    /\ Return(r, "denied")
    /\ UNCHANGED <<policy, context, grants>>

\* The host process dies: every call is lost, every row stays as it is.
Crash ==
    /\ \E r \in Requests : pc[r] \in InFlight
    /\ pc' = [r \in Requests |-> IF pc[r] \in InFlight THEN "lost" ELSE pc[r]]
    /\ call' = [r \in Requests |-> Idle]
    /\ attempt' = [r \in Requests |-> 0]
    /\ signal' = [r \in Requests |-> FALSE]
    /\ failure' = [r \in Requests |-> None]
    /\ UNCHANGED stored

Step(r) ==
    \/ \E clean \in BOOLEAN : ScanEnds(r, clean) \/ AdmissionEnds(r, clean)
    \/ Commit(r) \/ CommitRefused(r) \/ BackoffEnds(r) \/ BackoffAborted(r)
    \/ \E fee \in ReplyFees : Reply(r, fee)
    \/ \E f \in Failures : SendFails(r, f) \/ BackOff(r, f)

Host ==
    \/ \E next \in Revisions : RevisePolicy(next[1], next[2])
    \/ CancelJob
    \/ \E s \in Sources : AddSource(s)
    \/ \E g \in Grants : \/ \E p \in Packets, a \in Proposals \union {None}, u \in 1 .. MaxUses : IssueGrant(g, p, a, u)
                          \/ RevokeGrant(g) \/ ExpireGrant(g)
    \/ \E r \in Requests : \/ AbortSignal(r)
                            \/ \E p \in Packets, g \in Grants \union {None}, a \in Proposals \union {None} : Begin(r, p, g, a)

Next == Host \/ Crash \/ \E r \in Requests : Step(r)

\* Timers bound the scan, the admission, the transport and the wait; users,
\* callers and crashes are free.
Fairness == \A r \in Requests : WF_vars(Step(r))

Spec == Init /\ [][Next]_vars
FairSpec == Spec /\ Fairness

-----------------------------------------------------------------------------
(* Properties *)

TypeOK ==
    /\ policy \in Policies
    /\ context \in SUBSET Sources
    /\ grants \in [Grants -> GrantRow \union {None}]
    /\ rows \in Seq(Row)
    /\ pc \in [Requests -> {"idle"} \union InFlight \union Finished]
    /\ call \in [Requests -> Calls \union {Idle}]
    /\ \A r \in Requests : pc[r] \in InFlight => call[r] \in Calls
    /\ attempt \in [Requests -> 0 .. BROKER_MAX_ATTEMPTS]
    /\ signal \in [Requests -> BOOLEAN]
    /\ failure \in [Requests -> FailureCodes \union {None}]

\* A dispatch whose outcome is not known (committed, lost in a crash, or
\* unknown) is the last the job ever makes: commit refuses every later one.
UnresolvedIsLast ==
    \A i \in 1 .. Len(rows) : Unresolved(rows[i]) => i = Len(rows)

\* A call that is on the wire, or waiting to retry, has its own row committed
\* durably, and holds the ledger: no two calls of a job are ever both there.
InFlightHoldsItsRow ==
    \A r \in Requests : pc[r] \in {"sending", "backoff"} =>
        /\ Len(rows) > 0
        /\ rows[Len(rows)].request = r
        /\ rows[Len(rows)].status = "committed"
        /\ rows[Len(rows)].call = call[r]

\* A packet goes out again only after an abort that left nothing uncertain:
\* each earlier row of the same call was superseded on a failure that request()
\* retries, and one confirmed for that packet's risk.
ResendOnlyAfterConfirmedAbort ==
    \A i, j \in 1 .. Len(rows) :
        i < j /\ rows[i].request = rows[j].request =>
            /\ rows[i].status = "superseded"
            /\ rows[i].call = rows[j].call
            /\ RetryAfter(rows[i].call, rows[i].failure)
            /\ ConfirmedAbort(rows[i].failure, ZeroRisk(rows[i].call))

\* A grant pays for exactly as many rows as uses it lost, each for the packet,
\* context and revision the grant was issued for.
GrantCoversItsRows ==
    \A g \in Grants : grants[g] # None =>
        LET paid == {i \in 1 .. Len(rows) : rows[i].call.grant = g} IN
        /\ Cardinality(paid) + grants[g].uses = grants[g].issued
        /\ \A i \in paid : /\ rows[i].call.packet = grants[g].packet
                           /\ rows[i].call.sources = grants[g].sources
                           /\ rows[i].call.revision = grants[g].revision

\* Restricted context leaves the machine only under a grant for that very packet
\* and context; real private data never reaches a synthetic-only destination.
PrivateDisclosureGranted ==
    \A i \in 1 .. Len(rows) :
        LET c == rows[i].call
            d == DestOf[c.packet]
        IN RestrictedContext(c.sources) /\ (Kind(d) # "local_model" \/ ~Has(d, "privateDataAdmitted")) =>
             /\ \/ SyntheticContext(c.sources) /\ (Has(d, "grantFreeSynthetic") \/ Kind(d) = "local_model")
                \/ c.grant # None /\ grants[c.grant].packet = c.packet /\ grants[c.grant].sources = c.sources
             /\ Has(d, "syntheticOnly") => SyntheticContext(c.sources)

\* What was scanned and judged under one policy and context is sent only under
\* the same: nothing is committed after a cancel, a revision or a new source
\* that came while the scan, the admission or the wait to retry ran.
NoStaleDispatch ==
    [][ Len(rows') > Len(rows) =>
          LET c == rows'[Len(rows')].call IN
          /\ ~policy.cancelled
          /\ c.revision = policy.revision /\ c.sources = context
          /\ DestOf[c.packet] \in policy.dests
          /\ policy.mode = "offline" => Kind(DestOf[c.packet]) = "local_model" ]_vars

\* Every call returns unless its host dies: no wait in request() is unbounded.
EveryCallReturns == \A r \in Requests : pc[r] \in InFlight ~> pc[r] \in Finished

-----------------------------------------------------------------------------
(* The ledger implements an allowance *)

Spent == FoldLeft(LAMBDA sum, row : sum + row.fee, 0, rows)
Holding == Len(rows) > 0 /\ Unresolved(rows[Len(rows)])

Allowance == INSTANCE SpendLedger WITH
    Fees <- {FeeOf[p] : p \in Packets} \union ReplyFees,
    phase <- IF ~Holding THEN "open" ELSE IF rows[Len(rows)].status = "unknown" THEN "frozen" ELSE "holding",
    spent <- Spent,
    held <- IF Holding THEN FeeOf[rows[Len(rows)].call.packet] ELSE 0,
    used <- Len(rows)

\* Every behaviour of the ledger is one of an allowance: reservations are
\* capped, settled within what was reserved, and never released on a guess.
ImplementsAllowance == Allowance!Spec

=============================================================================
