----------------------------- MODULE BudgetLedger -----------------------------
(***************************************************************************)
(* The paid-review budget: one campaign, and for each session at most one  *)
(* reservation ever and at most one terminal row that answers it.          *)
(***************************************************************************)
EXTENDS Integers, FiniteSetsExt

CONSTANTS
    Sessions,
    Opening, AutomaticStop, HardCeiling,  \* the campaign's exposures
    EpisodeCap,                           \* what one session may cost
    Amounts                               \* what a request may be projected at, or cost

VARIABLE rows

NoRow == [state |-> "none", reserved |-> 0, amount |-> 0]

\* An unanswered reservation counts in full, an answered one for its terminal row.
Held(row) == IF row.state = "reserved" THEN row.reserved ELSE row.amount

Exposure(r) == Opening + MapThenSumSet(LAMBDA s : Held(r[s]), Sessions)

Overrun(r) == \E s \in Sessions : r[s].state = "overrun"

\* Fault: open reservations do not count against the campaign.
DenialOnceAnswered(r, s, cost) ==
    LET answered == MapThenSumSet(LAMBDA x : r[x].amount, Sessions) IN
    IF Overrun(r) THEN "campaign_overrun"
    ELSE IF Held(r[s]) + cost > EpisodeCap THEN "episode_cap"
    ELSE IF Opening + answered + cost > HardCeiling THEN "campaign_hard_ceiling"
    ELSE "none"

\* The first reason, in the order the transaction tests them, or "none".
Denial(r, s, cost) ==
    IF Overrun(r) THEN "campaign_overrun"
    ELSE IF Held(r[s]) + cost > EpisodeCap THEN "episode_cap"
    ELSE IF Exposure(r) + cost > HardCeiling THEN "campaign_hard_ceiling"
    ELSE IF Exposure(r) + cost > AutomaticStop THEN "campaign_automatic_stop"
    ELSE "none"

Reserved(r, s, cost) ==
    [r EXCEPT ![s] = [state |-> "reserved", reserved |-> cost, amount |-> 0]]

\* What a finish turns the reservation into.
TerminalState(row, amount, disposition) ==
    IF disposition = "not_sent" THEN "released"
    ELSE IF amount > row.reserved THEN "overrun"
    ELSE "settled"

Resolved(r, s, amount, disposition) ==
    [r EXCEPT ![s].state = TerminalState(r[s], amount, disposition), ![s].amount = amount]

Init == rows = [s \in Sessions |-> NoRow]

Reserve(s, cost) ==
    /\ rows[s].state = "none"
    /\ cost > 0
    /\ Denial(rows, s, cost) = "none"
    /\ rows' = Reserved(rows, s, cost)

Resolve(s, amount, disposition) ==
    /\ rows[s].state = "reserved"
    /\ disposition = "not_sent" => amount = 0
    /\ rows' = Resolved(rows, s, amount, disposition)

Next ==
    \E s \in Sessions, amount \in Amounts :
        \/ Reserve(s, amount)
        \/ \E disposition \in {"not_sent", "sent", "unknown"} : Resolve(s, amount, disposition)

Spec == Init /\ [][Next]_rows

-----------------------------------------------------------------------------
(* Properties *)

\* The campaign never owes more than its automatic stop but for a provider that charged
\* more than was reserved, which is recorded as an overrun.
WithinCampaign == Exposure(rows) <= AutomaticStop \/ Overrun(rows)

=============================================================================
