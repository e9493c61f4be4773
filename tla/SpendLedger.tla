----------------------------- MODULE SpendLedger -----------------------------
(***************************************************************************)
(* What the dispatch ledger promises about money, whatever the broker, the *)
(* callers and the network do: an allowance of fees and of requests, at    *)
(* most one reservation open at a time, and a reservation whose outcome is *)
(* unknown held for good, so that nothing is ever sent after it.           *)
(***************************************************************************)
EXTENDS Naturals

CONSTANTS MaxFee, MaxRequests, Fees

AllowanceAssumption == MaxFee \in Nat /\ MaxRequests \in Nat /\ Fees \subseteq Nat

VARIABLES
    phase,  \* "open", "holding" a reservation, or "frozen" on one
    spent,  \* fees settled
    held,   \* the fee reserved
    used    \* requests committed

allowance == <<phase, spent, held, used>>

Init == phase = "open" /\ spent = 0 /\ held = 0 /\ used = 0

Reserve(fee) ==
    /\ phase = "open"
    /\ used < MaxRequests
    /\ spent + fee <= MaxFee
    /\ phase' = "holding" /\ held' = fee /\ used' = used + 1
    /\ UNCHANGED spent

\* The reply costs at most what was reserved; an aborted attempt costs nothing.
Settle(fee) ==
    /\ phase = "holding"
    /\ fee <= held
    /\ phase' = "open" /\ held' = 0 /\ spent' = spent + fee
    /\ UNCHANGED used

Freeze ==
    /\ phase = "holding"
    /\ phase' = "frozen"
    /\ UNCHANGED <<spent, held, used>>

Next ==
    \/ \E fee \in Fees : Reserve(fee) \/ Settle(fee)
    \/ Settle(0)
    \/ Freeze

Spec == Init /\ [][Next]_allowance

-----------------------------------------------------------------------------
(* Properties *)

TypeOK ==
    /\ phase \in {"open", "holding", "frozen"}
    /\ spent \in Nat /\ held \in Nat /\ used \in Nat

\* The job never spends, nor could come to owe, more than its allowance, and
\* never commits more requests than it has: commit's exposure test.
WithinAllowance == spent + held <= MaxFee /\ used <= MaxRequests

\* A reservation of unknown outcome is never released or spent over.
FrozenForGood == [][phase = "frozen" => UNCHANGED allowance]_allowance

=============================================================================
