---------------------------- MODULE RunClaimProofs ----------------------------
(***************************************************************************)
(* One owner per context, no container behind a free claim and one         *)
(* completion, for any set of hosts and runs.                              *)
(***************************************************************************)
EXTENDS RunClaim, TLAPS

-----------------------------------------------------------------------------
(* The inductive invariant *)

\* What a claim that is not free says about its owner's run.
ClaimTellsOwner ==
    claim # None =>
        /\ claim.state = "active" => claim.pid = host[claim.owner]
        /\ claim.state = "active" /\ up[claim.pid] # "up" => pc[claim.owner] \in Ended
        /\ claim.state = "cleanup_required" => pc[claim.owner] \in Ended
        /\ pc[claim.owner] # "idle"

\* Whoever is about to recover has seen the end of the run it takes over from.
PriorHasEnded ==
    \A r \in Runs : pc[r] = "taking" => prior[r] \in Runs /\ pc[prior[r]] \in Ended

WorkersAreUp == \A r \in Runs : pc[r] \in Working => up[host[r]] = "up"

\* What holds on the way to a completion.
NotYetCompleted ==
    \A r \in Runs :
        /\ pc[r] \in {"idle", "endpoint", "taking", "orphans", "owning", "looping"} => ~pending[r]
        /\ pc[r] = "looping" => completed = {}
        /\ pc[r] \in {"closing", "ending"} /\ pending[r] => completed = {}
        /\ pc[r] \in {"ending", "releasing"} /\ cleaned[r] => containers = {}

IInv ==
    /\ TypeOK /\ OwnerNeverRobbed /\ FreeMeansClean /\ CompletedForGood
    /\ ClaimTellsOwner /\ PriorHasEnded /\ WorkersAreUp /\ NotYetCompleted

LEMMA InitIInv == Init => IInv
BY ClaimAssumption DEF Init, IInv, TypeOK, OwnerNeverRobbed, FreeMeansClean, CompletedForGood,
   ClaimTellsOwner, PriorHasEnded, WorkersAreUp, NotYetCompleted, Free, State, Owning, Working,
     Ended

LEMMA BeginKept ==
    ASSUME IInv, NEW r \in Runs, Begin(r)
    PROVE  IInv'
<1>. USE ClaimAssumption
     DEF IInv, TypeOK, Claim, Owning, Working, Ended, State, Free, Goto, locals, Begin,
     OwnerConfirmedDead
<1>1. TypeOK' /\ OwnerNeverRobbed' /\ FreeMeansClean' /\ CompletedForGood' /\ ClaimTellsOwner'
     /\ WorkersAreUp' /\ NotYetCompleted'
  BY DEF OwnerNeverRobbed, FreeMeansClean, CompletedForGood, ClaimTellsOwner, WorkersAreUp,
     NotYetCompleted
<1>2. PriorHasEnded'
  BY DEF ClaimTellsOwner, PriorHasEnded
<1>3. QED
  BY <1>1, <1>2

\* No run owns a free claim: the one that takes it does so alone.
LEMMA AcquireKept ==
    ASSUME IInv, NEW r \in Runs, Acquire(r)
    PROVE  IInv'
<1>. USE ClaimAssumption
     DEF IInv, TypeOK, Claim, Owning, Working, Ended, State, Free, Goto, locals, Acquire, AcquireRun
<1>1. TypeOK' /\ OwnerNeverRobbed' /\ FreeMeansClean' /\ CompletedForGood' /\ PriorHasEnded'
     /\ WorkersAreUp' /\ NotYetCompleted'
  BY DEF OwnerNeverRobbed, FreeMeansClean, CompletedForGood, PriorHasEnded, WorkersAreUp,
     NotYetCompleted
<1>2. ClaimTellsOwner'
  BY DEF ClaimTellsOwner, WorkersAreUp
<1>3. QED
  BY <1>1, <1>2

\* The owner a recovery names has ended, so no run loses what it owns.
LEMMA RecoverKept ==
    ASSUME IInv, NEW r \in Runs, Recover(r)
    PROVE  IInv'
<1>. USE ClaimAssumption
     DEF IInv, TypeOK, Claim, Owning, Working, Ended, State, Free, Goto, locals, Recover,
     AcquireRecovery
<1>1. TypeOK' /\ FreeMeansClean' /\ CompletedForGood' /\ PriorHasEnded' /\ WorkersAreUp'
     /\ NotYetCompleted'
  BY DEF FreeMeansClean, CompletedForGood, PriorHasEnded, WorkersAreUp, NotYetCompleted
<1>2. OwnerNeverRobbed'
  BY DEF OwnerNeverRobbed, ClaimTellsOwner, PriorHasEnded
<1>3. ClaimTellsOwner'
  BY DEF ClaimTellsOwner, WorkersAreUp
<1>4. QED
  BY <1>1, <1>2, <1>3

\* A claim is released only when the clean-up left nothing.
LEMMA OrphansEndKept ==
    ASSUME IInv, NEW r \in Runs, NEW ok \in BOOLEAN, OrphansEnd(r, ok)
    PROVE  IInv'
BY ClaimAssumption
DEF IInv, TypeOK, Claim, Owning, Working, Ended, State, Free, Goto, locals, OrphansEnd, ReleaseRun,
    OwnerNeverRobbed, FreeMeansClean, CompletedForGood, ClaimTellsOwner, PriorHasEnded,
    WorkersAreUp, NotYetCompleted

LEMMA RefuseKept ==
    ASSUME IInv, NEW r \in Runs, Refuse(r)
    PROVE  IInv'
BY ClaimAssumption
DEF IInv, TypeOK, Claim, Owning, Working, Ended, State, Free, Goto, locals, Refuse,
    OwnerNeverRobbed, FreeMeansClean, CompletedForGood, ClaimTellsOwner, PriorHasEnded,
    WorkersAreUp, NotYetCompleted

\* Only the owner creates containers, and only while nothing is completed.
LEMMA CreateKept ==
    ASSUME IInv, NEW r \in Runs, NEW ok \in BOOLEAN, Create(r, ok)
    PROVE  IInv'
<1>. USE ClaimAssumption
     DEF IInv, TypeOK, Claim, Owning, Working, Ended, State, Free, Goto, locals, Create, MayCreate
<1>1. TypeOK' /\ OwnerNeverRobbed' /\ ClaimTellsOwner' /\ PriorHasEnded' /\ WorkersAreUp'
  BY DEF OwnerNeverRobbed, ClaimTellsOwner, PriorHasEnded, WorkersAreUp
<1>2. FreeMeansClean'
  BY DEF OwnerNeverRobbed, FreeMeansClean
<1>3. CompletedForGood'
  BY DEF CompletedForGood, NotYetCompleted
<1>4. NotYetCompleted'
  BY DEF OwnerNeverRobbed, NotYetCompleted
<1>5. QED
  BY <1>1, <1>2, <1>3, <1>4

LEMMA CloseSandboxKept ==
    ASSUME IInv, NEW r \in Runs, CloseSandbox(r)
    PROVE  IInv'
BY ClaimAssumption
DEF IInv, TypeOK, Claim, Owning, Working, Ended, State, Free, Goto, locals, CloseSandbox,
    OwnerNeverRobbed, FreeMeansClean, CompletedForGood, ClaimTellsOwner, PriorHasEnded,
    WorkersAreUp, NotYetCompleted

LEMMA LoopEndsKept ==
    ASSUME IInv, NEW r \in Runs, NEW ok \in BOOLEAN, LoopEnds(r, ok)
    PROVE  IInv'
BY ClaimAssumption
DEF IInv, TypeOK, Claim, Owning, Working, Ended, State, Free, Goto, locals, LoopEnds,
    OwnerNeverRobbed, FreeMeansClean, CompletedForGood, ClaimTellsOwner, PriorHasEnded,
    WorkersAreUp, NotYetCompleted

LEMMA CleanupEndsKept ==
    ASSUME IInv, NEW r \in Runs, NEW ok \in BOOLEAN, CleanupEnds(r, ok)
    PROVE  IInv'
BY ClaimAssumption
DEF IInv, TypeOK, Claim, Owning, Working, Ended, State, Free, Goto, locals, CleanupEnds,
    OwnerNeverRobbed, FreeMeansClean, CompletedForGood, ClaimTellsOwner, PriorHasEnded,
    WorkersAreUp, NotYetCompleted

\* A completion follows the clean-up of the only run that owns the claim.
LEMMA CompleteKept ==
    ASSUME IInv, NEW r \in Runs, Complete(r)
    PROVE  IInv'
<1>. USE ClaimAssumption
     DEF IInv, TypeOK, Claim, Owning, Working, Ended, State, Free, Goto, locals, Complete,
     MayComplete
<1>1. TypeOK' /\ OwnerNeverRobbed' /\ FreeMeansClean' /\ ClaimTellsOwner' /\ PriorHasEnded'
     /\ WorkersAreUp'
  BY DEF OwnerNeverRobbed, FreeMeansClean, ClaimTellsOwner, PriorHasEnded, WorkersAreUp
<1>2. CompletedForGood'
  BY DEF CompletedForGood, NotYetCompleted
<1>3. NotYetCompleted'
  BY DEF OwnerNeverRobbed, NotYetCompleted
<1>4. QED
  BY <1>1, <1>2, <1>3

\* What a run released as clean, it had cleaned.
LEMMA ReleaseKept ==
    ASSUME IInv, NEW r \in Runs, Release(r)
    PROVE  IInv'
<1>. USE ClaimAssumption
     DEF IInv, TypeOK, Claim, Owning, Working, Ended, State, Free, Goto, locals, Release, ReleaseRun
<1>1. TypeOK' /\ OwnerNeverRobbed' /\ CompletedForGood' /\ ClaimTellsOwner' /\ PriorHasEnded'
     /\ WorkersAreUp' /\ NotYetCompleted'
  BY DEF OwnerNeverRobbed, CompletedForGood, ClaimTellsOwner, PriorHasEnded, WorkersAreUp,
     NotYetCompleted
<1>2. FreeMeansClean'
  BY DEF FreeMeansClean, NotYetCompleted
<1>3. QED
  BY <1>1, <1>2

LEMMA RecordFailsKept ==
    ASSUME IInv, NEW r \in Runs, RecordFails(r)
    PROVE  IInv'
BY ClaimAssumption
DEF IInv, TypeOK, Claim, Owning, Working, Ended, State, Free, Goto, locals, RecordFails,
    OwnerNeverRobbed, FreeMeansClean, CompletedForGood, ClaimTellsOwner, PriorHasEnded,
    WorkersAreUp, NotYetCompleted

LEMMA CancelJobKept ==
    ASSUME IInv, CancelJob
    PROVE  IInv'
BY ClaimAssumption
DEF IInv, TypeOK, Claim, Owning, Working, Ended, State, Free, Goto, locals, CancelJob,
    OwnerNeverRobbed, FreeMeansClean, CompletedForGood, ClaimTellsOwner, PriorHasEnded,
    WorkersAreUp, NotYetCompleted

\* A dead host's run is lost, which is what a recovery goes by.
LEMMA DieKept ==
    ASSUME IInv, NEW h \in Hosts, Die(h)
    PROVE  IInv'
BY ClaimAssumption
DEF IInv, TypeOK, Claim, Owning, Working, Ended, State, Free, Goto, locals, Die,
    OwnerNeverRobbed, FreeMeansClean, CompletedForGood, ClaimTellsOwner, PriorHasEnded,
    WorkersAreUp, NotYetCompleted

LEMMA PidReusedKept ==
    ASSUME IInv, NEW h \in Hosts, PidReused(h)
    PROVE  IInv'
BY ClaimAssumption
DEF IInv, TypeOK, Claim, Owning, Working, Ended, State, Free, Goto, locals, PidReused,
    OwnerNeverRobbed, FreeMeansClean, CompletedForGood, ClaimTellsOwner, PriorHasEnded,
    WorkersAreUp, NotYetCompleted

-----------------------------------------------------------------------------
(* The theorems *)

LEMMA NextIInv == IInv /\ [Next]_vars => IInv'
<1>. SUFFICES ASSUME IInv, [Next]_vars PROVE IInv'
  OBVIOUS
<1>1. ASSUME NEW r \in Runs, Begin(r) \/ CloseSandbox(r) \/ \E ok \in BOOLEAN : Create(r, ok)
      PROVE  IInv'
  BY <1>1, BeginKept, CloseSandboxKept, CreateKept
<1>2. ASSUME NEW r \in Runs, Progress(r) PROVE IInv'
  BY <1>2, AcquireKept, RecoverKept, RefuseKept, CompleteKept, ReleaseKept, RecordFailsKept,
     OrphansEndKept, LoopEndsKept, CleanupEndsKept DEF Progress
<1>3. ASSUME CancelJob \/ \E h \in Hosts : Die(h) \/ PidReused(h) PROVE IInv'
  BY <1>3, CancelJobKept, DieKept, PidReusedKept
<1>4. CASE UNCHANGED vars
  BY <1>4 DEF vars, IInv, TypeOK, OwnerNeverRobbed, FreeMeansClean, CompletedForGood,
     ClaimTellsOwner,
     PriorHasEnded, WorkersAreUp, NotYetCompleted, Free, State
<1>5. QED
  BY <1>1, <1>2, <1>3, <1>4 DEF Next

LEMMA AlwaysIInv == Spec => []IInv
BY InitIInv, NextIInv, PTL DEF Spec

\* While a run has not given its claim up, no other run and no clean-up has it,
\* whichever processes died or had their pids reused.
THEOREM ClaimKept == Spec => []OwnerNeverRobbed
BY AlwaysIInv, PTL DEF IInv

\* A free claim leaves no container of the context behind.
THEOREM NothingLeftBehind == Spec => []FreeMeansClean
BY AlwaysIInv, PTL DEF IInv

\* A context completes at most once, with its containers gone.
THEOREM CompletionIsLast == Spec => []CompletedForGood
BY AlwaysIInv, PTL DEF IInv
=============================================================================
