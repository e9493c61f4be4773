--------------------------- MODULE MCDispatchLedger ---------------------------
(* Small instances of DispatchLedger for TLC. *)
EXTENDS DispatchLedger, TLC

CONSTANTS local, flash, consultant, claude, synth

\* The destinations the runtime and the headless arms construct.
MCProfile == [d \in Destinations |->
    CASE d = local -> [kind |-> "local_model", flags |-> {"recoverable", "privateDataAdmitted", "loopback"}]
      [] d = flash -> [kind |-> "local_model", flags |-> {"recoverable", "privateDataAdmitted", "tokenAdmission", "loopback"}]
      [] d = consultant -> [kind |-> "cloud_model", flags |-> {"requireExactGrant", "syntheticOnly"}]
      [] d = claude -> [kind |-> "cloud_model", flags |-> {"anthropic"}]
      [] OTHER -> [kind |-> "cloud_model", flags |-> {"anthropic", "syntheticOnly", "grantFreeSynthetic"}]]

\* One packet per destination, named after it.
MCDestOf == [p \in Packets |-> p]
MCFeeOf == [p \in Packets |-> IF Profile[p].kind = "cloud_model" THEN 2 ELSE 0]

\* Cloud help switched off, and the first destinations kept.
MCRevisions == {<<"private", Destinations>>}

Sym == Permutations(Requests) \union Permutations(Grants)

CONSTANTS page, draft, sample, r1, r2, g1, g2, yes

MCClass == [s \in Sources |->
    CASE s = page -> "public" [] s = draft -> "private" [] OTHER -> "synthetic"]
=============================================================================
