------------------------------ MODULE MCRunClaim ------------------------------
(* A small instance of RunClaim for TLC. *)
EXTENDS RunClaim

CONSTANTS h1, h2, a, b, c

\* Up to names, the one way to spread three runs over both hosts.
MCInit == Init /\ host = [r \in Runs |-> IF r = a THEN h1 ELSE h2]

MCSpec == MCInit /\ [][Next]_vars /\ Fairness
=============================================================================
