---------------------------- MODULE MCConsultation ----------------------------
(* A small instance of Consultation for TLC. *)
EXTENDS Consultation, TLC

CONSTANTS m1, m2

Sym == Permutations(Managers)
=============================================================================
