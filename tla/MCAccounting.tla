--------------------------- MODULE MCAccounting ---------------------------
(* Instances of Accounting for TLC. *)
EXTENDS Accounting

\* Relay candidates differ by nothing but their identity.
Candidates == Permutations(Relay)
=============================================================================
