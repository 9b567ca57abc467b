--------------------------- MODULE MCObservation ---------------------------
(* Small instances of Observation for TLC. *)
EXTENDS Observation

App == [ident |-> "both", chains |-> "node_a"]
AppElsewhere == [ident |-> "both", chains |-> "node_b"]

OneApp == {App}
TwoRoutes == {App, AppElsewhere}
=============================================================================
