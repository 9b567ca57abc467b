---------------------------- MODULE MCCollector ----------------------------
(* Small instances of Collector for TLC. *)
EXTENDS Collector

OneApp == {[ident |-> "both", chains |-> "node_a"]}
AppAndRelay == OneApp \cup {[ident |-> "none", chains |-> "node_a"]}
=============================================================================
