---------------------------- MODULE Connections ----------------------------
(***************************************************************************)
(* The data every part of the collector passes on, types/types.go:         *)
(* connections by ID, byte counters by direction, metadata and chains.     *)
(***************************************************************************)
EXTENDS Integers, Sequences, FiniteSets

CONSTANTS
  Conn,   \* connection IDs; numbers, as the code sorts them
  Dir,    \* traffic directions: upload, download
  Meta    \* metadata, rule and chains: records [chains, ident]

ASSUME ConnAssumption == Conn \subseteq Nat \ {0}

NoTime == 0   \* Go's zero time
NoConn == 0   \* an event that names no connection

Counter == [Dir -> Nat]
Zero == [d \in Dir |-> 0]
Plus(f, g) == [d \in Dir |-> f[d] + g[d]]
Monus_Unclamped(f, g) == [d \in Dir |-> f[d] - g[d]]
Monus(f, g) == [d \in Dir |-> IF f[d] < g[d] THEN 0 ELSE f[d] - g[d]]
Positive(f) == \E d \in Dir : f[d] > 0
Below(f, g) == \E d \in Dir : f[d] < g[d]

\* Go maps keyed by connection ID.
Without(f, id) == [x \in DOMAIN f \ {id} |-> f[x]]
With(f, id, v) == [x \in DOMAIN f \cup {id} |-> IF x = id THEN v ELSE f[x]]

\* ClassifyInitialAttribution: "both" names process and rule, "none" neither.
InitialClass(m) ==
  IF m.ident = "both" THEN "known_application"
  ELSE IF m.ident = "none" /\ m.chains # "no_chains" THEN "relay_candidate"
  ELSE "unpaired_missing_attribution"

Confirmed == "confirmed_relay_duplicate"

\* types.AttributionClass.
Class == {"known_application", "unpaired_missing_attribution",
          "relay_candidate", Confirmed}

\* PerformFrameRelayDeduplication confirms a relay candidate only with an
\* application connection of its own; which pairs match by structure and
\* traffic is left open.
RelayChoices(snapshot) ==
  LET of(class) ==
        {id \in DOMAIN snapshot : InitialClass(snapshot[id].meta) = class}
  IN  {R \in SUBSET of("relay_candidate") :
         Cardinality(R) <= Cardinality(of("known_application"))}
=============================================================================
