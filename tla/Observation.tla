---------------------------- MODULE Observation ----------------------------
(***************************************************************************)
(* One collector session: Mihomo, the ordered queue's items, the state     *)
(* engine and a sink that either keeps an event or refuses it.             *)
(*                                                                         *)
(* Besides the program's state the module keeps what an auditor of the     *)
(* journal would compute from the kept events alone, so that the           *)
(* properties compare the engine with its own durable record and with      *)
(* Mihomo.                                                                 *)
(*                                                                         *)
(* Mihomo and the clock move only between two frames: a snapshot is a copy *)
(* and the engine reads neither while it works on one.  The queue is FIFO, *)
(* so processing an item when it is captured loses no behaviour.           *)
(***************************************************************************)
EXTENDS StateEngine, Mihomo

CONSTANTS MaxTime, MaxFrames, MaxSeq, Anomalies

ASSUME LimitsAssumption == /\ MaxTime \in Nat /\ MaxFrames \in Nat
                           /\ MaxSeq \in Nat /\ Anomalies \in BOOLEAN

VARIABLES
  clock,
  cursor,     \* <<epoch, frame, seq>> of the last event kept
  credited,   \* connection ID -> bytes of the deltas kept, per incarnation
  blurred,    \* incarnations whose counters went backwards or whose
              \* tombstone was evicted
  evidence,   \* connection ID -> time of the last event kept that names it
  seen,       \* the last two frames completed, and the stream lost in between
  gap,        \* the last gap kept
  refused     \* the sink refused an event

auditVars == <<cursor, credited, evidence, gap>>
vars == <<engineVars, mihomoVars, clock, auditVars, blurred, seen, refused>>

-----------------------------------------------------------------------------
(* The world between two items.                                            *)

Quiet == Idle /\ UNCHANGED <<engineVars, auditVars, seen, refused>>

Tick ==
  /\ Quiet /\ clock < MaxTime /\ clock' = clock + 1
  /\ UNCHANGED <<mihomoVars, blurred>>

\* IDs are random UUIDs: one is not used again while the engine still has it.
MihomoOpens == \E id \in Conn \ DOMAIN activeMap, m \in Meta : Open(id, m)

MihomoMoves ==
  /\ Quiet /\ UNCHANGED <<clock, blurred>>
  /\ \/ MihomoOpens
     \/ \E id \in Conn, d \in Dir : Carry(id, d)
     \/ \E id \in Conn, m \in Meta : Reroute(id, m)
     \/ \E id \in Conn : Shut(id)
     \/ Restart

\* A reading below an earlier one, which Mihomo is not expected to give.
CounterAnomaly ==
  /\ Quiet /\ Anomalies
  /\ \E id \in LiveConns, d \in Dir :
       /\ conns[id].ctr[d] > 0
       /\ conns' = [conns EXCEPT ![id].ctr[d] = @ - 1]
       /\ blurred' = blurred \cup {<<id, conns[id].start>>}
  /\ UNCHANGED <<total, clock>>

-----------------------------------------------------------------------------
(* Items.                                                                  *)

WorldStays == UNCHANGED <<mihomoVars, clock>>

StreamLost ==
  /\ GapOpened(clock)
  /\ seen' = [seen EXCEPT !.lost = TRUE]
  /\ WorldStays /\ UNCHANGED <<auditVars, blurred, refused>>

Health ==
  /\ eventSequence < MaxSeq
  /\ CollectorHealth(clock)
  /\ WorldStays /\ UNCHANGED <<auditVars, blurred, seen, refused>>

FrameArrives ==
  /\ frameSequence < MaxFrames
  /\ \E missing \in SUBSET LiveConns :
       LET snapshot == Snapshot(missing)
       IN  \E R \in RelayChoices(snapshot) :
             ProcessFrame([ts |-> clock, conns |-> snapshot, total |-> total,
                           relays |-> R])
  /\ WorldStays /\ UNCHANGED <<auditVars, blurred, seen, refused>>

FrameProceeds ==
  /\ ProcessConn \/ EndSteady \/ EndRecovery \/ EndBootstrapLoop \/ EndBootstrap
  /\ WorldStays /\ UNCHANGED <<auditVars, blurred, seen, refused>>

\* A tombstone the FIFO gives up loses the continuity of its connection.
ConnDisappears ==
  /\ \E id \in DOMAIN activeMap : Disappear(id)
  /\ blurred' = blurred \cup {<<x, tombstones[x].state.start>> :
                               x \in DOMAIN tombstones \ DOMAIN tombstones'}
  /\ WorldStays /\ UNCHANGED <<auditVars, seen, refused>>

-----------------------------------------------------------------------------
(* The sink.                                                               *)

Credits(e) == e.type \in {"Delta", "New", "Bootstrap"}

Account(e) ==
  LET c == credited[e.conn]
      bytes == IF c.start = e.start THEN Plus(c.bytes, e.delta) ELSE e.delta
  IN  credited' =
        IF ~Credits(e) THEN credited
        ELSE [credited EXCEPT ![e.conn] = [start |-> e.start, bytes |-> bytes]]

GapKept(e) ==
  CASE e.type = "GapOpened" -> [open |-> TRUE, from |-> e.from, to |-> NoTime]
    [] e.type = "GapClosed" -> [open |-> FALSE, from |-> e.from, to |-> e.to]
    [] OTHER -> gap

SeenFrame(e) ==
  [prev |-> seen.last, last |-> e.ts, first |-> FALSE, lost |-> FALSE,
   silent |-> IF seen.first THEN e.ts - createdAt >= MinGap ELSE seen.lost]

SinkKeeps ==
  /\ SinkTakes
  /\ LET e == Head(outbox).ev
     IN  /\ cursor' = <<Head(outbox).epoch, Head(outbox).frame, Head(outbox).seq>>
         /\ Account(e)
         /\ gap' = GapKept(e)
         /\ evidence' = IF e.conn = NoConn THEN evidence
                        ELSE [evidence EXCEPT ![e.conn] = e.ts]
         /\ seen' = IF e.type = "Residual" THEN SeenFrame(e) ELSE seen
  /\ WorldStays
  /\ UNCHANGED <<seqVars, connVars, gapVars, seenVars, frameVars, blurred, refused>>

SinkRefuses ==
  /\ SinkFails /\ ~refused
  /\ refused' = TRUE
  /\ WorldStays /\ UNCHANGED <<auditVars, blurred, seen>>

SessionEnds ==
  /\ Shutdown(clock)
  /\ WorldStays /\ UNCHANGED <<auditVars, blurred, seen, refused>>

\* A session that has stopped does nothing more.
Stopped == pc = "stopped" /\ Settled /\ UNCHANGED vars

-----------------------------------------------------------------------------
Init ==
  /\ MihomoInit
  /\ clock = 1
  /\ EngineInit("idle", 1)
  /\ cursor = <<0, 0, 0>>
  /\ credited = [id \in Conn |-> [start |-> 0, bytes |-> Zero]]
  /\ blurred = {}
  /\ evidence = [id \in Conn |-> NoTime]
  /\ seen = [prev |-> NoTime, last |-> 1, first |-> TRUE, lost |-> FALSE,
             silent |-> FALSE]
  /\ gap = [open |-> FALSE, from |-> NoTime, to |-> NoTime]
  /\ refused = FALSE

Next ==
  \/ Tick \/ MihomoMoves \/ CounterAnomaly
  \/ StreamLost \/ Health \/ FrameArrives \/ FrameProceeds \/ ConnDisappears
  \/ SinkKeeps \/ SinkRefuses \/ SessionEnds \/ Stopped

Spec == Init /\ [][Next]_vars

-----------------------------------------------------------------------------
(* Properties.                                                             *)

ConnState == [start : Nat, meta : Meta, last : Counter, cum : Counter,
              base : Counter, class : Class, observedAt : Nat, evidenceAt : Nat]
FrameConn == [start : Nat, ctr : Counter, meta : Meta]

\* The engine's state is always of its declared types (engine.go 83-108).
TypeOK ==
  /\ epochID \in Nat /\ frameSequence \in Nat /\ eventSequence \in Nat
  /\ DOMAIN activeMap \subseteq Conn
  /\ \A id \in DOMAIN activeMap : activeMap[id] \in ConnState
  /\ DOMAIN tombstones \subseteq Conn
  /\ \A id \in DOMAIN tombstones : tombstones[id] \in [state : ConnState, at : Nat]
  /\ tombstoneFIFO \in Seq([id : Conn, at : Nat])
  /\ prevTotal \in Counter /\ unique \in Counter
  /\ lastHealthyAt \in Nat /\ gapStart \in Nat /\ createdAt \in Nat
  /\ gapIsOpen \in BOOLEAN /\ hasEverBeenHealthy \in BOOLEAN
  /\ pc \in {"idle", "bootstrap", "bootstrapped", "recovery", "steady",
             "failed", "stopped"}
  /\ todo \subseteq Conn

\* Bytes of one Mihomo connection are credited at most once: over flaps,
\* stream losses and recoveries, the deltas kept for an incarnation never
\* exceed what it carried, unless its counter went backwards or its tombstone
\* was evicted (engine.go 819-863, 505-567).
NoDoubleCount ==
  \A id \in Conn :
    LET c == credited[id]
    IN  (c.start = conns[id].start /\ <<id, c.start>> \notin blurred)
          => \A d \in Dir : c.bytes[d] <= conns[id].ctr[d]

\* What the engine holds of a connection adds up: baseline plus monitored
\* bytes is the last counter read, for active connections and tombstones
\* alike (engine.go 510-567, 818-1160).
CounterConservation ==
  LET AddsUp(id, st) ==
        <<id, st.start>> \in blurred \/ Plus(st.base, st.cum) = st.last
  IN  /\ \A id \in DOMAIN activeMap : AddsUp(id, activeMap[id])
      /\ \A id \in DOMAIN tombstones : AddsUp(id, tombstones[id].state)

\* The tombstone map never outgrows the FIFO that bounds it: each tombstone
\* has its own entry there and so will be evicted in its turn
\* (engine.go 71-74, 145-160).
TombstonesBounded ==
  /\ Len(tombstoneFIFO) <= MaxTombstones
  /\ \A id \in DOMAIN tombstones :
       \E i \in 1..Len(tombstoneFIFO) :
         tombstoneFIFO[i] = [id |-> id, at |-> tombstones[id].at]

\* A stale FIFO entry never evicts a newer tombstone of the same connection:
\* an entry of the current frame still has its tombstone (engine.go 145-159).
FreshTombstoneHeld ==
  \A i \in 1..Len(tombstoneFIFO) :
    tombstoneFIFO[i].at = frameSequence =>
      /\ tombstoneFIFO[i].id \in DOMAIN tombstones
      /\ tombstones[tombstoneFIFO[i].id].at = frameSequence

\* After a complete frame every active connection has an event on record that
\* is younger than the presence interval (engine.go 208-214, 271-309).
PresenceEvidence ==
  (Idle /\ frameSequence > 0) =>
    \A id \in DOMAIN activeMap :
      lastHealthyAt - evidence[id] < PresenceInterval

\* Time in which the controller could not be observed is on record as a closed
\* gap, from the last completed frame (or the engine's creation) to the next
\* one (or the session's end), whichever path the frame took
\* (engine.go 317-354, 434-503, 783-791, 257-269).
GapCoversSilence ==
  /\ (Idle /\ seen.silent) =>
       gap = [open |-> gap.open, from |-> seen.prev, to |-> seen.last]
       \/ gap.open
  /\ (pc = "stopped" /\ Settled /\ ~hasEverBeenHealthy /\ ~refused
        /\ clock - createdAt >= MinGap)
       => gap = [open |-> FALSE, from |-> createdAt, to |-> clock]
=============================================================================
