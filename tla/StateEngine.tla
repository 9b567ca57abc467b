---------------------------- MODULE StateEngine ----------------------------
(***************************************************************************)
(* The collector's state machine, collector/pkg/state/engine.go.           *)
(*                                                                         *)
(* The engine turns a stream of Mihomo snapshots and stream-loss notices   *)
(* into events.  Every event is handed to a sink in a transaction of its   *)
(* own before the engine goes on, so a frame is not one step: this module  *)
(* has one action per section of the code between two emissions that a     *)
(* crash, or a failing sink, can separate.  `outbox` holds the events a    *)
(* section emits; the next section waits until the sink has taken them     *)
(* all.  The engine's mutex is held from the first to the last section of  *)
(* a frame, so nothing else of the engine runs in between.                 *)
(*                                                                         *)
(* The module has no Next of its own: the modules that extend it say where *)
(* frames come from and what the sink does with an event.                  *)
(***************************************************************************)
EXTENDS Connections

CONSTANTS
  MaxTombstones,    \* maxDisappearedTombstones
  PresenceInterval, \* presenceCheckpointInterval
  MinGap            \* controllerUnreachableGapMinDuration

ASSUME TombstonesAssumption == MaxTombstones \in Nat \ {0}
ASSUME PresenceAssumption == PresenceInterval \in Nat \ {0}
ASSUME MinGapAssumption == MinGap \in Nat \ {0}

VARIABLES
  epochID, frameSequence, eventSequence, sessionState,
  activeMap,        \* connection ID -> ActiveConnectionState
  tombstones,       \* connection ID -> disappearedTombstone
  tombstoneFIFO,    \* <<[id, at]>>, a pointer being named by id and frame
  prevTotal, hasEverBeenHealthy, gapIsOpen, gapStart, lastHealthyAt,
  isBootstrapFrame, createdAt, unobservedGapEmitted,
  pc,               \* the section of ProcessIngestItem that runs next
  frame,            \* the frame being processed
  todo,             \* its connections not processed yet
  unique,           \* uniqueObserved of the frame so far
  outbox            \* events emitted and not yet taken by the sink

seqVars == <<epochID, frameSequence, eventSequence>>
connVars == <<activeMap, tombstones, tombstoneFIFO>>
gapVars == <<gapIsOpen, gapStart, hasEverBeenHealthy, unobservedGapEmitted,
             createdAt>>
seenVars == <<prevTotal, lastHealthyAt, isBootstrapFrame, sessionState>>
frameVars == <<pc, frame, todo, unique>>
engineVars == <<seqVars, connVars, gapVars, seenVars, frameVars, outbox>>

-----------------------------------------------------------------------------
(* Frames and events.  `start` is the Mihomo start of the connection       *)
(* observed, `from` and `to` the attribution interval.                     *)

NoFrame == [ts |-> NoTime, conns |-> << >>, total |-> Zero, relays |-> {}]

Event(type, ts) ==
  [type |-> type, ts |-> ts, conn |-> NoConn, start |-> 0, counter |-> Zero,
   delta |-> Zero, cum |-> Zero, base |-> Zero, class |-> "none",
   from |-> NoTime, to |-> NoTime]

GapOpenedEvent(ts, from) == [Event("GapOpened", ts) EXCEPT !.from = from]
GapClosedEvent(from, to) ==
  [Event("GapClosed", to) EXCEPT !.from = from, !.to = to]
HealthEvent(ts, id) == [Event("Health", ts) EXCEPT !.conn = id]
ConnEvent(type, ts, id, st, delta) ==
  [Event(type, ts) EXCEPT !.conn = id, !.start = st.start,
     !.counter = st.last, !.delta = delta, !.cum = st.cum, !.base = st.base,
     !.class = st.class]

\* emitEvent numbers the events within the frame.
Emit(events) ==
  /\ outbox' = [i \in 1..Len(events) |->
                  [epoch |-> epochID, frame |-> frameSequence,
                   seq |-> eventSequence + i, ev |-> events[i]]]
  /\ eventSequence' = eventSequence + Len(events)

\* The sink has taken every event of the previous section.
Settled == outbox = << >>
Idle == pc = "idle" /\ Settled

-----------------------------------------------------------------------------
(* Connections and tombstones.                                             *)

Observed(id, cum, base, class) ==
  [start |-> frame.conns[id].start, meta |-> frame.conns[id].meta,
   last |-> frame.conns[id].ctr, cum |-> cum, base |-> base, class |-> class,
   observedAt |-> frame.ts, evidenceAt |-> frame.ts]

Drops_AnyVersion(map, entry) == entry.id \in DOMAIN map
\* recordDisappearedTombstone: the FIFO drops its oldest entry, and with it
\* the tombstone only if the map still holds that very tombstone.
Drops(map, entry) == entry.id \in DOMAIN map /\ map[entry.id].at = entry.at

RecordTombstone_Leaks(id) ==
  LET fifo == Append(tombstoneFIFO, [id |-> id, at |-> frameSequence])
  IN  /\ tombstoneFIFO' = IF Len(fifo) > MaxTombstones THEN Tail(fifo) ELSE fifo
      /\ tombstones' = With(tombstones, id,
                            [state |-> activeMap[id], at |-> frameSequence])

RecordTombstone(id) ==
  LET map  == With(tombstones, id, [state |-> activeMap[id], at |-> frameSequence])
      fifo == Append(tombstoneFIFO, [id |-> id, at |-> frameSequence])
      full == Len(fifo) > MaxTombstones
  IN  /\ tombstoneFIFO' = IF full THEN Tail(fifo) ELSE fifo
      /\ tombstones' = IF full /\ Drops(map, Head(fifo))
                       THEN Without(map, Head(fifo).id) ELSE map

TakeTombstone(id) ==
  tombstones' = Without(tombstones, id) /\ UNCHANGED tombstoneFIFO

ResetTombstones == tombstones' = << >> /\ tombstoneFIFO' = << >>

\* emitDeltaOrPresence: bytes give a delta, silence a checkpoint now and then.
DeltaOrPresence(prev, id, st, delta, from) ==
  IF Positive(delta)
    THEN <<[ConnEvent("Delta", frame.ts, id, st, delta) EXCEPT
              !.from = from, !.to = IF from = NoTime THEN NoTime ELSE frame.ts]>>
  ELSE IF frame.ts - prev.evidenceAt < PresenceInterval THEN << >>
  ELSE <<[Event("Presence", frame.ts) EXCEPT
            !.conn = id, !.start = st.start, !.counter = st.last]>>

Evident_EveryFrame(st, events) == [st EXCEPT !.evidenceAt = frame.ts]

\* An event that names the connection is evidence that it was present.
Evident(st, events) ==
  IF events = << >> THEN st ELSE [st EXCEPT !.evidenceAt = frame.ts]

-----------------------------------------------------------------------------
(* Items other than frames.                                                *)

GapFrom_Detection(now) == now

\* A gap begins with the last frame processed, not with the loss detected.
GapFrom(now) == IF lastHealthyAt = NoTime THEN now ELSE lastHealthyAt

GapOpened(now) ==
  /\ Idle
  /\ UNCHANGED <<epochID, frameSequence, connVars, frameVars, prevTotal,
                 lastHealthyAt, isBootstrapFrame, hasEverBeenHealthy,
                 unobservedGapEmitted, createdAt>>
  /\ IF hasEverBeenHealthy /\ ~gapIsOpen
       THEN /\ gapIsOpen' = TRUE
            /\ gapStart' = GapFrom(now)
            /\ sessionState' = "reconnect_backoff"
            /\ Emit(<<GapOpenedEvent(now, GapFrom(now))>>)
       ELSE UNCHANGED <<gapIsOpen, gapStart, sessionState, eventSequence, outbox>>

\* Collector health and queue-overload items, and EmitSessionHealth, which
\* the disk guard calls even after the worker has stopped.
CollectorHealth(now) ==
  /\ pc \in {"idle", "failed"} /\ Settled
  /\ Emit(<<HealthEvent(now, NoConn)>>)
  /\ UNCHANGED <<epochID, frameSequence, connVars, gapVars, seenVars, frameVars>>

-----------------------------------------------------------------------------
(* processFrameInternal: which sections a frame goes through.              *)

EpochBroken(total) == Below(total, prevTotal)

BeginFrame_SameNumber(f, section) ==
  /\ Idle
  /\ frameSequence' = frameSequence
  /\ frame' = f
  /\ todo' = DOMAIN f.conns
  /\ unique' = Zero
  /\ pc' = section

BeginFrame(f, section) ==
  /\ Idle
  /\ frameSequence' = frameSequence + 1
  /\ frame' = f
  /\ todo' = DOMAIN f.conns
  /\ unique' = Zero
  /\ pc' = section

\* Emission right after `frameSequence++; eventSequence = 0`.
EmitFirst(events) ==
  /\ outbox' = [i \in 1..Len(events) |->
                  [epoch |-> epochID, frame |-> frameSequence + 1,
                   seq |-> i, ev |-> events[i]]]
  /\ eventSequence' = Len(events)

BreakEvents(f) == <<Event("EpochBreak", f.ts)>>

\* The counters were reset: nothing known of the old epoch carries over.
StartNewEpoch ==
  /\ epochID' = epochID + 1
  /\ activeMap' = << >>
  /\ ResetTombstones

StartRecovery(f) ==
  /\ gapIsOpen /\ ~EpochBroken(f.total)
  /\ BeginFrame(f, "recovery")
  /\ EmitFirst(<<GapClosedEvent(gapStart, f.ts)>>)
  /\ sessionState' = "recovering"
  /\ UNCHANGED <<epochID, connVars, gapVars, prevTotal, lastHealthyAt,
                 isBootstrapFrame>>

StartEpochBreakAcrossGap(f) ==
  /\ gapIsOpen /\ EpochBroken(f.total)
  /\ BeginFrame(f, "bootstrap")
  /\ EmitFirst(<<GapClosedEvent(gapStart, f.ts)>> \o BreakEvents(f))
  /\ StartNewEpoch
  /\ gapIsOpen' = FALSE
  /\ isBootstrapFrame' = TRUE
  /\ sessionState' = "bootstrap"
  /\ UNCHANGED <<gapStart, hasEverBeenHealthy, unobservedGapEmitted, createdAt,
                 prevTotal, lastHealthyAt>>

StartEpochBreak(f) ==
  /\ ~gapIsOpen /\ ~isBootstrapFrame /\ EpochBroken(f.total)
  /\ BeginFrame(f, "bootstrap")
  /\ EmitFirst(BreakEvents(f))
  /\ StartNewEpoch
  /\ isBootstrapFrame' = TRUE
  /\ sessionState' = "bootstrap"
  /\ UNCHANGED <<gapVars, prevTotal, lastHealthyAt>>

StartBootstrap(f) ==
  /\ ~gapIsOpen /\ isBootstrapFrame
  /\ BeginFrame(f, "bootstrap")
  /\ EmitFirst(<< >>)
  /\ activeMap' = << >>
  /\ ResetTombstones
  /\ sessionState' = "bootstrap"
  /\ UNCHANGED <<epochID, gapVars, prevTotal, lastHealthyAt, isBootstrapFrame>>

StartSteady(f) ==
  /\ ~gapIsOpen /\ ~isBootstrapFrame /\ ~EpochBroken(f.total)
  /\ BeginFrame(f, "steady")
  /\ EmitFirst(<< >>)
  /\ UNCHANGED <<epochID, connVars, gapVars, seenVars>>

ProcessFrame(f) ==
  \/ StartRecovery(f)
  \/ StartEpochBreakAcrossGap(f)
  \/ StartEpochBreak(f)
  \/ StartBootstrap(f)
  \/ StartSteady(f)

-----------------------------------------------------------------------------
(* processFrameInternal: the loops over the frame's connections.           *)

InLoop(section, id) ==
  /\ pc = section /\ Settled
  /\ id \in todo
  /\ todo' = todo \ {id}
  /\ UNCHANGED <<pc, frame, epochID, frameSequence, gapVars, seenVars>>

Baseline_FromZero(id) ==
  LET st == Observed(id, Zero, Zero, InitialClass(frame.conns[id].meta))
  IN  /\ activeMap' = With(activeMap, id, st)
      /\ Emit(<<ConnEvent("Bootstrap", frame.ts, id, st, Zero)>>)
      /\ UNCHANGED <<tombstones, tombstoneFIFO, unique>>

\* A connection first seen after a (re)start or a gap: its counter is the
\* baseline, nothing of it is credited.
Baseline(id) ==
  LET st == Observed(id, Zero, frame.conns[id].ctr,
                     InitialClass(frame.conns[id].meta))
  IN  /\ activeMap' = With(activeMap, id, st)
      /\ Emit(<<ConnEvent("Bootstrap", frame.ts, id, st, Zero)>>)
      /\ UNCHANGED <<tombstones, tombstoneFIFO, unique>>

BootstrapConn(id) == InLoop("bootstrap", id) /\ Baseline(id)

RecoverBaseline(id) ==
  InLoop("recovery", id) /\ id \notin DOMAIN activeMap /\ Baseline(id)

RecoverKnown(id) ==
  /\ InLoop("recovery", id)
  /\ id \in DOMAIN activeMap
  /\ LET prev      == activeMap[id]
         ctr       == frame.conns[id].ctr
         regressed == Below(ctr, prev.last)
         delta     == IF regressed THEN Zero ELSE Monus(ctr, prev.last)
         health    == IF regressed THEN <<HealthEvent(frame.ts, id)>> ELSE << >>
         st        == [Evident(prev, health) EXCEPT
                         !.last = ctr, !.observedAt = frame.ts,
                         !.cum = Plus(@, delta)]
         traffic   == DeltaOrPresence(st, id, st, delta, gapStart)
     IN  /\ activeMap' = [activeMap EXCEPT ![id] = Evident(st, traffic)]
         /\ Emit(health \o traffic)
  /\ UNCHANGED <<tombstones, tombstoneFIFO, unique>>

Credit_Duplicates(delta, class) == unique' = Plus(unique, delta)
Credit(delta, class) ==
  unique' = IF class = Confirmed THEN unique ELSE Plus(unique, delta)

\* Metadata evolution, which precedes the counters of a known connection.
MetaEvents(id, prev) ==
  LET m == frame.conns[id].meta
  IN  (IF m.chains # prev.meta.chains THEN <<HealthEvent(frame.ts, id)>> ELSE << >>)
      \o (IF m # prev.meta
            THEN <<[Event("MetadataUpdated", frame.ts) EXCEPT !.conn = id]>>
            ELSE << >>)

SteadyRegressed(id) ==
  /\ InLoop("steady", id)
  /\ id \in DOMAIN activeMap
  /\ Below(frame.conns[id].ctr, activeMap[id].last)
  /\ LET prev   == activeMap[id]
         events == MetaEvents(id, prev) \o <<HealthEvent(frame.ts, id)>>
     IN  /\ activeMap' = [activeMap EXCEPT ![id] =
                            [Evident(prev, events) EXCEPT
                               !.meta = frame.conns[id].meta,
                               !.last = frame.conns[id].ctr]]
         /\ Emit(events)
  /\ UNCHANGED <<tombstones, tombstoneFIFO, unique>>

SteadyKnown(id) ==
  /\ InLoop("steady", id)
  /\ id \in DOMAIN activeMap
  /\ ~Below(frame.conns[id].ctr, activeMap[id].last)
  /\ LET prev    == activeMap[id]
         ctr     == frame.conns[id].ctr
         delta   == Monus(ctr, prev.last)
         class   == IF id \in frame.relays THEN Confirmed ELSE prev.class
         meta    == MetaEvents(id, prev)
         changed == IF class # prev.class
                      THEN <<[Event("RelayClassificationChanged", frame.ts)
                                EXCEPT !.conn = id, !.class = class]>>
                      ELSE << >>
         st      == [Evident(prev, meta \o changed) EXCEPT
                       !.meta = frame.conns[id].meta, !.class = class,
                       !.last = ctr, !.observedAt = frame.ts,
                       !.cum = Plus(@, delta)]
         traffic == DeltaOrPresence(st, id, st, delta, NoTime)
     IN  /\ activeMap' = [activeMap EXCEPT ![id] = Evident(st, traffic)]
         /\ Emit(meta \o changed \o traffic)
         /\ Credit(delta, class)
  /\ UNCHANGED <<tombstones, tombstoneFIFO>>

Continues_Never(id) == FALSE

\* The same connection after a flap: same ID and same Mihomo start.
Continues(id) ==
  /\ id \in DOMAIN tombstones
  /\ tombstones[id].state.start = frame.conns[id].start

ClassInFrame(id) ==
  IF id \in frame.relays THEN Confirmed ELSE InitialClass(frame.conns[id].meta)

SteadyReobserved(id) ==
  /\ InLoop("steady", id)
  /\ id \notin DOMAIN activeMap
  /\ Continues(id)
  /\ LET prev   == tombstones[id].state
         ctr    == frame.conns[id].ctr
         delta  == Monus(ctr, prev.last)
         health == IF Below(ctr, prev.last)
                     THEN <<HealthEvent(frame.ts, id)>> ELSE << >>
         st     == Observed(id, Plus(prev.cum, delta), prev.base, ClassInFrame(id))
         new    == [ConnEvent("New", frame.ts, id, st, delta) EXCEPT
                      !.from = IF Positive(delta) THEN prev.observedAt ELSE NoTime,
                      !.to = IF Positive(delta) THEN frame.ts ELSE NoTime]
     IN  /\ activeMap' = With(activeMap, id, st)
         /\ Emit(health \o <<new>>)
         /\ Credit(delta, st.class)
  /\ TakeTombstone(id)

SteadyNew(id) ==
  /\ InLoop("steady", id)
  /\ id \notin DOMAIN activeMap
  /\ ~Continues(id)
  /\ LET ctr == frame.conns[id].ctr
         st  == Observed(id, ctr, Zero, ClassInFrame(id))
     IN  /\ activeMap' = With(activeMap, id, st)
         /\ Emit(<<ConnEvent("New", frame.ts, id, st, ctr)>>)
         /\ Credit(ctr, st.class)
  /\ TakeTombstone(id)

-----------------------------------------------------------------------------
(* processFrameInternal: disappeared connections and the end of a frame.   *)

Gone == DOMAIN activeMap \ DOMAIN frame.conns

Disappear(id) ==
  /\ pc \in {"recovery", "steady"} /\ Settled /\ todo = {}
  /\ id \in Gone /\ \A other \in Gone : id <= other
  /\ Emit(<<[Event("Disappeared", frame.ts) EXCEPT
                !.conn = id, !.from = activeMap[id].observedAt,
                !.counter = activeMap[id].last]>>)
  /\ RecordTombstone(id)
  /\ activeMap' = Without(activeMap, id)
  /\ UNCHANGED <<epochID, frameSequence, gapVars, seenVars, frameVars>>

\* A frame's end: SamplingResidual and back to the queue.
EndFrame ==
  /\ Settled /\ todo = {}
  /\ prevTotal' = frame.total
  /\ lastHealthyAt' = frame.ts
  /\ pc' = "idle"
  /\ frame' = NoFrame
  /\ unique' = Zero
  /\ UNCHANGED <<todo, epochID, frameSequence, connVars, createdAt, gapStart>>

Residual_NotAfterGap(delta) ==
  IF pc = "recovery" THEN UNCHANGED <<outbox, eventSequence>>
  ELSE Emit(<<[Event("Residual", frame.ts) EXCEPT !.delta = delta, !.counter = unique]>>)

\* `delta` is the frame's global delta and `counter` what was attributed.
Residual(delta) ==
  Emit(<<[Event("Residual", frame.ts) EXCEPT !.delta = delta, !.counter = unique]>>)

EndSteady ==
  /\ pc = "steady" /\ Gone = {}
  /\ EndFrame
  /\ Residual(Monus(frame.total, prevTotal))
  /\ UNCHANGED <<gapIsOpen, hasEverBeenHealthy, unobservedGapEmitted,
                 isBootstrapFrame, sessionState>>

EndRecovery_GapStaysOpen ==
  /\ pc = "recovery" /\ Gone = {}
  /\ EndFrame
  /\ Residual(Monus(frame.total, prevTotal))
  /\ sessionState' = "healthy"
  /\ UNCHANGED <<gapIsOpen, hasEverBeenHealthy, unobservedGapEmitted,
                 isBootstrapFrame>>

EndRecovery ==
  /\ pc = "recovery" /\ Gone = {}
  /\ EndFrame
  /\ Residual(Monus(frame.total, prevTotal))
  /\ gapIsOpen' = FALSE
  /\ sessionState' = "healthy"
  /\ UNCHANGED <<hasEverBeenHealthy, unobservedGapEmitted, isBootstrapFrame>>

\* emitUnobservedIntervalGap(createdAt, end).
UnobservedGap(end) ==
  IF ~unobservedGapEmitted /\ end - createdAt >= MinGap
    THEN /\ Emit(<<GapOpenedEvent(end, createdAt), GapClosedEvent(createdAt, end)>>)
         /\ unobservedGapEmitted' = TRUE
    ELSE UNCHANGED <<outbox, eventSequence, unobservedGapEmitted>>

EndBootstrapLoop ==
  /\ pc = "bootstrap" /\ Settled /\ todo = {}
  /\ pc' = "bootstrapped"
  /\ IF hasEverBeenHealthy
       THEN UNCHANGED <<outbox, eventSequence, unobservedGapEmitted>>
       ELSE UnobservedGap(frame.ts)
  /\ prevTotal' = frame.total
  /\ lastHealthyAt' = frame.ts
  /\ UNCHANGED <<frame, todo, unique, epochID, frameSequence, connVars,
                 isBootstrapFrame, sessionState, gapIsOpen, gapStart,
                 hasEverBeenHealthy, createdAt>>

EndBootstrap ==
  /\ pc = "bootstrapped"
  /\ EndFrame
  /\ Residual(Zero)
  /\ hasEverBeenHealthy' = TRUE
  /\ isBootstrapFrame' = FALSE
  /\ sessionState' = "healthy"
  /\ UNCHANGED <<gapIsOpen, unobservedGapEmitted>>

ProcessConn ==
  \E id \in todo :
    \/ BootstrapConn(id)
    \/ RecoverBaseline(id) \/ RecoverKnown(id)
    \/ SteadyKnown(id) \/ SteadyRegressed(id)
    \/ SteadyReobserved(id) \/ SteadyNew(id)

-----------------------------------------------------------------------------
(* The sink's answer, and the end of the session.                          *)

SinkTakes == outbox # << >> /\ outbox' = Tail(outbox)

\* The sink refuses an event: the error ends the worker.  The sequence number
\* of the refused event is spent, those after it were never reached, and an
\* epoch break that was not recorded has not advanced the epoch.
SinkFails ==
  /\ outbox # << >>
  /\ outbox' = << >>
  /\ pc' = IF pc = "stopped" THEN "stopped" ELSE "failed"
  /\ eventSequence' = Head(outbox).seq
  /\ epochID' = Head(outbox).epoch
  /\ frame' = NoFrame /\ todo' = {} /\ unique' = Zero
  /\ UNCHANGED <<frameSequence, connVars, gapVars, seenVars>>

\* Collector.Run after the worker has joined: EmitUnobservedSessionGap.
Shutdown(now) ==
  /\ pc \in {"idle", "failed"} /\ Settled
  /\ pc' = "stopped"
  /\ IF hasEverBeenHealthy
       THEN UNCHANGED <<outbox, eventSequence, unobservedGapEmitted>>
       ELSE UnobservedGap(now)
  /\ UNCHANGED <<frame, todo, unique, epochID, frameSequence, connVars, seenVars,
                 gapIsOpen, gapStart, hasEverBeenHealthy, createdAt>>

-----------------------------------------------------------------------------
\* NewStateEngine, with `section` "idle".
EngineInit(section, now) ==
  /\ epochID = 1 /\ frameSequence = 0 /\ eventSequence = 0
  /\ activeMap = << >> /\ tombstones = << >> /\ tombstoneFIFO = << >>
  /\ gapIsOpen = FALSE /\ gapStart = NoTime /\ hasEverBeenHealthy = FALSE
  /\ unobservedGapEmitted = FALSE /\ createdAt = now
  /\ prevTotal = Zero /\ lastHealthyAt = NoTime
  /\ isBootstrapFrame = TRUE /\ sessionState = "starting"
  /\ pc = section /\ frame = NoFrame /\ todo = {} /\ unique = Zero
  /\ outbox = << >>

\* The same of the next state: a new engine replaces the one there was.
EngineReplaced(section, now) ==
  /\ epochID' = 1 /\ frameSequence' = 0 /\ eventSequence' = 0
  /\ activeMap' = << >> /\ tombstones' = << >> /\ tombstoneFIFO' = << >>
  /\ gapIsOpen' = FALSE /\ gapStart' = NoTime /\ hasEverBeenHealthy' = FALSE
  /\ unobservedGapEmitted' = FALSE /\ createdAt' = now
  /\ prevTotal' = Zero /\ lastHealthyAt' = NoTime
  /\ isBootstrapFrame' = TRUE /\ sessionState' = "starting"
  /\ pc' = section /\ frame' = NoFrame /\ todo' = {} /\ unique' = Zero
  /\ outbox' = << >>
=============================================================================
