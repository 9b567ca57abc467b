------------------------- MODULE ObservationProofs -------------------------
(***************************************************************************)
(* What TLAPS proves of one collector session (module Observation), for    *)
(* every set of connections and directions, every bound and every queue of *)
(* items: the types of the engine's state, the bound on its tombstones,    *)
(* the books it keeps of a connection's bytes, and what an auditor reads   *)
(* in the journal.                                                         *)
(***************************************************************************)
EXTENDS Observation, TLAPS

-----------------------------------------------------------------------------
(* Type correctness.  TypeOK speaks of the engine alone; it is preserved   *)
(* because the frame at hand, the events waiting for the sink and Mihomo   *)
(* itself are of their types too.                                          *)

EventKind ==
  {"Bootstrap", "New", "Delta", "Presence", "MetadataUpdated", "Disappeared",
   "RelayClassificationChanged", "Residual", "EpochBreak", "GapOpened",
   "GapClosed", "Health"}
EventType ==
  [type : EventKind, ts : Nat, conn : Nat, start : Nat, counter : Counter,
   delta : Counter, cum : Counter, base : Counter, class : Class \cup {"none"},
   from : Nat, to : Nat]
QueuedType == [epoch : Nat, frame : Nat, seq : Nat, ev : EventType]

FrameTypeOK ==
  /\ frame.ts \in Nat /\ frame.total \in Counter
  /\ DOMAIN frame.conns \subseteq Conn
  /\ \A id \in DOMAIN frame.conns : frame.conns[id] \in FrameConn
  /\ todo \subseteq DOMAIN frame.conns

WorldTypeOK ==
  /\ conns \in [Conn -> [live : BOOLEAN, start : Nat, ctr : Counter, meta : Meta]]
  /\ total \in Counter /\ clock \in Nat

TypeInv ==
  /\ TypeOK /\ FrameTypeOK /\ WorldTypeOK
  /\ outbox \in Seq(QueuedType)

-----------------------------------------------------------------------------
(* Counters and maps.                                                      *)

LEMMA CounterTypes ==
  /\ Zero \in Counter
  /\ \A f, g \in Counter : Plus(f, g) \in Counter /\ Monus(f, g) \in Counter
BY DEF Counter, Zero, Plus, Monus

\* Where a counter has not gone backwards, adding the difference to the old
\* reading gives the new one, and so it does to any split of the old reading.
LEMMA PlusMonus ==
  ASSUME NEW f \in Counter, NEW g \in Counter, NEW b \in Counter,
         NEW c \in Counter, ~Below(g, f), Plus(b, c) = f
  PROVE  Plus(b, Plus(c, Monus(g, f))) = g
<1>1. ASSUME NEW d \in Dir PROVE b[d] + (c[d] + Monus(g, f)[d]) = g[d]
  <2>1. b[d] + c[d] = f[d]
    BY DEF Plus
  <2>2. Monus(g, f)[d] = g[d] - f[d]
    BY DEF Below, Monus, Counter
  <2>. QED BY <2>1, <2>2 DEF Counter
<1>2. Plus(b, Plus(c, Monus(g, f))) = [d \in Dir |-> g[d]]
  BY <1>1 DEF Plus
<1>. QED BY <1>2 DEF Counter

LEMMA EmitTypes ==
  ASSUME NEW events \in Seq(EventType), epochID \in Nat, frameSequence \in Nat,
         eventSequence \in Nat, Emit(events)
  PROVE  outbox' \in Seq(QueuedType) /\ eventSequence' \in Nat
BY DEF Emit, QueuedType

LEMMA EmitFirstTypes ==
  ASSUME NEW events \in Seq(EventType), epochID \in Nat, frameSequence \in Nat,
         EmitFirst(events)
  PROVE  outbox' \in Seq(QueuedType) /\ eventSequence' \in Nat
BY DEF EmitFirst, QueuedType

LEMMA InitType == Init => TypeInv
<1>. SUFFICES ASSUME Init PROVE TypeInv
  OBVIOUS
<1>1. conns \in [Conn -> [live : BOOLEAN, start : Nat, ctr : Counter, meta : Meta]]
  <2>. DEFINE zero == [d \in Dir |-> 0]
              shut == [live : {FALSE}, start : {0}, ctr : {zero}, meta : Meta]
              known == [live : BOOLEAN, start : Nat, ctr : Counter, meta : Meta]
  <2>1. zero \in Counter
    BY DEF Counter
  <2>. HIDE DEF zero
  <2>2. ASSUME NEW c \in shut PROVE c \in known
    <3>1. PICK m \in Meta : c = [live |-> FALSE, start |-> 0, ctr |-> zero,
                                meta |-> m]
      OBVIOUS
    <3>. QED BY <2>1, <3>1
  <2>3. conns \in [Conn -> shut]
    BY DEF Init, MihomoInit, zero
  <2>. HIDE DEF shut, known
  <2>4. conns \in [Conn -> known]
    BY <2>2, <2>3
  <2>. QED BY <2>4 DEF known
<1>2. WorldTypeOK
  BY <1>1 DEF Init, MihomoInit, WorldTypeOK, Counter
<1>3. DOMAIN << >> = {} /\ << >> \in Seq([id : Conn, at : Nat])
  OBVIOUS
<1>4. TypeOK
  BY <1>3, CounterTypes DEF Init, EngineInit, TypeOK, NoTime
<1>5. FrameTypeOK
  BY <1>3, CounterTypes DEF Init, EngineInit, FrameTypeOK, NoFrame, NoTime
<1>6. outbox \in Seq(QueuedType)
  BY DEF Init, EngineInit
<1>. QED BY <1>2, <1>4, <1>5, <1>6 DEF TypeInv

-----------------------------------------------------------------------------
(* What the sections build: connections, events, maps of connections.      *)

EngineTypeInv == TypeOK /\ FrameTypeOK /\ outbox \in Seq(QueuedType)

LEMMA ClassTypes ==
  /\ \A m : InitialClass(m) \in Class
  /\ \A id : ClassInFrame(id) \in Class
BY DEF InitialClass, ClassInFrame, Class, Confirmed

LEMMA ObservedType ==
  ASSUME TypeInv, NEW id \in todo, NEW cum \in Counter, NEW base \in Counter,
         NEW class \in Class
  PROVE  /\ Observed(id, cum, base, class) \in ConnState
         /\ Observed(id, cum, base, class).start = frame.conns[id].start
         /\ Observed(id, cum, base, class).last = frame.conns[id].ctr
         /\ Observed(id, cum, base, class).cum = cum
         /\ Observed(id, cum, base, class).base = base
<1>1. frame.conns[id] \in FrameConn /\ frame.ts \in Nat
  BY DEF TypeInv, FrameTypeOK
<1>. QED BY <1>1 DEF Observed, ConnState, FrameConn

LEMMA EventTypes ==
  ASSUME NEW type \in EventKind, NEW ts \in Nat
  PROVE  /\ Event(type, ts) \in EventType
         /\ \A from \in Nat : GapOpenedEvent(ts, from) \in EventType
         /\ \A from \in Nat : GapClosedEvent(from, ts) \in EventType
         /\ \A id \in Nat : HealthEvent(ts, id) \in EventType
         /\ \A id \in Nat, st \in ConnState, delta \in Counter :
              ConnEvent(type, ts, id, st, delta) \in EventType
<1>. DEFINE bare(t) ==
       [type |-> t, ts |-> ts, conn |-> NoConn, start |-> 0, counter |-> Zero,
        delta |-> Zero, cum |-> Zero, base |-> Zero, class |-> "none",
        from |-> NoTime, to |-> NoTime]
<1>1. \A t \in EventKind : bare(t) \in EventType
  BY CounterTypes DEF EventType, NoConn, NoTime
<1>2. \A t \in EventKind : Event(t, ts) \in EventType
  BY <1>1 DEF Event
<1>. HIDE DEF bare
<1>3. \A e \in EventType, from, to \in Nat :
        /\ [e EXCEPT !.from = from] \in EventType
        /\ [e EXCEPT !.from = from, !.to = to] \in EventType
        /\ [e EXCEPT !.conn = from] \in EventType
  BY DEF EventType
<1>4. \A e \in EventType, id \in Nat, st \in ConnState, delta \in Counter :
        [e EXCEPT !.conn = id, !.start = st.start, !.counter = st.last,
                  !.delta = delta, !.cum = st.cum, !.base = st.base,
                  !.class = st.class] \in EventType
  <2>. TAKE e \in EventType, id \in Nat, st \in ConnState, delta \in Counter
  <2>1. /\ st.start \in Nat /\ st.class \in Class
        /\ st.last \in Counter /\ st.cum \in Counter /\ st.base \in Counter
    BY DEF ConnState
  <2>2. [e EXCEPT !.conn = id, !.start = st.start, !.counter = st.last,
                  !.delta = delta] \in EventType
    BY <2>1 DEF EventType
  <2>3. \A f \in EventType :
          [f EXCEPT !.cum = st.cum, !.base = st.base, !.class = st.class] \in EventType
    BY <2>1 DEF EventType
  <2>. QED BY <2>2, <2>3
<1>5. \A from \in Nat : GapOpenedEvent(ts, from) \in EventType
  BY <1>2, <1>3 DEF GapOpenedEvent, EventKind
<1>6. \A from \in Nat : GapClosedEvent(from, ts) \in EventType
  BY <1>2, <1>3 DEF GapClosedEvent, EventKind
<1>7. \A id \in Nat : HealthEvent(ts, id) \in EventType
  BY <1>2, <1>3 DEF HealthEvent, EventKind
<1>8. \A id \in Nat, st \in ConnState, delta \in Counter :
        ConnEvent(type, ts, id, st, delta) \in EventType
  BY <1>2, <1>4 DEF ConnEvent
<1>. QED BY <1>2, <1>5, <1>6, <1>7, <1>8

LEMMA EventSequences ==
  /\ << >> \in Seq(EventType)
  /\ \A e \in EventType : <<e>> \in Seq(EventType)
  /\ \A r, s \in Seq(EventType) : r \o s \in Seq(EventType)
OBVIOUS

LEMMA MetaEventsType ==
  ASSUME TypeInv, NEW id \in todo, NEW prev
  PROVE  MetaEvents(id, prev) \in Seq(EventType)
<1>1. id \in Nat /\ frame.ts \in Nat
  BY ConnAssumption DEF TypeInv, TypeOK, FrameTypeOK
<1>2. HealthEvent(frame.ts, id) \in EventType
  BY <1>1, EventTypes DEF EventKind
<1>3. [Event("MetadataUpdated", frame.ts) EXCEPT !.conn = id] \in EventType
  <2>1. Event("MetadataUpdated", frame.ts) \in EventType
    BY <1>1, EventTypes DEF EventKind
  <2>. QED BY <1>1, <2>1 DEF EventType
<1>. QED BY <1>2, <1>3, EventSequences DEF MetaEvents

LEMMA DeltaOrPresenceType ==
  ASSUME TypeInv, NEW id \in todo, NEW prev \in ConnState, NEW st \in ConnState,
         NEW delta \in Counter, NEW from \in Nat
  PROVE  DeltaOrPresence(prev, id, st, delta, from) \in Seq(EventType)
<1>1. id \in Nat /\ frame.ts \in Nat
  BY ConnAssumption DEF TypeInv, TypeOK, FrameTypeOK
<1>. DEFINE end == IF from = NoTime THEN NoTime ELSE frame.ts
            bytes == ConnEvent("Delta", frame.ts, id, st, delta)
            bare == Event("Presence", frame.ts)
<1>2. [bytes EXCEPT !.from = from, !.to = end] \in EventType
  <2>1. bytes \in EventType
    BY <1>1, EventTypes DEF EventKind
  <2>. HIDE DEF bytes
  <2>. QED BY <1>1, <2>1 DEF EventType, NoTime
<1>3. [bare EXCEPT !.conn = id, !.start = st.start, !.counter = st.last]
        \in EventType
  <2>1. bare \in EventType
    BY <1>1, EventTypes DEF EventKind
  <2>. HIDE DEF bare
  <2>. QED BY <1>1, <2>1 DEF EventType, ConnState
<1>. HIDE DEF end, bytes, bare
<1>4. DeltaOrPresence(prev, id, st, delta, from)
        \in {<<[bytes EXCEPT !.from = from, !.to = end]>>, << >>,
             <<[bare EXCEPT !.conn = id, !.start = st.start, !.counter = st.last]>>}
  BY DEF DeltaOrPresence, end, bytes, bare
<1>. QED BY <1>2, <1>3, <1>4, EventSequences

LEMMA EvidentType ==
  ASSUME TypeInv, NEW st \in ConnState, NEW events
  PROVE  /\ Evident(st, events) \in ConnState
         /\ Evident(st, events).start = st.start
         /\ Evident(st, events).last = st.last
         /\ Evident(st, events).cum = st.cum
         /\ Evident(st, events).base = st.base
BY DEF Evident, ConnState, TypeInv, FrameTypeOK

-----------------------------------------------------------------------------
(* Each section of a frame preserves the types.                            *)

\* The loops over a frame's connections touch the maps, the events and the
\* frame's unique bytes.
LEMMA LoopType ==
  ASSUME TypeInv, NEW section, NEW id, InLoop(section, id),
         DOMAIN activeMap' \subseteq Conn,
         \A x \in DOMAIN activeMap' : activeMap'[x] \in ConnState,
         DOMAIN tombstones' \subseteq DOMAIN tombstones,
         \A x \in DOMAIN tombstones' : tombstones'[x] = tombstones[x],
         tombstoneFIFO' = tombstoneFIFO,
         unique' \in Counter, eventSequence' \in Nat, outbox' \in Seq(QueuedType)
  PROVE  EngineTypeInv'
<1>1. TypeOK'
  BY DEF TypeInv, TypeOK, InLoop, gapVars, seenVars
<1>2. FrameTypeOK'
  BY DEF TypeInv, FrameTypeOK, InLoop
<1>. QED BY <1>1, <1>2 DEF EngineTypeInv

LEMMA WithType ==
  ASSUME NEW f, NEW S, NEW T, NEW id \in S, NEW v \in T, DOMAIN f \subseteq S,
         \A x \in DOMAIN f : f[x] \in T
  PROVE  /\ DOMAIN With(f, id, v) \subseteq S
         /\ \A x \in DOMAIN With(f, id, v) : With(f, id, v)[x] \in T
BY DEF With

LEMMA BaselineType ==
  ASSUME TypeInv, NEW section, NEW id, InLoop(section, id), Baseline(id)
  PROVE  EngineTypeInv'
<1>1. id \in todo /\ id \in Conn /\ id \in Nat /\ frame.ts \in Nat
  BY ConnAssumption DEF InLoop, TypeInv, TypeOK, FrameTypeOK
<1>2. frame.conns[id].ctr \in Counter
  BY <1>1 DEF TypeInv, FrameTypeOK, FrameConn
<1>. DEFINE st == Observed(id, Zero, frame.conns[id].ctr,
                           InitialClass(frame.conns[id].meta))
            event == ConnEvent("Bootstrap", frame.ts, id, st, Zero)
<1>3. st \in ConnState
  BY <1>1, <1>2, ClassTypes, CounterTypes, ObservedType
<1>4. event \in EventType
  BY <1>1, <1>3, CounterTypes, EventTypes DEF EventKind
<1>5. activeMap' = With(activeMap, id, st) /\ Emit(<<event>>)
  BY DEF Baseline
<1>. HIDE DEF st, event
<1>6. eventSequence' \in Nat /\ outbox' \in Seq(QueuedType)
  BY <1>4, <1>5, EventSequences, EmitTypes DEF TypeInv, TypeOK
<1>7. /\ DOMAIN activeMap' \subseteq Conn
      /\ \A x \in DOMAIN activeMap' : activeMap'[x] \in ConnState
  BY <1>1, <1>3, <1>5, WithType DEF TypeInv, TypeOK
<1>8. UNCHANGED <<tombstones, tombstoneFIFO, unique>> /\ unique \in Counter
  BY DEF Baseline, TypeInv, TypeOK
<1>. QED BY <1>6, <1>7, <1>8, LoopType

LEMMA RecoverKnownType ==
  ASSUME TypeInv, NEW id, RecoverKnown(id)
  PROVE  EngineTypeInv'
<1>. DEFINE prev == activeMap[id]
            ctr == frame.conns[id].ctr
            regressed == Below(ctr, prev.last)
            delta == IF regressed THEN Zero ELSE Monus(ctr, prev.last)
            health == IF regressed THEN <<HealthEvent(frame.ts, id)>> ELSE << >>
            seenBefore == Evident(prev, health)
            st == [seenBefore EXCEPT !.last = ctr, !.observedAt = frame.ts,
                                     !.cum = Plus(@, delta)]
            traffic == DeltaOrPresence(st, id, st, delta, gapStart)
<1>1. id \in todo /\ id \in DOMAIN activeMap /\ id \in Conn /\ id \in Nat
      /\ frame.ts \in Nat /\ gapStart \in Nat
  BY ConnAssumption DEF RecoverKnown, InLoop, TypeInv, TypeOK, FrameTypeOK
<1>2. ctr \in Counter /\ prev \in ConnState /\ prev.last \in Counter
  BY <1>1 DEF TypeInv, TypeOK, FrameTypeOK, FrameConn, ConnState
<1>3. delta \in Counter
  BY <1>2, CounterTypes
<1>4. health \in Seq(EventType)
  BY <1>1, EventTypes, EventSequences DEF EventKind
<1>5. seenBefore \in ConnState
  BY <1>2, EvidentType
<1>6. activeMap' = [activeMap EXCEPT ![id] = Evident(st, traffic)]
      /\ Emit(health \o traffic) /\ InLoop("recovery", id)
      /\ UNCHANGED <<tombstones, tombstoneFIFO, unique>>
  BY DEF RecoverKnown
<1>. HIDE DEF prev, ctr, delta, health, seenBefore
<1>7. st \in ConnState
  <2>1. seenBefore.cum \in Counter /\ Plus(seenBefore.cum, delta) \in Counter
    BY <1>3, <1>5, CounterTypes DEF ConnState
  <2>. QED BY <1>1, <1>2, <1>5, <2>1 DEF ConnState
<1>. HIDE DEF st
<1>8. traffic \in Seq(EventType)
  BY <1>1, <1>3, <1>7, DeltaOrPresenceType
<1>. HIDE DEF traffic
<1>9. eventSequence' \in Nat /\ outbox' \in Seq(QueuedType)
  <2>1. health \o traffic \in Seq(EventType)
    BY <1>4, <1>8, EventSequences
  <2>. QED BY <1>6, <2>1, EmitTypes DEF TypeInv, TypeOK
<1>10. /\ DOMAIN activeMap' \subseteq Conn
       /\ \A x \in DOMAIN activeMap' : activeMap'[x] \in ConnState
  BY <1>6, <1>7, EvidentType DEF TypeInv, TypeOK
<1>11. unique \in Counter
  BY DEF TypeInv, TypeOK
<1>. QED BY <1>6, <1>9, <1>10, <1>11, LoopType

LEMMA SteadyRegressedType ==
  ASSUME TypeInv, NEW id, SteadyRegressed(id)
  PROVE  EngineTypeInv'
<1>. DEFINE prev == activeMap[id]
            events == MetaEvents(id, prev) \o <<HealthEvent(frame.ts, id)>>
            seenBefore == Evident(prev, events)
            st == [seenBefore EXCEPT !.meta = frame.conns[id].meta,
                                     !.last = frame.conns[id].ctr]
<1>1. id \in todo /\ id \in DOMAIN activeMap /\ id \in Conn /\ id \in Nat
      /\ frame.ts \in Nat
  BY ConnAssumption DEF SteadyRegressed, InLoop, TypeInv, TypeOK, FrameTypeOK
<1>2. activeMap' = [activeMap EXCEPT ![id] = st] /\ Emit(events)
      /\ InLoop("steady", id) /\ UNCHANGED <<tombstones, tombstoneFIFO, unique>>
  BY DEF SteadyRegressed
<1>3. events \in Seq(EventType)
  BY <1>1, MetaEventsType, EventTypes, EventSequences DEF EventKind
<1>4. prev \in ConnState /\ frame.conns[id] \in FrameConn
  BY <1>1 DEF TypeInv, TypeOK, FrameTypeOK
<1>5. seenBefore \in ConnState
  BY <1>4, EvidentType
<1>. HIDE DEF prev, events, seenBefore
<1>6. st \in ConnState
  BY <1>4, <1>5 DEF ConnState, FrameConn
<1>. HIDE DEF st
<1>7. eventSequence' \in Nat /\ outbox' \in Seq(QueuedType)
  BY <1>2, <1>3, EmitTypes DEF TypeInv, TypeOK
<1>8. /\ DOMAIN activeMap' \subseteq Conn
      /\ \A x \in DOMAIN activeMap' : activeMap'[x] \in ConnState
  BY <1>2, <1>6 DEF TypeInv, TypeOK
<1>9. unique \in Counter
  BY DEF TypeInv, TypeOK
<1>. QED BY <1>2, <1>7, <1>8, <1>9, LoopType

LEMMA CreditType ==
  ASSUME TypeInv, NEW delta \in Counter, NEW class, Credit(delta, class)
  PROVE  unique' \in Counter
BY CounterTypes DEF Credit, TypeInv, TypeOK

LEMMA SteadyKnownType ==
  ASSUME TypeInv, NEW id, SteadyKnown(id)
  PROVE  EngineTypeInv'
<1>. DEFINE prev == activeMap[id]
            ctr == frame.conns[id].ctr
            delta == Monus(ctr, prev.last)
            class == IF id \in frame.relays THEN Confirmed ELSE prev.class
            meta == MetaEvents(id, prev)
            note == [Event("RelayClassificationChanged", frame.ts) EXCEPT
                       !.conn = id, !.class = class]
            changed == IF class # prev.class THEN <<note>> ELSE << >>
            seenBefore == Evident(prev, meta \o changed)
            st == [seenBefore EXCEPT
                     !.meta = frame.conns[id].meta, !.class = class,
                     !.last = ctr, !.observedAt = frame.ts,
                     !.cum = Plus(@, delta)]
            traffic == DeltaOrPresence(st, id, st, delta, NoTime)
<1>1. id \in todo /\ id \in DOMAIN activeMap /\ id \in Conn /\ id \in Nat
      /\ frame.ts \in Nat
  BY ConnAssumption DEF SteadyKnown, InLoop, TypeInv, TypeOK, FrameTypeOK
<1>2. /\ prev \in ConnState /\ prev.last \in Counter /\ prev.class \in Class
      /\ ctr \in Counter /\ frame.conns[id].meta \in Meta
  BY <1>1 DEF TypeInv, TypeOK, FrameTypeOK, FrameConn, ConnState
<1>3. delta \in Counter /\ class \in Class
  BY <1>2, CounterTypes DEF Class
<1>4. /\ activeMap' = [activeMap EXCEPT ![id] = Evident(st, traffic)]
      /\ Emit(meta \o changed \o traffic) /\ Credit(delta, class)
      /\ InLoop("steady", id) /\ UNCHANGED <<tombstones, tombstoneFIFO>>
  BY DEF SteadyKnown
<1>5. meta \in Seq(EventType)
  BY <1>1, MetaEventsType
<1>6. changed \in Seq(EventType)
  <2>. DEFINE bare == Event("RelayClassificationChanged", frame.ts)
  <2>1. bare \in EventType
    BY <1>1, EventTypes DEF EventKind
  <2>. HIDE DEF bare, class
  <2>2. [bare EXCEPT !.conn = id, !.class = class] \in EventType
    BY <1>1, <1>3, <2>1 DEF EventType
  <2>. QED BY <2>2, EventSequences DEF bare
<1>7. seenBefore \in ConnState
  BY <1>2, EvidentType
<1>. HIDE DEF prev, ctr, delta, class, meta, changed, seenBefore
<1>8. st \in ConnState
  <2>1. Plus(seenBefore.cum, delta) \in Counter
    BY <1>3, <1>7, CounterTypes DEF ConnState
  <2>. QED BY <1>1, <1>2, <1>3, <1>7, <2>1 DEF ConnState
<1>. HIDE DEF st
<1>9. traffic \in Seq(EventType)
  BY <1>1, <1>3, <1>8, DeltaOrPresenceType DEF NoTime
<1>. HIDE DEF traffic
<1>10. eventSequence' \in Nat /\ outbox' \in Seq(QueuedType)
  <2>1. meta \o changed \o traffic \in Seq(EventType)
    BY <1>5, <1>6, <1>9, EventSequences
  <2>. QED BY <1>4, <2>1, EmitTypes DEF TypeInv, TypeOK
<1>11. /\ DOMAIN activeMap' \subseteq Conn
       /\ \A x \in DOMAIN activeMap' : activeMap'[x] \in ConnState
  BY <1>4, <1>8, EvidentType DEF TypeInv, TypeOK
<1>12. unique' \in Counter
  BY <1>3, <1>4, CreditType
<1>. QED BY <1>4, <1>10, <1>11, <1>12, LoopType

LEMMA SteadyReobservedType ==
  ASSUME TypeInv, NEW id, SteadyReobserved(id)
  PROVE  EngineTypeInv'
<1>. DEFINE prev == tombstones[id].state
            ctr == frame.conns[id].ctr
            delta == Monus(ctr, prev.last)
            health == IF Below(ctr, prev.last)
                        THEN <<HealthEvent(frame.ts, id)>> ELSE << >>
            st == Observed(id, Plus(prev.cum, delta), prev.base, ClassInFrame(id))
            bare == ConnEvent("New", frame.ts, id, st, delta)
            from == IF Positive(delta) THEN prev.observedAt ELSE NoTime
            to == IF Positive(delta) THEN frame.ts ELSE NoTime
            new == [bare EXCEPT !.from = from, !.to = to]
<1>1. id \in todo /\ id \in DOMAIN tombstones /\ id \in Conn /\ id \in Nat
      /\ frame.ts \in Nat
  BY ConnAssumption DEF SteadyReobserved, Continues, InLoop, TypeInv, TypeOK,
     FrameTypeOK
<1>2. prev \in ConnState /\ ctr \in Counter
  BY <1>1 DEF TypeInv, TypeOK, FrameTypeOK, FrameConn
<1>3. /\ prev.last \in Counter /\ prev.cum \in Counter /\ prev.base \in Counter
      /\ prev.observedAt \in Nat
  BY <1>2 DEF ConnState
<1>4. delta \in Counter /\ Plus(prev.cum, delta) \in Counter
  BY <1>2, <1>3, CounterTypes
<1>5. st \in ConnState
  BY <1>1, <1>3, <1>4, ClassTypes, ObservedType
<1>6. activeMap' = With(activeMap, id, st) /\ Emit(health \o <<new>>)
      /\ Credit(delta, st.class) /\ InLoop("steady", id) /\ TakeTombstone(id)
  BY DEF SteadyReobserved
<1>7. health \in Seq(EventType)
  BY <1>1, EventTypes, EventSequences DEF EventKind
<1>8. from \in Nat /\ to \in Nat
  BY <1>1, <1>3 DEF NoTime
<1>. HIDE DEF prev, ctr, delta, st, health, from, to
<1>9. bare \in EventType
  BY <1>1, <1>4, <1>5, EventTypes DEF EventKind
<1>. HIDE DEF bare
<1>10. new \in EventType
  BY <1>8, <1>9 DEF EventType
<1>. HIDE DEF new
<1>11. eventSequence' \in Nat /\ outbox' \in Seq(QueuedType)
  <2>1. health \o <<new>> \in Seq(EventType)
    BY <1>7, <1>10, EventSequences
  <2>. QED BY <1>6, <2>1, EmitTypes DEF TypeInv, TypeOK
<1>12. /\ DOMAIN activeMap' \subseteq Conn
       /\ \A x \in DOMAIN activeMap' : activeMap'[x] \in ConnState
  BY <1>1, <1>5, <1>6, WithType DEF TypeInv, TypeOK
<1>13. unique' \in Counter
  BY <1>4, <1>6, CreditType
<1>14. /\ DOMAIN tombstones' \subseteq DOMAIN tombstones
       /\ \A x \in DOMAIN tombstones' : tombstones'[x] = tombstones[x]
       /\ tombstoneFIFO' = tombstoneFIFO
  BY <1>6 DEF TakeTombstone, Without
<1>. QED BY <1>6, <1>11, <1>12, <1>13, <1>14, LoopType

LEMMA SteadyNewType ==
  ASSUME TypeInv, NEW id, SteadyNew(id)
  PROVE  EngineTypeInv'
<1>. DEFINE ctr == frame.conns[id].ctr
            st == Observed(id, ctr, Zero, ClassInFrame(id))
            new == ConnEvent("New", frame.ts, id, st, ctr)
<1>1. id \in todo /\ id \in Conn /\ id \in Nat /\ frame.ts \in Nat
  BY ConnAssumption DEF SteadyNew, InLoop, TypeInv, TypeOK, FrameTypeOK
<1>2. ctr \in Counter
  BY <1>1 DEF TypeInv, FrameTypeOK, FrameConn
<1>3. st \in ConnState
  BY <1>1, <1>2, ClassTypes, CounterTypes, ObservedType
<1>4. activeMap' = With(activeMap, id, st) /\ Emit(<<new>>)
      /\ Credit(ctr, st.class) /\ InLoop("steady", id) /\ TakeTombstone(id)
  BY DEF SteadyNew
<1>. HIDE DEF ctr, st
<1>5. new \in EventType
  BY <1>1, <1>2, <1>3, EventTypes DEF EventKind
<1>. HIDE DEF new
<1>6. eventSequence' \in Nat /\ outbox' \in Seq(QueuedType)
  BY <1>4, <1>5, EventSequences, EmitTypes DEF TypeInv, TypeOK
<1>7. /\ DOMAIN activeMap' \subseteq Conn
      /\ \A x \in DOMAIN activeMap' : activeMap'[x] \in ConnState
  BY <1>1, <1>3, <1>4, WithType DEF TypeInv, TypeOK
<1>8. unique' \in Counter
  BY <1>2, <1>4, CreditType
<1>9. /\ DOMAIN tombstones' \subseteq DOMAIN tombstones
      /\ \A x \in DOMAIN tombstones' : tombstones'[x] = tombstones[x]
      /\ tombstoneFIFO' = tombstoneFIFO
  BY <1>4 DEF TakeTombstone, Without
<1>. QED BY <1>4, <1>6, <1>7, <1>8, <1>9, LoopType

Tombstone == [state : ConnState, at : Nat]
TombstoneEntry == [id : Conn, at : Nat]

LEMMA TombstoneTypes ==
  ASSUME TypeInv, NEW id \in DOMAIN activeMap, RecordTombstone(id)
  PROVE  /\ tombstoneFIFO' \in Seq(TombstoneEntry)
         /\ DOMAIN tombstones' \subseteq Conn
         /\ \A x \in DOMAIN tombstones' : tombstones'[x] \in Tombstone
<1>. DEFINE new == [state |-> activeMap[id], at |-> frameSequence]
            entry == [id |-> id, at |-> frameSequence]
            map == With(tombstones, id, new)
            fifo == Append(tombstoneFIFO, entry)
            full == Len(fifo) > MaxTombstones
<1>1. id \in Conn /\ activeMap[id] \in ConnState /\ frameSequence \in Nat
  BY DEF TypeInv, TypeOK
<1>2. new \in Tombstone /\ entry \in TombstoneEntry
  BY <1>1 DEF Tombstone, TombstoneEntry
<1>3. /\ tombstoneFIFO' = IF full THEN Tail(fifo) ELSE fifo
      /\ tombstones' = IF full /\ Drops(map, Head(fifo))
                       THEN Without(map, Head(fifo).id) ELSE map
  BY DEF RecordTombstone
<1>4. /\ tombstoneFIFO \in Seq(TombstoneEntry)
      /\ DOMAIN tombstones \subseteq Conn
      /\ \A x \in DOMAIN tombstones : tombstones[x] \in Tombstone
  BY DEF TypeInv, TypeOK, Tombstone, TombstoneEntry
<1>. HIDE DEF new, entry
<1>5. fifo \in Seq(TombstoneEntry) /\ fifo # << >>
  BY <1>2, <1>4
<1>6. DOMAIN map \subseteq Conn /\ \A x \in DOMAIN map : map[x] \in Tombstone
  BY <1>1, <1>2, <1>4, WithType
<1>. HIDE DEF map, fifo, full
<1>7. tombstoneFIFO' \in Seq(TombstoneEntry)
  BY <1>3, <1>5
<1>8. /\ DOMAIN tombstones' \subseteq Conn
      /\ \A x \in DOMAIN tombstones' : tombstones'[x] \in Tombstone
  BY <1>3, <1>6 DEF Without
<1>. QED BY <1>7, <1>8

LEMMA DisappearType ==
  ASSUME TypeInv, NEW id \in DOMAIN activeMap, Disappear(id)
  PROVE  EngineTypeInv'
<1>. DEFINE bare == Event("Disappeared", frame.ts)
            gone == [bare EXCEPT !.conn = id, !.from = activeMap[id].observedAt,
                                 !.counter = activeMap[id].last]
<1>1. id \in Conn /\ id \in Nat /\ activeMap[id] \in ConnState /\ frame.ts \in Nat
  BY ConnAssumption DEF TypeInv, TypeOK, FrameTypeOK
<1>2. Emit(<<gone>>) /\ RecordTombstone(id) /\ activeMap' = Without(activeMap, id)
      /\ UNCHANGED <<epochID, frameSequence, gapVars, seenVars, frameVars>>
  BY DEF Disappear
<1>3. bare \in EventType
  BY <1>1, EventTypes DEF EventKind
<1>. HIDE DEF bare
<1>4. gone \in EventType
  BY <1>1, <1>3 DEF EventType, ConnState
<1>. HIDE DEF gone
<1>5. eventSequence' \in Nat /\ outbox' \in Seq(QueuedType)
  BY <1>2, <1>4, EventSequences, EmitTypes DEF TypeInv, TypeOK
<1>6. /\ DOMAIN activeMap' \subseteq Conn
      /\ \A x \in DOMAIN activeMap' : activeMap'[x] \in ConnState
  BY <1>2 DEF Without, TypeInv, TypeOK
<1>7. TypeOK'
  BY <1>2, <1>5, <1>6, TombstoneTypes DEF Tombstone, TombstoneEntry, TypeInv,
     TypeOK, gapVars, seenVars, frameVars
<1>8. FrameTypeOK'
  BY <1>2 DEF TypeInv, FrameTypeOK, frameVars
<1>. QED BY <1>5, <1>7, <1>8 DEF EngineTypeInv

LEMMA ResidualType ==
  ASSUME TypeInv, NEW delta \in Counter, Residual(delta)
  PROVE  eventSequence' \in Nat /\ outbox' \in Seq(QueuedType)
<1>. DEFINE bare == Event("Residual", frame.ts)
            event == [bare EXCEPT !.delta = delta, !.counter = unique]
<1>1. bare \in EventType
  BY EventTypes DEF EventKind, TypeInv, FrameTypeOK
<1>2. Emit(<<event>>)
  BY DEF Residual
<1>. HIDE DEF bare
<1>3. event \in EventType
  BY <1>1 DEF EventType, TypeInv, TypeOK
<1>. HIDE DEF event
<1>. QED BY <1>2, <1>3, EventSequences, EmitTypes DEF TypeInv, TypeOK

LEMMA EndFrameType ==
  ASSUME TypeInv, EndFrame, gapIsOpen' \in BOOLEAN, hasEverBeenHealthy' \in BOOLEAN,
         NEW delta \in Counter, Residual(delta)
  PROVE  EngineTypeInv'
<1>1. TypeOK'
  BY ResidualType, CounterTypes DEF TypeInv, TypeOK, FrameTypeOK, EndFrame,
     connVars
<1>2. FrameTypeOK'
  <2>1. DOMAIN << >> = {}
    OBVIOUS
  <2>. QED BY <2>1, CounterTypes DEF EndFrame, NoFrame, NoTime, FrameTypeOK, TypeInv
<1>. QED BY <1>1, <1>2, ResidualType DEF EngineTypeInv

LEMMA FrameEndTypes ==
  ASSUME TypeInv, EndSteady \/ EndRecovery \/ EndBootstrap
  PROVE  EngineTypeInv'
<1>1. Monus(frame.total, prevTotal) \in Counter /\ Zero \in Counter
  BY CounterTypes DEF TypeInv, TypeOK, FrameTypeOK
<1>2. CASE EndSteady
  BY <1>1, <1>2, EndFrameType DEF EndSteady, TypeInv, TypeOK
<1>3. CASE EndRecovery
  BY <1>1, <1>3, EndFrameType DEF EndRecovery, TypeInv, TypeOK
<1>4. CASE EndBootstrap
  BY <1>1, <1>4, EndFrameType DEF EndBootstrap, TypeInv, TypeOK
<1>. QED BY <1>2, <1>3, <1>4

LEMMA UnobservedGapTypes ==
  ASSUME TypeInv, NEW end \in Nat, UnobservedGap(end)
  PROVE  eventSequence' \in Nat /\ outbox' \in Seq(QueuedType)
<1>. DEFINE opened == GapOpenedEvent(end, createdAt)
            closes == GapClosedEvent(createdAt, end)
<1>1. opened \in EventType /\ closes \in EventType
  BY EventTypes DEF EventKind, TypeInv, TypeOK
<1>2. Emit(<<opened, closes>>) \/ UNCHANGED <<outbox, eventSequence>>
  BY DEF UnobservedGap
<1>. HIDE DEF opened, closes
<1>3. <<opened, closes>> \in Seq(EventType)
  BY <1>1
<1>. QED BY <1>2, <1>3, EmitTypes DEF TypeInv, TypeOK

LEMMA ItemTypes ==
  ASSUME TypeInv, \/ GapOpened(clock) \/ CollectorHealth(clock)
                  \/ EndBootstrapLoop \/ Shutdown(clock)
  PROVE  EngineTypeInv'
<1>1. clock \in Nat /\ frame.ts \in Nat
  BY DEF TypeInv, WorldTypeOK, FrameTypeOK
<1>2. CASE GapOpened(clock)
  <2>1. GapFrom(clock) \in Nat
    BY <1>1 DEF GapFrom, TypeInv, TypeOK
  <2>2. GapOpenedEvent(clock, GapFrom(clock)) \in EventType
    BY <1>1, <2>1, EventTypes DEF EventKind
  <2>3. <<GapOpenedEvent(clock, GapFrom(clock))>> \in Seq(EventType)
    BY <2>2, EventSequences
  <2>4. eventSequence' \in Nat /\ outbox' \in Seq(QueuedType)
    BY <1>2, <2>3, EmitTypes DEF GapOpened, TypeInv, TypeOK
  <2>. QED BY <1>2, <2>1, <2>4 DEF GapOpened, EngineTypeInv, TypeInv, TypeOK,
       FrameTypeOK, connVars, frameVars
<1>3. CASE CollectorHealth(clock)
  <2>1. <<HealthEvent(clock, NoConn)>> \in Seq(EventType)
    BY <1>1, EventTypes, EventSequences DEF EventKind, NoConn
  <2>2. eventSequence' \in Nat /\ outbox' \in Seq(QueuedType)
    BY <1>3, <2>1, EmitTypes DEF CollectorHealth, TypeInv, TypeOK
  <2>. QED BY <1>3, <2>2 DEF CollectorHealth, EngineTypeInv, TypeInv, TypeOK,
       FrameTypeOK, connVars, gapVars, seenVars, frameVars
<1>4. CASE EndBootstrapLoop
  <2>1. eventSequence' \in Nat /\ outbox' \in Seq(QueuedType)
    BY <1>1, <1>4, UnobservedGapTypes DEF EndBootstrapLoop, TypeInv, TypeOK
  <2>. QED BY <1>4, <2>1 DEF EndBootstrapLoop, EngineTypeInv, TypeInv, TypeOK,
       FrameTypeOK, connVars, seenVars
<1>5. CASE Shutdown(clock)
  <2>1. eventSequence' \in Nat /\ outbox' \in Seq(QueuedType)
    BY <1>1, <1>5, UnobservedGapTypes DEF Shutdown, TypeInv, TypeOK
  <2>. QED BY <1>5, <2>1 DEF Shutdown, EngineTypeInv, TypeInv, TypeOK,
       FrameTypeOK, connVars, seenVars
<1>. QED BY <1>2, <1>3, <1>4, <1>5

\* A snapshot of Mihomo is a frame of the right type.
LEMMA SnapshotType ==
  ASSUME TypeInv, NEW missing
  PROVE  /\ DOMAIN Snapshot(missing) \subseteq Conn
         /\ \A id \in DOMAIN Snapshot(missing) :
              /\ Snapshot(missing)[id] \in FrameConn
              /\ Snapshot(missing)[id].start = conns[id].start
              /\ Snapshot(missing)[id].ctr = conns[id].ctr
<1>1. DOMAIN Snapshot(missing) \subseteq Conn
  BY DEF Snapshot, LiveConns
<1>2. ASSUME NEW id \in DOMAIN Snapshot(missing)
      PROVE  /\ Snapshot(missing)[id] \in FrameConn
             /\ Snapshot(missing)[id].start = conns[id].start
             /\ Snapshot(missing)[id].ctr = conns[id].ctr
  <2>1. conns[id] \in [live : BOOLEAN, start : Nat, ctr : Counter, meta : Meta]
    BY <1>1 DEF TypeInv, WorldTypeOK
  <2>2. Snapshot(missing)[id] = [start |-> conns[id].start, ctr |-> conns[id].ctr,
                                 meta |-> conns[id].meta]
    BY DEF Snapshot
  <2>3. conns[id].start \in Nat /\ conns[id].ctr \in Counter /\ conns[id].meta \in Meta
    BY <2>1
  <2>. QED BY <2>2, <2>3 DEF FrameConn
<1>. QED BY <1>1, <1>2

LEMMA ProcessFrameType ==
  ASSUME TypeInv, NEW f, f.ts \in Nat, f.total \in Counter,
         DOMAIN f.conns \subseteq Conn,
         \A id \in DOMAIN f.conns : f.conns[id] \in FrameConn,
         ProcessFrame(f)
  PROVE  EngineTypeInv'
<1>1. DOMAIN << >> = {} /\ << >> \in Seq(TombstoneEntry)
  OBVIOUS
<1>2. Event("EpochBreak", f.ts) \in EventType
      /\ GapClosedEvent(gapStart, f.ts) \in EventType
  BY EventTypes DEF EventKind, TypeInv, TypeOK
<1>3. /\ << >> \in Seq(EventType) /\ BreakEvents(f) \in Seq(EventType)
      /\ <<GapClosedEvent(gapStart, f.ts)>> \in Seq(EventType)
      /\ <<GapClosedEvent(gapStart, f.ts)>> \o BreakEvents(f) \in Seq(EventType)
  BY <1>2, EventSequences DEF BreakEvents
<1>4. ASSUME NEW section, BeginFrame(f, section)
      PROVE  frameSequence' \in Nat /\ FrameTypeOK' /\ unique' \in Counter
             /\ todo' \subseteq Conn
  BY <1>4, CounterTypes DEF BeginFrame, FrameTypeOK, TypeInv, TypeOK
<1>5. CASE StartRecovery(f)
  <2>1. eventSequence' \in Nat /\ outbox' \in Seq(QueuedType)
    BY <1>3, <1>5, EmitFirstTypes DEF StartRecovery, TypeInv, TypeOK
  <2>. QED BY <1>4, <1>5, <2>1 DEF StartRecovery, BeginFrame, EngineTypeInv, TypeInv,
       TypeOK, connVars, gapVars
<1>6. CASE StartEpochBreakAcrossGap(f)
  <2>1. eventSequence' \in Nat /\ outbox' \in Seq(QueuedType)
    BY <1>3, <1>6, EmitFirstTypes DEF StartEpochBreakAcrossGap, TypeInv, TypeOK
  <2>2. /\ activeMap' = << >> /\ tombstones' = << >>
        /\ tombstoneFIFO' \in Seq(TombstoneEntry) /\ epochID' \in Nat
    BY <1>1, <1>6 DEF StartEpochBreakAcrossGap, StartNewEpoch, ResetTombstones,
       TypeInv, TypeOK
  <2>3. TypeOK'
    BY <1>1, <1>4, <1>6, <2>1, <2>2 DEF StartEpochBreakAcrossGap, BeginFrame,
       TombstoneEntry, TypeInv, TypeOK
  <2>. QED BY <1>4, <1>6, <2>1, <2>3 DEF StartEpochBreakAcrossGap, EngineTypeInv
<1>7. CASE StartEpochBreak(f)
  <2>1. eventSequence' \in Nat /\ outbox' \in Seq(QueuedType)
    BY <1>3, <1>7, EmitFirstTypes DEF StartEpochBreak, TypeInv, TypeOK
  <2>. QED BY <1>1, <1>4, <1>7, <2>1 DEF StartEpochBreak, BeginFrame, StartNewEpoch,
       ResetTombstones, TombstoneEntry, EngineTypeInv, TypeInv, TypeOK, gapVars
<1>8. CASE StartBootstrap(f)
  <2>1. eventSequence' \in Nat /\ outbox' \in Seq(QueuedType)
    BY <1>3, <1>8, EmitFirstTypes DEF StartBootstrap, TypeInv, TypeOK
  <2>. QED BY <1>1, <1>4, <1>8, <2>1 DEF StartBootstrap, BeginFrame,
       ResetTombstones, TombstoneEntry, EngineTypeInv, TypeInv, TypeOK, gapVars
<1>9. CASE StartSteady(f)
  <2>1. eventSequence' \in Nat /\ outbox' \in Seq(QueuedType)
    BY <1>3, <1>9, EmitFirstTypes DEF StartSteady, TypeInv, TypeOK
  <2>. QED BY <1>4, <1>9, <2>1 DEF StartSteady, BeginFrame, EngineTypeInv, TypeInv,
       TypeOK, connVars, gapVars, seenVars
<1>. QED BY <1>5, <1>6, <1>7, <1>8, <1>9 DEF ProcessFrame

LEMMA SinkTypes ==
  ASSUME TypeInv, SinkKeeps \/ SinkRefuses
  PROVE  EngineTypeInv'
<1>1. outbox # << >> /\ outbox \in Seq(QueuedType)
  BY DEF TypeInv, SinkKeeps, SinkTakes, SinkRefuses, SinkFails
<1>2. /\ Tail(outbox) \in Seq(QueuedType) /\ Head(outbox) \in QueuedType
      /\ << >> \in Seq(QueuedType)
  BY <1>1
<1>3. CASE SinkKeeps
  BY <1>2, <1>3 DEF SinkKeeps, SinkTakes, EngineTypeInv, TypeInv, TypeOK, FrameTypeOK,
     seqVars, connVars, gapVars, seenVars, frameVars
<1>4. CASE SinkRefuses
  <2>1. Head(outbox).seq \in Nat /\ Head(outbox).epoch \in Nat
    BY <1>2 DEF QueuedType
  <2>2. DOMAIN << >> = {}
    OBVIOUS
  <2>3. FrameTypeOK'
    BY <1>4, <2>2, CounterTypes DEF SinkRefuses, SinkFails, FrameTypeOK, NoFrame,
       NoTime
  <2>4. TypeOK'
    BY <1>4, <2>1, CounterTypes DEF SinkRefuses, SinkFails, TypeInv, TypeOK,
       connVars, gapVars, seenVars
  <2>. QED BY <1>2, <1>4, <2>3, <2>4 DEF SinkRefuses, SinkFails, EngineTypeInv
<1>. QED BY <1>3, <1>4

MihomoConn == [live : BOOLEAN, start : Nat, ctr : Counter, meta : Meta]

LEMMA MihomoConnParts ==
  ASSUME NEW c \in MihomoConn
  PROVE  /\ c.ctr \in Counter /\ c.start \in Nat
         /\ \A m \in Meta : [c EXCEPT !.meta = m] \in MihomoConn
         /\ [c EXCEPT !.live = FALSE] \in MihomoConn
         /\ \A d \in Dir : [c EXCEPT !.ctr[d] = @ + 1] \in MihomoConn
         /\ \A d \in Dir :
              c.ctr[d] > 0 => [c EXCEPT !.ctr[d] = @ - 1] \in MihomoConn
<1>1. c.ctr \in Counter /\ c.start \in Nat
  BY DEF MihomoConn
<1>2. ASSUME NEW m \in Meta PROVE [c EXCEPT !.meta = m] \in MihomoConn
  BY DEF MihomoConn
<1>3. [c EXCEPT !.live = FALSE] \in MihomoConn
  BY DEF MihomoConn
<1>4. ASSUME NEW d \in Dir PROVE [c EXCEPT !.ctr[d] = @ + 1] \in MihomoConn
  <2>1. [c.ctr EXCEPT ![d] = @ + 1] \in Counter
    BY <1>1 DEF Counter
  <2>. QED BY <2>1 DEF MihomoConn
<1>5. ASSUME NEW d \in Dir, c.ctr[d] > 0
      PROVE  [c EXCEPT !.ctr[d] = @ - 1] \in MihomoConn
  <2>1. [c.ctr EXCEPT ![d] = @ - 1] \in Counter
    BY <1>1, <1>5 DEF Counter
  <2>. QED BY <2>1 DEF MihomoConn
<1>. QED BY <1>1, <1>2, <1>3, <1>4, <1>5

LEMMA MihomoTypes ==
  ASSUME TypeInv, MihomoMoves \/ CounterAnomaly
  PROVE  WorldTypeOK'
<1>1. conns \in [Conn -> MihomoConn] /\ total \in Counter /\ clock' = clock
  BY DEF TypeInv, WorldTypeOK, MihomoConn, MihomoMoves, CounterAnomaly
<1>2. ASSUME NEW id \in Conn, NEW m \in Meta, Open(id, m)
      PROVE  conns' \in [Conn -> MihomoConn] /\ total' \in Counter
  <2>. DEFINE zero == [d \in Dir |-> 0]
              new == [live |-> TRUE, start |-> conns[id].start + 1, ctr |-> zero,
                      meta |-> m]
  <2>1. zero \in Counter
    BY DEF Counter
  <2>2. conns' = [conns EXCEPT ![id] = new] /\ total' = total
    BY <1>1, <1>2 DEF Open
  <2>3. conns[id].start \in Nat
    BY <1>1, MihomoConnParts
  <2>. HIDE DEF zero
  <2>4. new \in MihomoConn
    BY <2>1, <2>3 DEF MihomoConn
  <2>. HIDE DEF new
  <2>. QED BY <1>1, <2>2, <2>4
<1>3. ASSUME NEW id \in Conn, NEW d \in Dir, Carry(id, d)
      PROVE  conns' \in [Conn -> MihomoConn] /\ total' \in Counter
  <2>1. conns' = [conns EXCEPT ![id] = [conns[id] EXCEPT !.ctr[d] = @ + 1]]
    BY <1>1, <1>3 DEF Carry, MihomoConn
  <2>2. conns' \in [Conn -> MihomoConn]
    BY <1>1, <2>1, MihomoConnParts
  <2>3. total' \in Counter
    BY <1>1, <1>3 DEF Carry, Counter
  <2>. QED BY <2>2, <2>3
<1>4. ASSUME NEW id \in Conn, NEW m \in Meta, Reroute(id, m)
      PROVE  conns' \in [Conn -> MihomoConn] /\ total' \in Counter
  <2>1. conns' = [conns EXCEPT ![id] = [conns[id] EXCEPT !.meta = m]]
    BY <1>1, <1>4 DEF Reroute, MihomoConn
  <2>2. [conns[id] EXCEPT !.meta = m] \in MihomoConn
    BY <1>1, MihomoConnParts
  <2>. QED BY <1>1, <1>4, <2>1, <2>2 DEF Reroute
<1>5. ASSUME NEW id \in Conn, Shut(id)
      PROVE  conns' \in [Conn -> MihomoConn] /\ total' \in Counter
  <2>1. conns' = [conns EXCEPT ![id] = [conns[id] EXCEPT !.live = FALSE]]
    BY <1>1, <1>5 DEF Shut, MihomoConn
  <2>. QED BY <1>1, <1>5, <2>1, MihomoConnParts DEF Shut
<1>6. ASSUME Restart PROVE conns' \in [Conn -> MihomoConn] /\ total' \in Counter
  <2>1. conns' = [id \in Conn |-> [conns[id] EXCEPT !.live = FALSE]]
    BY <1>6 DEF Restart
  <2>2. conns' \in [Conn -> MihomoConn]
    BY <1>1, <2>1, MihomoConnParts
  <2>3. total' \in Counter
    BY <1>6 DEF Restart, Counter
  <2>. QED BY <2>2, <2>3
<1>7. CASE CounterAnomaly
  <2>1. PICK id \in Conn, d \in Dir :
          /\ conns[id].ctr[d] > 0
          /\ conns' = [conns EXCEPT ![id].ctr[d] = @ - 1]
    BY <1>7 DEF CounterAnomaly, LiveConns
  <2>2. conns' = [conns EXCEPT ![id] = [conns[id] EXCEPT !.ctr[d] = @ - 1]]
    BY <1>1, <2>1 DEF MihomoConn
  <2>3. [conns[id] EXCEPT !.ctr[d] = @ - 1] \in MihomoConn
    BY <1>1, <2>1, MihomoConnParts
  <2>4. conns' \in [Conn -> MihomoConn]
    BY <1>1, <2>2, <2>3
  <2>. QED BY <1>1, <1>7, <2>4 DEF CounterAnomaly, WorldTypeOK, MihomoConn, TypeInv
<1>8. CASE MihomoMoves
  <2>1. conns' \in [Conn -> MihomoConn] /\ total' \in Counter
    BY <1>2, <1>3, <1>4, <1>5, <1>6, <1>8 DEF MihomoMoves, MihomoOpens
  <2>. QED BY <1>1, <2>1 DEF WorldTypeOK, TypeInv, MihomoConn
<1>. QED BY <1>7, <1>8

\* TypeOK, with what it rests on, is preserved by every step.
LEMMA NextType == TypeInv /\ [Next]_vars => TypeInv'
<1>. SUFFICES ASSUME TypeInv, [Next]_vars PROVE TypeInv'
  OBVIOUS
<1>1. ASSUME EngineTypeInv', WorldTypeOK' PROVE TypeInv'
  BY <1>1 DEF EngineTypeInv, TypeInv
<1>2. ASSUME UNCHANGED engineVars PROVE EngineTypeInv'
  BY <1>2 DEF engineVars, seqVars, connVars, gapVars, seenVars, frameVars,
     EngineTypeInv, TypeInv, TypeOK, FrameTypeOK
<1>3. ASSUME WorldStays PROVE WorldTypeOK'
  BY <1>3 DEF WorldStays, mihomoVars, TypeInv, WorldTypeOK
<1>4. CASE Tick
  <2>1. WorldTypeOK'
    BY <1>4 DEF Tick, Quiet, mihomoVars, TypeInv, WorldTypeOK
  <2>. QED BY <1>1, <1>2, <1>4, <2>1 DEF Tick, Quiet
<1>5. CASE MihomoMoves \/ CounterAnomaly
  BY <1>1, <1>2, <1>5, MihomoTypes DEF MihomoMoves, CounterAnomaly, Quiet
<1>6. CASE StreamLost \/ Health \/ SessionEnds
  BY <1>1, <1>3, <1>6, ItemTypes DEF StreamLost, Health, SessionEnds
<1>7. CASE FrameArrives
  <2>1. PICK missing \in SUBSET LiveConns : \E R \in RelayChoices(Snapshot(missing)) :
          ProcessFrame([ts |-> clock, conns |-> Snapshot(missing), total |-> total,
                        relays |-> R])
    BY <1>7 DEF FrameArrives
  <2>2. EngineTypeInv'
    BY <2>1, ProcessFrameType, SnapshotType DEF TypeInv, WorldTypeOK
  <2>. QED BY <1>1, <1>3, <1>7, <2>2 DEF FrameArrives
<1>8. CASE FrameProceeds
  <2>. SUFFICES EngineTypeInv'
    BY <1>1, <1>3, <1>8 DEF FrameProceeds
  <2>1. CASE ProcessConn
    <3>1. PICK id \in todo :
            \/ BootstrapConn(id) \/ RecoverBaseline(id) \/ RecoverKnown(id)
            \/ SteadyKnown(id) \/ SteadyRegressed(id)
            \/ SteadyReobserved(id) \/ SteadyNew(id)
      BY <2>1 DEF ProcessConn
    <3>2. CASE BootstrapConn(id) \/ RecoverBaseline(id)
      BY <3>2, BaselineType DEF BootstrapConn, RecoverBaseline
    <3>3. CASE RecoverKnown(id)
      BY <3>3, RecoverKnownType
    <3>4. CASE SteadyKnown(id)
      BY <3>4, SteadyKnownType
    <3>5. CASE SteadyRegressed(id)
      BY <3>5, SteadyRegressedType
    <3>6. CASE SteadyReobserved(id)
      BY <3>6, SteadyReobservedType
    <3>7. CASE SteadyNew(id)
      BY <3>7, SteadyNewType
    <3>. QED BY <3>1, <3>2, <3>3, <3>4, <3>5, <3>6, <3>7
  <2>2. CASE EndSteady \/ EndRecovery \/ EndBootstrap
    BY <2>2, FrameEndTypes
  <2>3. CASE EndBootstrapLoop
    BY <2>3, ItemTypes
  <2>. QED BY <1>8, <2>1, <2>2, <2>3 DEF FrameProceeds
<1>9. CASE ConnDisappears
  BY <1>1, <1>3, <1>9, DisappearType DEF ConnDisappears
<1>10. CASE SinkKeeps \/ SinkRefuses
  BY <1>1, <1>3, <1>10, SinkTypes DEF SinkKeeps, SinkRefuses
<1>11. CASE Stopped \/ UNCHANGED vars
  BY <1>1, <1>2, <1>11 DEF Stopped, vars, mihomoVars, TypeInv, WorldTypeOK
<1>. QED BY <1>4, <1>5, <1>6, <1>7, <1>8, <1>9, <1>10, <1>11 DEF Next

\* The engine's state is always of its declared types, whatever Mihomo's
\* snapshots show and whenever the stream or the sink fails.
THEOREM TypeCorrect == Spec => []TypeOK
<1>1. TypeInv => TypeOK
  BY DEF TypeInv
<1>. QED BY <1>1, InitType, NextType, PTL DEF Spec

-----------------------------------------------------------------------------
(* Tombstones.  Of all the steps only four kinds matter to them.           *)

KeepsTombstones ==
  /\ UNCHANGED <<tombstones, tombstoneFIFO, frameSequence>>
  /\ todo' \subseteq todo
  /\ DOMAIN activeMap' \subseteq DOMAIN activeMap \cup todo
BeginsFrame ==
  /\ frameSequence' = frameSequence + 1
  /\ UNCHANGED <<tombstones, tombstoneFIFO>> \/ ResetTombstones
TakesTombstone ==
  \E id \in todo : /\ TakeTombstone(id)
                   /\ frameSequence' = frameSequence /\ todo' \subseteq todo
                   /\ DOMAIN activeMap' \subseteq DOMAIN activeMap \cup todo
LeavesTombstone ==
  \E id \in DOMAIN activeMap :
    /\ RecordTombstone(id) /\ activeMap' = Without(activeMap, id)
    /\ todo = {} /\ UNCHANGED <<todo, frameSequence>>

LEMMA TombstoneSteps ==
  ASSUME TypeInv, [Next]_vars
  PROVE  KeepsTombstones \/ BeginsFrame \/ TakesTombstone \/ LeavesTombstone
<1>. USE DEF KeepsTombstones
<1>1. ASSUME UNCHANGED engineVars PROVE KeepsTombstones
  BY <1>1 DEF engineVars, seqVars, connVars, frameVars
<1>2. CASE Tick \/ MihomoMoves \/ CounterAnomaly \/ Stopped \/ UNCHANGED vars
  BY <1>1, <1>2 DEF Tick, MihomoMoves, CounterAnomaly, Quiet, Stopped, vars
<1>3. CASE StreamLost
  BY <1>3 DEF StreamLost, GapOpened, connVars, frameVars
<1>4. CASE Health
  BY <1>4 DEF Health, CollectorHealth, connVars, frameVars
<1>5. CASE SessionEnds
  BY <1>5 DEF SessionEnds, Shutdown, connVars
<1>6. CASE SinkKeeps
  BY <1>6 DEF SinkKeeps, seqVars, connVars, frameVars
<1>7. CASE SinkRefuses
  BY <1>7 DEF SinkRefuses, SinkFails, connVars
<1>8. CASE FrameArrives
  <2>1. PICK f : ProcessFrame(f)
    BY <1>8 DEF FrameArrives
  <2>. QED BY <2>1 DEF ProcessFrame, StartRecovery, StartEpochBreakAcrossGap,
       StartEpochBreak, StartBootstrap, StartSteady, BeginFrame, StartNewEpoch,
       connVars, BeginsFrame
<1>9. CASE ConnDisappears
  <2>1. PICK id \in DOMAIN activeMap : Disappear(id)
    BY <1>9 DEF ConnDisappears
  <2>. QED BY <2>1 DEF Disappear, frameVars, LeavesTombstone
<1>10. CASE FrameProceeds
  <2>1. CASE EndSteady \/ EndRecovery \/ EndBootstrap
    BY <2>1 DEF EndSteady, EndRecovery, EndBootstrap, EndFrame, connVars
  <2>2. CASE EndBootstrapLoop
    BY <2>2 DEF EndBootstrapLoop, connVars
  <2>3. CASE ProcessConn
    <3>1. PICK id \in todo :
            \/ BootstrapConn(id) \/ RecoverBaseline(id) \/ RecoverKnown(id)
            \/ SteadyKnown(id) \/ SteadyRegressed(id)
            \/ SteadyReobserved(id) \/ SteadyNew(id)
      BY <2>3 DEF ProcessConn
    <3>2. CASE BootstrapConn(id) \/ RecoverBaseline(id)
      BY <3>2 DEF BootstrapConn, RecoverBaseline, InLoop, Baseline, With
    <3>3. CASE RecoverKnown(id)
      BY <3>3 DEF RecoverKnown, InLoop
    <3>4. CASE SteadyKnown(id)
      BY <3>4 DEF SteadyKnown, InLoop
    <3>5. CASE SteadyRegressed(id)
      BY <3>5 DEF SteadyRegressed, InLoop
    <3>6. CASE SteadyReobserved(id)
      BY <3>6 DEF SteadyReobserved, InLoop, With, TakesTombstone
    <3>7. CASE SteadyNew(id)
      BY <3>7 DEF SteadyNew, InLoop, With, TakesTombstone
    <3>. QED BY <3>1, <3>2, <3>3, <3>4, <3>5, <3>6, <3>7
  <2>. QED BY <1>10, <2>1, <2>2, <2>3 DEF FrameProceeds
<1>. QED BY <1>2, <1>3, <1>4, <1>5, <1>6, <1>7, <1>8, <1>9, <1>10 DEF Next

LEMMA BoundedNext ==
  TypeInv /\ TombstonesBounded /\ [Next]_vars => TombstonesBounded'
<1>. SUFFICES ASSUME TypeInv, TombstonesBounded, [Next]_vars
              PROVE  TombstonesBounded'
  OBVIOUS
<1>1. tombstoneFIFO \in Seq(TombstoneEntry) /\ MaxTombstones \in Nat \ {0}
  BY TombstonesAssumption DEF TypeInv, TypeOK, TombstoneEntry
<1>2. CASE UNCHANGED <<tombstones, tombstoneFIFO>>
  BY <1>2 DEF TombstonesBounded
<1>3. CASE ResetTombstones
  <2>1. tombstones' = << >> /\ tombstoneFIFO' = << >>
    BY <1>3 DEF ResetTombstones
  <2>2. Len(<< >>) = 0 /\ DOMAIN << >> = {}
    OBVIOUS
  <2>. QED BY <1>1, <2>1, <2>2 DEF TombstonesBounded
<1>4. ASSUME NEW id, TakeTombstone(id) PROVE TombstonesBounded'
  BY <1>4 DEF TakeTombstone, Without, TombstonesBounded
<1>5. ASSUME NEW id \in DOMAIN activeMap, RecordTombstone(id)
      PROVE  TombstonesBounded'
  <2>. DEFINE entry == [id |-> id, at |-> frameSequence]
              map == With(tombstones, id, [state |-> activeMap[id],
                                           at |-> frameSequence])
              fifo == Append(tombstoneFIFO, entry)
              full == Len(fifo) > MaxTombstones
  <2>1. /\ tombstoneFIFO' = IF full THEN Tail(fifo) ELSE fifo
        /\ tombstones' = IF full /\ Drops(map, Head(fifo))
                         THEN Without(map, Head(fifo).id) ELSE map
    BY <1>5 DEF RecordTombstone
  <2>2. entry \in TombstoneEntry
    BY DEF TypeInv, TypeOK, TombstoneEntry
  <2>3. \A x \in DOMAIN map :
          map[x].at = IF x = id THEN frameSequence ELSE tombstones[x].at
    BY DEF With
  <2>4. DOMAIN map = DOMAIN tombstones \cup {id}
    BY DEF With
  <2>. HIDE DEF map
  <2>5. /\ fifo \in Seq(TombstoneEntry) /\ Len(fifo) = Len(tombstoneFIFO) + 1
        /\ fifo[Len(fifo)] = entry
        /\ \A i \in 1..Len(tombstoneFIFO) : fifo[i] = tombstoneFIFO[i]
    BY <1>1, <2>2
  <2>6. \A x \in DOMAIN map :
          \E i \in 1..Len(fifo) : fifo[i] = [id |-> x, at |-> map[x].at]
    BY <1>1, <2>3, <2>4, <2>5 DEF TombstonesBounded
  <2>. HIDE DEF fifo
  <2>7. Len(fifo) <= MaxTombstones + 1 /\ Len(fifo) \in Nat
    BY <1>1, <2>5 DEF TombstonesBounded
  <2>8. CASE ~full
    BY <1>1, <2>1, <2>6, <2>7, <2>8 DEF TombstonesBounded
  <2>9. CASE full
    <3>1. /\ tombstoneFIFO' = Tail(fifo) /\ Len(Tail(fifo)) = Len(fifo) - 1
          /\ \A i \in 2..Len(fifo) : Tail(fifo)[i-1] = fifo[i]
          /\ Head(fifo) = fifo[1]
      BY <1>1, <2>1, <2>5, <2>9
    <3>2. ASSUME NEW x \in DOMAIN tombstones'
          PROVE  \E i \in 1..Len(Tail(fifo)) :
                   Tail(fifo)[i] = [id |-> x, at |-> tombstones'[x].at]
      <4>1. x \in DOMAIN map /\ tombstones'[x] = map[x]
        BY <2>1 DEF Without
      <4>2. PICK i \in 1..Len(fifo) : fifo[i] = [id |-> x, at |-> map[x].at]
        BY <2>6, <4>1
      <4>3. i # 1
        BY <2>1, <2>9, <3>1, <4>1, <4>2 DEF Drops, Without
      <4>4. i - 1 \in 1..Len(Tail(fifo)) /\ i \in 2..Len(fifo)
        BY <2>7, <3>1, <4>2, <4>3
      <4>. QED BY <3>1, <4>1, <4>2, <4>4
    <3>. QED BY <1>1, <2>7, <3>1, <3>2, SMTT(30) DEF TombstonesBounded
  <2>. QED BY <2>8, <2>9
<1>. QED BY <1>2, <1>3, <1>4, <1>5, TombstoneSteps
     DEF KeepsTombstones, BeginsFrame, TakesTombstone, LeavesTombstone

\* However many connections flap, the tombstones never outgrow their FIFO.
THEOREM TombstonesStayBounded == Spec => []TombstonesBounded
<1>1. Init => TombstonesBounded
  <2>1. Len(<< >>) = 0 /\ DOMAIN << >> = {}
    OBVIOUS
  <2>. QED BY <2>1, TombstonesAssumption DEF Init, EngineInit, TombstonesBounded
<1>. QED BY <1>1, InitType, NextType, BoundedNext, PTL DEF Spec

\* FreshTombstoneHeld is inductive with what it leaves unsaid: no entry is of
\* a later frame, and a connection has one entry of a frame at most, because
\* it leaves the active map with it while no connection of the frame is left
\* to process.
FreshInv ==
  /\ \A i \in 1..Len(tombstoneFIFO) : tombstoneFIFO[i].at <= frameSequence
  /\ \A i \in 1..Len(tombstoneFIFO) :
       tombstoneFIFO[i].at = frameSequence =>
         /\ todo = {} /\ tombstoneFIFO[i].id \notin DOMAIN activeMap
         /\ tombstoneFIFO[i].id \in DOMAIN tombstones
         /\ tombstones[tombstoneFIFO[i].id].at = frameSequence
  /\ \A i, j \in 1..Len(tombstoneFIFO) :
       (/\ tombstoneFIFO[i].at = frameSequence
        /\ tombstoneFIFO[j].at = frameSequence
        /\ tombstoneFIFO[i].id = tombstoneFIFO[j].id) => i = j

LEMMA FreshNext == TypeInv /\ FreshInv /\ [Next]_vars => FreshInv'
<1>. SUFFICES ASSUME TypeInv, FreshInv, [Next]_vars PROVE FreshInv'
  OBVIOUS
<1>1. /\ tombstoneFIFO \in Seq(TombstoneEntry) /\ MaxTombstones \in Nat \ {0}
      /\ frameSequence \in Nat
  BY TombstonesAssumption DEF TypeInv, TypeOK, TombstoneEntry
<1>. /\ \A i \in 1..Len(tombstoneFIFO) : tombstoneFIFO[i].at \in Nat
     /\ Len(tombstoneFIFO) \in Nat
  <2>1. \A i \in 1..Len(tombstoneFIFO) : tombstoneFIFO[i] \in TombstoneEntry
    BY <1>1
  <2>. QED BY <1>1, <2>1 DEF TombstoneEntry
<1>2. CASE KeepsTombstones
  BY <1>2 DEF KeepsTombstones, FreshInv
<1>3. CASE BeginsFrame
  <2>1. CASE UNCHANGED <<tombstones, tombstoneFIFO>>
    <3>1. \A i \in 1..Len(tombstoneFIFO') : tombstoneFIFO'[i].at < frameSequence'
      BY <1>1, <1>3, <2>1 DEF BeginsFrame, FreshInv
    <3>2. \A i \in 1..Len(tombstoneFIFO') :
            /\ tombstoneFIFO'[i].at \in Nat
            /\ frameSequence' \in Nat
      BY <1>1, <1>3, <2>1 DEF BeginsFrame
    <3>. QED BY <3>1, <3>2 DEF FreshInv
  <2>2. CASE ResetTombstones
    <3>1. Len(<< >>) = 0
      OBVIOUS
    <3>. QED BY <2>2, <3>1 DEF ResetTombstones, FreshInv
  <2>. QED BY <1>3, <2>1, <2>2 DEF BeginsFrame
<1>4. CASE TakesTombstone
  <2>1. PICK id \in todo : /\ TakeTombstone(id) /\ frameSequence' = frameSequence
    BY <1>4 DEF TakesTombstone
  <2>2. \A i \in 1..Len(tombstoneFIFO') : tombstoneFIFO'[i].at # frameSequence'
    BY <2>1 DEF TakeTombstone, FreshInv
  <2>. QED BY <2>1, <2>2 DEF TakeTombstone, FreshInv
<1>5. CASE LeavesTombstone
  <2>1. PICK id \in DOMAIN activeMap :
          /\ RecordTombstone(id) /\ activeMap' = Without(activeMap, id)
          /\ todo = {} /\ UNCHANGED <<todo, frameSequence>>
    BY <1>5 DEF LeavesTombstone
  <2>. DEFINE entry == [id |-> id, at |-> frameSequence]
              map == With(tombstones, id, [state |-> activeMap[id],
                                           at |-> frameSequence])
              fifo == Append(tombstoneFIFO, entry)
              full == Len(fifo) > MaxTombstones
              Fresh(i) == fifo[i].at = frameSequence
  <2>2. /\ tombstoneFIFO' = IF full THEN Tail(fifo) ELSE fifo
        /\ tombstones' = IF full /\ Drops(map, Head(fifo))
                         THEN Without(map, Head(fifo).id) ELSE map
    BY <2>1 DEF RecordTombstone
  <2>3. entry \in TombstoneEntry /\ entry.id = id /\ entry.at = frameSequence
    BY DEF TypeInv, TypeOK, TombstoneEntry
  <2>4. /\ DOMAIN map = DOMAIN tombstones \cup {id}
        /\ map[id].at = frameSequence
        /\ \A x \in DOMAIN tombstones : x # id => map[x] = tombstones[x]
    BY DEF With
  <2>5. DOMAIN activeMap' = DOMAIN activeMap \ {id}
    BY <2>1 DEF Without
  <2>. HIDE DEF map, entry
  <2>6. /\ fifo \in Seq(TombstoneEntry) /\ Len(fifo) = Len(tombstoneFIFO) + 1
        /\ fifo[Len(fifo)] = entry
        /\ \A i \in 1..Len(tombstoneFIFO) : fifo[i] = tombstoneFIFO[i]
        /\ Len(tombstoneFIFO) \in Nat
    BY <1>1, <2>3
  <2>. HIDE DEF fifo
  <2>7. \A i \in 1..Len(fifo) :
          \/ i = Len(fifo) /\ fifo[i] = entry
          \/ i \in 1..Len(tombstoneFIFO) /\ fifo[i] = tombstoneFIFO[i]
    BY <2>6
  <2>8. \A i \in 1..Len(fifo) :
          /\ fifo[i].at <= frameSequence
          /\ Fresh(i) => /\ fifo[i].id \notin DOMAIN activeMap'
                         /\ fifo[i].id \in DOMAIN map
                         /\ map[fifo[i].id].at = frameSequence
    BY <1>1, <2>3, <2>4, <2>5, <2>7, SMTT(40) DEF FreshInv
  <2>9. \A i, j \in 1..Len(fifo) :
          Fresh(i) /\ Fresh(j) /\ fifo[i].id = fifo[j].id => i = j
    <3>1. \A i \in 1..Len(tombstoneFIFO) : Fresh(i) => fifo[i].id # id
      BY <2>6 DEF FreshInv
    <3>. QED BY <2>3, <2>6, <2>7, <3>1 DEF FreshInv
  <2>10. CASE ~full
    BY <2>1, <2>2, <2>8, <2>9, <2>10 DEF FreshInv
  <2>11. CASE full
    <3>1. /\ tombstoneFIFO' = Tail(fifo) /\ Len(Tail(fifo)) = Len(fifo) - 1
          /\ \A i \in 1..Len(fifo)-1 : Tail(fifo)[i] = fifo[i+1]
          /\ Head(fifo) = fifo[1] /\ 1 \in 1..Len(fifo)
      BY <1>1, <2>2, <2>6, <2>11
    <3>2. \A i \in 1..Len(Tail(fifo)) :
            i + 1 \in 1..Len(fifo) /\ i + 1 # 1 /\ Tail(fifo)[i] = fifo[i+1]
      BY <2>6, <3>1
    <3>3. ASSUME NEW i \in 1..Len(fifo), i # 1, Fresh(i)
          PROVE  /\ fifo[i].id \in DOMAIN tombstones'
                 /\ tombstones'[fifo[i].id].at = frameSequence
      <4>1. CASE full /\ Drops(map, Head(fifo))
        <5>1. Head(fifo).id = fifo[i].id => Fresh(1)
          BY <2>8, <3>1, <3>3, <4>1 DEF Drops
        <5>2. Head(fifo).id # fifo[i].id
          BY <2>9, <3>1, <3>3, <5>1
        <5>. QED BY <2>2, <2>8, <3>3, <4>1, <5>2 DEF Without
      <4>2. CASE ~(full /\ Drops(map, Head(fifo)))
        BY <2>2, <2>8, <3>3, <4>2
      <4>. QED BY <4>1, <4>2
    <3>4. \A i \in 1..Len(tombstoneFIFO') :
            /\ tombstoneFIFO'[i].at <= frameSequence'
            /\ tombstoneFIFO'[i].at = frameSequence' =>
                 /\ todo' = {} /\ tombstoneFIFO'[i].id \notin DOMAIN activeMap'
                 /\ tombstoneFIFO'[i].id \in DOMAIN tombstones'
                 /\ tombstones'[tombstoneFIFO'[i].id].at = frameSequence'
      BY <2>1, <2>8, <3>1, <3>2, <3>3
    <3>5. ASSUME NEW i \in 1..Len(tombstoneFIFO'), NEW j \in 1..Len(tombstoneFIFO'),
                 tombstoneFIFO'[i].at = frameSequence',
                 tombstoneFIFO'[j].at = frameSequence',
                 tombstoneFIFO'[i].id = tombstoneFIFO'[j].id
          PROVE  i = j
      <4>1. i + 1 = j + 1
        BY <2>1, <2>9, <3>1, <3>2, <3>5
      <4>. QED BY <2>6, <3>1, <4>1
    <3>. QED BY <3>4, <3>5 DEF FreshInv
  <2>. QED BY <2>10, <2>11
<1>. QED BY <1>2, <1>3, <1>4, <1>5, TombstoneSteps

\* An entry of the FIFO that has outlived its tombstone never takes a newer
\* tombstone of the same connection with it.
THEOREM FreshTombstonesHeld == Spec => []FreshTombstoneHeld
<1>1. Init => FreshInv
  <2>1. Len(<< >>) = 0
    OBVIOUS
  <2>. QED BY <2>1 DEF Init, EngineInit, FreshInv
<1>2. FreshInv => FreshTombstoneHeld
  BY DEF FreshInv, FreshTombstoneHeld
<1>. QED BY <1>1, <1>2, InitType, NextType, FreshNext, PTL DEF Spec

-----------------------------------------------------------------------------
(* The books of a connection.  That baseline and monitored bytes add up to *)
(* the last reading survives a step because no reading the engine holds is *)
(* above Mihomo's own counter, the frame at hand shows Mihomo as it is,    *)
(* and an active connection is the one Mihomo knows by that ID.            *)

Sound(world, marks, id, st) ==
  /\ st.start <= world[id].start
  /\ <<id, st.start>> \notin marks =>
       /\ Plus(st.base, st.cum) = st.last
       /\ st.start = world[id].start => ~Below(world[id].ctr, st.last)

BooksInv ==
  /\ pc = "idle" => frame = NoFrame
  /\ \A id \in DOMAIN frame.conns :
       frame.conns[id].start = conns[id].start /\ frame.conns[id].ctr = conns[id].ctr
  /\ \A id \in DOMAIN activeMap :
       activeMap[id].start = conns[id].start
       /\ Sound(conns, blurred, id, activeMap[id])
  /\ \A id \in DOMAIN tombstones : Sound(conns, blurred, id, tombstones[id].state)

LEMMA SoundMarks ==
  ASSUME NEW world, NEW marks, NEW more, NEW id, NEW st, marks \subseteq more,
         Sound(world, marks, id, st)
  PROVE  Sound(world, more, id, st)
BY DEF Sound

\* A reading on from an earlier state, and one of a connection not known.
Reads(id, old, new) ==
  /\ new.start = old.start /\ new.base = old.base /\ new.last = frame.conns[id].ctr
  /\ ~Below(frame.conns[id].ctr, old.last) =>
       new.cum = Plus(old.cum, Monus(frame.conns[id].ctr, old.last))
StartsBooks(id, new) ==
  /\ new.start = frame.conns[id].start /\ new.last = frame.conns[id].ctr
  /\ Plus(new.base, new.cum) = new.last

LEMMA ReadsSound ==
  ASSUME TypeInv, BooksInv, NEW id \in todo, NEW old \in ConnState, NEW new,
         old.start = conns[id].start, Sound(conns, blurred, id, old),
         Reads(id, old, new)
  PROVE  new.start = conns[id].start /\ Sound(conns, blurred, id, new)
<1>1. /\ id \in DOMAIN frame.conns /\ frame.conns[id].ctr = conns[id].ctr
      /\ frame.conns[id].ctr \in Counter
  BY DEF TypeInv, FrameTypeOK, FrameConn, BooksInv
<1>2. /\ old.start \in Nat /\ old.last \in Counter /\ old.base \in Counter
      /\ old.cum \in Counter
  BY DEF ConnState
<1>3. ~Below(conns[id].ctr, conns[id].ctr)
  BY <1>1 DEF Below, Counter
<1>4. CASE <<id, old.start>> \in blurred
  BY <1>2, <1>4 DEF Sound, Reads
<1>5. CASE <<id, old.start>> \notin blurred
  <2>1. ~Below(frame.conns[id].ctr, old.last) /\ Plus(old.base, old.cum) = old.last
    BY <1>1, <1>5 DEF Sound
  <2>2. Plus(old.base, Plus(old.cum, Monus(frame.conns[id].ctr, old.last)))
          = frame.conns[id].ctr
    BY <1>1, <1>2, <2>1, PlusMonus
  <2>3. Plus(new.base, new.cum) = new.last
    BY <2>1, <2>2 DEF Reads
  <2>. QED BY <1>1, <1>2, <1>3, <2>3 DEF Sound, Reads
<1>. QED BY <1>4, <1>5

LEMMA StartsSound ==
  ASSUME TypeInv, BooksInv, NEW id \in todo, NEW new, StartsBooks(id, new)
  PROVE  new.start = conns[id].start /\ Sound(conns, blurred, id, new)
<1>1. /\ id \in DOMAIN frame.conns /\ frame.conns[id] \in FrameConn
      /\ frame.conns[id].ctr = conns[id].ctr
      /\ frame.conns[id].start = conns[id].start
  BY DEF TypeInv, FrameTypeOK, BooksInv
<1>2. conns[id].start \in Nat /\ ~Below(conns[id].ctr, conns[id].ctr)
  BY <1>1 DEF FrameConn, Below, Counter
<1>. QED BY <1>1, <1>2 DEF Sound, StartsBooks

\* What each section does to the books of the connection it processes.
LEMMA LoopReads ==
  ASSUME TypeInv, NEW id, InLoop("recovery", id) \/ InLoop("steady", id)
  PROVE  /\ RecoverKnown(id) => Reads(id, activeMap[id], activeMap'[id])
         /\ SteadyRegressed(id) => Reads(id, activeMap[id], activeMap'[id])
         /\ SteadyKnown(id) => Reads(id, activeMap[id], activeMap'[id])
         /\ SteadyReobserved(id) => Reads(id, tombstones[id].state, activeMap'[id])
<1>1. id \in todo /\ frame.conns[id] \in FrameConn
  BY DEF InLoop, TypeInv, FrameTypeOK
<1>2. /\ id \in DOMAIN activeMap => activeMap[id] \in ConnState
      /\ id \in DOMAIN tombstones => tombstones[id].state \in ConnState
  BY DEF TypeInv, TypeOK
<1>. DEFINE ctr == frame.conns[id].ctr
<1>. ctr \in Counter
  BY <1>1 DEF FrameConn
<1>3. ASSUME RecoverKnown(id) PROVE Reads(id, activeMap[id], activeMap'[id])
  <2>. DEFINE prev == activeMap[id]
              regressed == Below(ctr, prev.last)
              delta == IF regressed THEN Zero ELSE Monus(ctr, prev.last)
              health == IF regressed THEN <<HealthEvent(frame.ts, id)>> ELSE << >>
              before == Evident(prev, health)
              st == [before EXCEPT !.last = ctr, !.observedAt = frame.ts,
                                   !.cum = Plus(@, delta)]
              traffic == DeltaOrPresence(st, id, st, delta, gapStart)
  <2>1. /\ id \in DOMAIN activeMap
        /\ activeMap' = [activeMap EXCEPT ![id] = Evident(st, traffic)]
    BY <1>3 DEF RecoverKnown
  <2>2. /\ before \in ConnState /\ before.start = prev.start
        /\ before.cum = prev.cum /\ before.base = prev.base
    BY <1>2, <2>1, EvidentType
  <2>3. delta \in Counter
    BY <1>2, <2>1, CounterTypes DEF ConnState
  <2>4. ~regressed => delta = Monus(ctr, prev.last)
    OBVIOUS
  <2>. HIDE DEF before, delta
  <2>5. /\ st \in ConnState /\ st.start = prev.start /\ st.base = prev.base
        /\ st.last = ctr /\ st.cum = Plus(prev.cum, delta)
    <3>1. Plus(before.cum, delta) \in Counter /\ frame.ts \in Nat
      BY <2>2, <2>3, CounterTypes DEF ConnState, TypeInv, FrameTypeOK
    <3>. QED BY <2>2, <3>1 DEF ConnState
  <2>. HIDE DEF st
  <2>6. LET new == Evident(st, traffic) IN
          /\ new.start = prev.start /\ new.base = prev.base /\ new.last = ctr
          /\ new.cum = Plus(prev.cum, delta)
    BY <2>5, EvidentType
  <2>. QED BY <2>1, <2>4, <2>6 DEF Reads
<1>4. ASSUME SteadyRegressed(id) PROVE Reads(id, activeMap[id], activeMap'[id])
  <2>. DEFINE prev == activeMap[id]
              events == MetaEvents(id, prev) \o <<HealthEvent(frame.ts, id)>>
              before == Evident(prev, events)
              st == [before EXCEPT !.meta = frame.conns[id].meta, !.last = ctr]
  <2>1. /\ id \in DOMAIN activeMap /\ Below(ctr, activeMap[id].last)
        /\ activeMap' = [activeMap EXCEPT ![id] = st]
    BY <1>4 DEF SteadyRegressed
  <2>2. /\ before \in ConnState /\ before.start = prev.start
        /\ before.base = prev.base
    BY <1>2, <2>1, EvidentType
  <2>. HIDE DEF before
  <2>3. st.start = prev.start /\ st.base = prev.base /\ st.last = ctr
    BY <2>2 DEF ConnState
  <2>. QED BY <2>1, <2>3 DEF Reads
<1>5. ASSUME SteadyKnown(id) PROVE Reads(id, activeMap[id], activeMap'[id])
  <2>. DEFINE prev == activeMap[id]
              delta == Monus(ctr, prev.last)
              class == IF id \in frame.relays THEN Confirmed ELSE prev.class
              meta == MetaEvents(id, prev)
              changed == IF class # prev.class
                THEN <<[Event("RelayClassificationChanged", frame.ts) EXCEPT
                          !.conn = id, !.class = class]>>
                ELSE << >>
              before == Evident(prev, meta \o changed)
              st == [before EXCEPT !.meta = frame.conns[id].meta, !.class = class,
                       !.last = ctr, !.observedAt = frame.ts,
                       !.cum = Plus(@, delta)]
              traffic == DeltaOrPresence(st, id, st, delta, NoTime)
  <2>1. /\ id \in DOMAIN activeMap
        /\ activeMap' = [activeMap EXCEPT ![id] = Evident(st, traffic)]
    BY <1>5 DEF SteadyKnown
  <2>2. /\ before \in ConnState /\ before.start = prev.start
        /\ before.cum = prev.cum /\ before.base = prev.base
    BY <1>2, <2>1, EvidentType
  <2>3. delta \in Counter /\ class \in Class
    BY <1>2, <2>1, CounterTypes DEF ConnState, Class
  <2>. HIDE DEF before, delta, class
  <2>4. /\ st \in ConnState /\ st.start = prev.start /\ st.base = prev.base
        /\ st.last = ctr /\ st.cum = Plus(prev.cum, delta)
    <3>1. Plus(before.cum, delta) \in Counter /\ frame.ts \in Nat
      BY <2>2, <2>3, CounterTypes DEF ConnState, TypeInv, FrameTypeOK
    <3>2. frame.conns[id].meta \in Meta
      BY <1>1 DEF FrameConn
    <3>. QED BY <2>2, <2>3, <3>1, <3>2 DEF ConnState
  <2>. HIDE DEF st
  <2>5. LET new == Evident(st, traffic) IN
          /\ new.start = prev.start /\ new.base = prev.base /\ new.last = ctr
          /\ new.cum = Plus(prev.cum, delta)
    BY <2>4, EvidentType
  <2>. QED BY <2>1, <2>5 DEF Reads, delta
<1>6. ASSUME SteadyReobserved(id)
      PROVE  Reads(id, tombstones[id].state, activeMap'[id])
  <2>. DEFINE prev == tombstones[id].state
              cum == Plus(prev.cum, Monus(ctr, prev.last))
              st == Observed(id, cum, prev.base, ClassInFrame(id))
  <2>1. /\ id \in DOMAIN tombstones /\ prev.start = frame.conns[id].start
        /\ activeMap' = With(activeMap, id, st)
    BY <1>6 DEF SteadyReobserved, Continues
  <2>2. prev.base \in Counter /\ cum \in Counter
    BY <1>2, <2>1, CounterTypes DEF ConnState
  <2>. HIDE DEF cum
  <2>3. /\ st.start = frame.conns[id].start /\ st.base = prev.base
        /\ st.last = ctr /\ st.cum = cum
    BY <1>1, <2>2, ClassTypes, ObservedType
  <2>4. activeMap'[id] = st
    BY <2>1 DEF With
  <2>. QED BY <2>1, <2>3, <2>4 DEF Reads, cum
<1>. QED BY <1>3, <1>4, <1>5, <1>6

LEMMA LoopStarts ==
  ASSUME TypeInv, NEW id \in todo
  PROVE  /\ Baseline(id) => StartsBooks(id, activeMap'[id])
         /\ SteadyNew(id) => StartsBooks(id, activeMap'[id])
<1>. DEFINE ctr == frame.conns[id].ctr
<1>1. ctr \in Counter
  BY DEF TypeInv, FrameTypeOK, FrameConn
<1>2. Plus(ctr, Zero) = ctr /\ Plus(Zero, ctr) = ctr
  BY <1>1 DEF Plus, Zero, Counter
<1>3. ASSUME Baseline(id) PROVE StartsBooks(id, activeMap'[id])
  <2>. DEFINE st == Observed(id, Zero, ctr, InitialClass(frame.conns[id].meta))
  <2>1. activeMap'[id] = st
    BY <1>3 DEF Baseline, With
  <2>2. /\ st.start = frame.conns[id].start /\ st.last = ctr
        /\ st.cum = Zero /\ st.base = ctr
    BY <1>1, ClassTypes, CounterTypes, ObservedType
  <2>. QED BY <1>2, <2>1, <2>2 DEF StartsBooks
<1>4. ASSUME SteadyNew(id) PROVE StartsBooks(id, activeMap'[id])
  <2>. DEFINE st == Observed(id, ctr, Zero, ClassInFrame(id))
  <2>1. activeMap'[id] = st
    BY <1>4 DEF SteadyNew, With
  <2>2. /\ st.start = frame.conns[id].start /\ st.last = ctr
        /\ st.cum = ctr /\ st.base = Zero
    BY <1>1, ClassTypes, CounterTypes, ObservedType
  <2>. QED BY <1>2, <2>1, <2>2 DEF StartsBooks
<1>. QED BY <1>3, <1>4

LEMMA LoopBooks ==
  ASSUME TypeInv, BooksInv, WorldStays, UNCHANGED blurred,
         NEW section, section # "idle", NEW id, InLoop(section, id),
         DOMAIN activeMap' = DOMAIN activeMap \cup {id},
         \A x \in DOMAIN activeMap : x # id => activeMap'[x] = activeMap[x],
         activeMap'[id].start = conns[id].start,
         Sound(conns, blurred, id, activeMap'[id]),
         DOMAIN tombstones' \subseteq DOMAIN tombstones,
         \A x \in DOMAIN tombstones' : tombstones'[x] = tombstones[x]
  PROVE  BooksInv'
<1>1. conns' = conns /\ blurred' = blurred /\ frame' = frame /\ pc' # "idle"
  BY DEF WorldStays, mihomoVars, InLoop
<1>2. \A x \in DOMAIN activeMap' :
        activeMap'[x].start = conns'[x].start
        /\ Sound(conns', blurred', x, activeMap'[x])
  BY <1>1 DEF BooksInv
<1>3. \A x \in DOMAIN tombstones' :
        Sound(conns', blurred', x, tombstones'[x].state)
  BY <1>1 DEF BooksInv
<1>. QED BY <1>1, <1>2, <1>3 DEF BooksInv

LEMMA ProcessConnBooks ==
  ASSUME TypeInv, BooksInv, ProcessConn, WorldStays, UNCHANGED blurred
  PROVE  BooksInv'
<1>1. PICK id \in todo :
        \/ BootstrapConn(id) \/ RecoverBaseline(id) \/ RecoverKnown(id)
        \/ SteadyKnown(id) \/ SteadyRegressed(id)
        \/ SteadyReobserved(id) \/ SteadyNew(id)
  BY DEF ProcessConn
<1>2. /\ id \in DOMAIN activeMap =>
           /\ activeMap[id] \in ConnState /\ activeMap[id].start = conns[id].start
           /\ Sound(conns, blurred, id, activeMap[id])
      /\ id \in DOMAIN tombstones =>
           /\ tombstones[id].state \in ConnState
           /\ Sound(conns, blurred, id, tombstones[id].state)
  BY DEF TypeInv, TypeOK, BooksInv
<1>3. CASE BootstrapConn(id) \/ RecoverBaseline(id)
  <2>1. Baseline(id) /\ (InLoop("bootstrap", id) \/ InLoop("recovery", id))
    BY <1>3 DEF BootstrapConn, RecoverBaseline
  <2>2. /\ activeMap'[id].start = conns[id].start
        /\ Sound(conns, blurred, id, activeMap'[id])
    BY <2>1, LoopStarts, StartsSound
  <2>3. /\ DOMAIN activeMap' = DOMAIN activeMap \cup {id}
        /\ \A x \in DOMAIN activeMap : x # id => activeMap'[x] = activeMap[x]
        /\ UNCHANGED <<tombstones, tombstoneFIFO>>
    BY <2>1 DEF Baseline, With
  <2>. QED BY <2>1, <2>2, <2>3, LoopBooks
<1>4. CASE RecoverKnown(id)
  <2>1. id \in DOMAIN activeMap /\ InLoop("recovery", id)
    BY <1>4 DEF RecoverKnown
  <2>2. /\ activeMap'[id].start = conns[id].start
        /\ Sound(conns, blurred, id, activeMap'[id])
    BY <1>2, <1>4, <2>1, LoopReads, ReadsSound
  <2>3. /\ DOMAIN activeMap' = DOMAIN activeMap \cup {id}
        /\ \A x \in DOMAIN activeMap : x # id => activeMap'[x] = activeMap[x]
        /\ UNCHANGED tombstones
    BY <1>4, <2>1 DEF RecoverKnown
  <2>. QED BY <2>1, <2>2, <2>3, LoopBooks
<1>5. CASE SteadyRegressed(id)
  <2>1. id \in DOMAIN activeMap /\ InLoop("steady", id)
    BY <1>5 DEF SteadyRegressed
  <2>2. /\ activeMap'[id].start = conns[id].start
        /\ Sound(conns, blurred, id, activeMap'[id])
    BY <1>2, <1>5, <2>1, LoopReads, ReadsSound
  <2>3. /\ DOMAIN activeMap' = DOMAIN activeMap \cup {id}
        /\ \A x \in DOMAIN activeMap : x # id => activeMap'[x] = activeMap[x]
        /\ UNCHANGED tombstones
    BY <1>5, <2>1 DEF SteadyRegressed
  <2>. QED BY <2>1, <2>2, <2>3, LoopBooks
<1>6. CASE SteadyKnown(id)
  <2>1. id \in DOMAIN activeMap /\ InLoop("steady", id)
    BY <1>6 DEF SteadyKnown
  <2>2. /\ activeMap'[id].start = conns[id].start
        /\ Sound(conns, blurred, id, activeMap'[id])
    BY <1>2, <1>6, <2>1, LoopReads, ReadsSound
  <2>3. /\ DOMAIN activeMap' = DOMAIN activeMap \cup {id}
        /\ \A x \in DOMAIN activeMap : x # id => activeMap'[x] = activeMap[x]
        /\ UNCHANGED tombstones
    BY <1>6, <2>1 DEF SteadyKnown
  <2>. QED BY <2>1, <2>2, <2>3, LoopBooks
<1>7. CASE SteadyReobserved(id)
  <2>1. /\ InLoop("steady", id) /\ id \in DOMAIN tombstones
        /\ tombstones[id].state.start = conns[id].start
    BY <1>7 DEF SteadyReobserved, Continues, BooksInv, TypeInv, FrameTypeOK
  <2>2. /\ activeMap'[id].start = conns[id].start
        /\ Sound(conns, blurred, id, activeMap'[id])
    BY <1>2, <1>7, <2>1, LoopReads, ReadsSound
  <2>3. /\ DOMAIN activeMap' = DOMAIN activeMap \cup {id}
        /\ \A x \in DOMAIN activeMap : x # id => activeMap'[x] = activeMap[x]
        /\ DOMAIN tombstones' \subseteq DOMAIN tombstones
        /\ \A x \in DOMAIN tombstones' : tombstones'[x] = tombstones[x]
    BY <1>7 DEF SteadyReobserved, TakeTombstone, With, Without
  <2>. QED BY <2>1, <2>2, <2>3, LoopBooks
<1>8. CASE SteadyNew(id)
  <2>1. InLoop("steady", id)
    BY <1>8 DEF SteadyNew
  <2>2. /\ activeMap'[id].start = conns[id].start
        /\ Sound(conns, blurred, id, activeMap'[id])
    BY <1>8, LoopStarts, StartsSound
  <2>3. /\ DOMAIN activeMap' = DOMAIN activeMap \cup {id}
        /\ \A x \in DOMAIN activeMap : x # id => activeMap'[x] = activeMap[x]
        /\ DOMAIN tombstones' \subseteq DOMAIN tombstones
        /\ \A x \in DOMAIN tombstones' : tombstones'[x] = tombstones[x]
    BY <1>8 DEF SteadyNew, TakeTombstone, With, Without
  <2>. QED BY <2>1, <2>2, <2>3, LoopBooks
<1>. QED BY <1>1, <1>3, <1>4, <1>5, <1>6, <1>7, <1>8

\* Mihomo only adds to a connection's counter, or starts another connection
\* under its ID once the engine has let go of it; a reading that goes
\* backwards is marked.
Onward(id) ==
  \/ conns'[id].start = conns[id].start + 1 /\ id \notin DOMAIN activeMap
  \/ /\ conns'[id].start = conns[id].start
     /\ conns'[id].live => conns[id].live
     /\ \/ \A d \in Dir : conns[id].ctr[d] <= conns'[id].ctr[d]
                          /\ conns'[id].ctr[d] \in Nat
        \/ <<id, conns[id].start>> \in blurred'

LEMMA WorldMoves ==
  ASSUME TypeInv, MihomoMoves \/ CounterAnomaly
  PROVE  blurred \subseteq blurred' /\ \A id \in Conn : Onward(id)
<1>1. conns \in [Conn -> MihomoConn]
  BY DEF TypeInv, WorldTypeOK, MihomoConn
<1>2. \A id \in Conn : /\ conns[id].start \in Nat /\ conns[id].ctr \in Counter
                       /\ conns[id].live \in BOOLEAN
                       /\ \A d \in Dir : conns[id].ctr[d] \in Nat
  BY <1>1, MihomoConnParts DEF Counter, MihomoConn
<1>3. blurred \subseteq blurred'
  BY DEF MihomoMoves, CounterAnomaly
<1>. USE DEF Onward
<1>4. \A id \in Conn : Onward(id)
  <2>1. ASSUME NEW x \in Conn \ DOMAIN activeMap, NEW m \in Meta, Open(x, m)
        PROVE  \A id \in Conn : Onward(id)
    BY <1>1, <1>2, <2>1 DEF Open
  <2>2. ASSUME NEW x \in Conn, NEW d \in Dir, Carry(x, d)
        PROVE  \A id \in Conn : Onward(id)
    <3>1. conns' = [conns EXCEPT ![x] = [conns[x] EXCEPT !.ctr[d] = @ + 1]]
      BY <1>1, <2>2 DEF Carry, MihomoConn
    <3>2. [conns[x] EXCEPT !.ctr[d] = @ + 1].start = conns[x].start
          /\ [conns[x] EXCEPT !.ctr[d] = @ + 1].ctr = [conns[x].ctr EXCEPT ![d] = @ + 1]
      BY <1>1 DEF MihomoConn
    <3>3. \A e \in Dir : LET c == [conns[x].ctr EXCEPT ![d] = @ + 1]
                         IN  conns[x].ctr[e] <= c[e] /\ c[e] \in Nat
      BY <1>2 DEF Counter
    <3>. QED BY <1>1, <1>2, <3>1, <3>2, <3>3
  <2>3. ASSUME NEW x \in Conn, NEW m \in Meta, Reroute(x, m)
        PROVE  \A id \in Conn : Onward(id)
    <3>1. conns' = [conns EXCEPT ![x] = [conns[x] EXCEPT !.meta = m]]
      BY <1>1, <2>3 DEF Reroute, MihomoConn
    <3>2. \A id \in Conn : /\ conns'[id].start = conns[id].start
                           /\ conns'[id].ctr = conns[id].ctr
                           /\ conns'[id].live => conns[id].live
      BY <1>1, <3>1 DEF MihomoConn
    <3>. QED BY <1>2, <3>2
  <2>4. ASSUME NEW x \in Conn, Shut(x) PROVE \A id \in Conn : Onward(id)
    <3>1. conns' = [conns EXCEPT ![x] = [conns[x] EXCEPT !.live = FALSE]]
      BY <1>1, <2>4 DEF Shut, MihomoConn
    <3>2. \A id \in Conn : /\ conns'[id].start = conns[id].start
                           /\ conns'[id].ctr = conns[id].ctr
                           /\ conns'[id].live => conns[id].live
      BY <1>1, <3>1 DEF MihomoConn
    <3>. QED BY <1>2, <3>2
  <2>5. ASSUME Restart PROVE \A id \in Conn : Onward(id)
    <3>1. \A id \in Conn : /\ conns'[id].start = conns[id].start
                           /\ conns'[id].ctr = conns[id].ctr
                           /\ conns'[id].live => conns[id].live
      BY <1>1, <2>5 DEF Restart, MihomoConn
    <3>. QED BY <1>2, <3>1
  <2>6. CASE CounterAnomaly
    <3>1. PICK x \in Conn, d \in Dir :
            /\ conns' = [conns EXCEPT ![x].ctr[d] = @ - 1]
            /\ <<x, conns[x].start>> \in blurred'
      BY <2>6 DEF CounterAnomaly, LiveConns
    <3>2. conns' = [conns EXCEPT ![x] = [conns[x] EXCEPT !.ctr[d] = @ - 1]]
      BY <1>1, <3>1 DEF MihomoConn
    <3>3. [conns[x] EXCEPT !.ctr[d] = @ - 1].start = conns[x].start
      BY <1>1 DEF MihomoConn
    <3>. QED BY <1>1, <1>2, <3>1, <3>2, <3>3
  <2>. QED BY <2>1, <2>2, <2>3, <2>4, <2>5, <2>6 DEF MihomoMoves, MihomoOpens
<1>. QED BY <1>3, <1>4

LEMMA WorldBooks ==
  ASSUME TypeInv, MihomoMoves \/ CounterAnomaly
  PROVE  /\ blurred \subseteq blurred'
         /\ \A id \in DOMAIN activeMap : conns'[id].start = conns[id].start
         /\ \A id \in Conn, st \in ConnState :
              Sound(conns, blurred, id, st) => Sound(conns', blurred', id, st)
<1>1. \A id \in Conn : conns[id].start \in Nat /\ conns[id].ctr \in Counter
  BY MihomoConnParts DEF TypeInv, WorldTypeOK, MihomoConn
<1>2. blurred \subseteq blurred' /\ \A id \in Conn : Onward(id)
  BY WorldMoves
<1>3. \A id \in DOMAIN activeMap : conns'[id].start = conns[id].start
  <2>1. DOMAIN activeMap \subseteq Conn
    BY DEF TypeInv, TypeOK
  <2>. QED BY <1>2, <2>1 DEF Onward
<1>4. ASSUME NEW id \in Conn, NEW st \in ConnState, Sound(conns, blurred, id, st)
      PROVE  Sound(conns', blurred', id, st)
  <2>1. st.start \in Nat /\ \A d \in Dir : st.last[d] \in Nat
    BY DEF ConnState, Counter
  <2>2. conns[id].start \in Nat /\ \A d \in Dir : conns[id].ctr[d] \in Nat
    BY <1>1 DEF Counter
  <2>3. Onward(id) /\ blurred \subseteq blurred'
    BY <1>2
  <2>. QED BY ONLY <1>4, <2>1, <2>2, <2>3, SMTT(30) DEF Onward, Sound, Below
<1>. QED BY <1>2, <1>3, <1>4

LEMMA DisappearBooks ==
  ASSUME TypeInv, BooksInv, WorldStays, blurred \subseteq blurred',
         NEW id \in DOMAIN activeMap, Disappear(id)
  PROVE  BooksInv'
<1>. DEFINE new == [state |-> activeMap[id], at |-> frameSequence]
            map == With(tombstones, id, new)
<1>1. /\ conns' = conns /\ frame' = frame /\ pc' = pc /\ pc # "idle"
      /\ RecordTombstone(id) /\ activeMap' = Without(activeMap, id)
  BY DEF WorldStays, mihomoVars, Disappear, frameVars
<1>2. \A x \in DOMAIN map : Sound(conns, blurred, x, map[x].state)
  BY DEF BooksInv, With
<1>3. \A x \in DOMAIN tombstones' : x \in DOMAIN map /\ tombstones'[x] = map[x]
  BY <1>1 DEF RecordTombstone, Without
<1>. HIDE DEF map
<1>4. \A x \in DOMAIN tombstones' :
        Sound(conns', blurred', x, tombstones'[x].state)
  BY <1>1, <1>2, <1>3, SoundMarks
<1>5. \A x \in DOMAIN activeMap' :
        activeMap'[x].start = conns'[x].start
        /\ Sound(conns', blurred', x, activeMap'[x])
  <2>1. \A x \in DOMAIN activeMap' : x \in DOMAIN activeMap
                                     /\ activeMap'[x] = activeMap[x]
    BY <1>1 DEF Without
  <2>. QED BY <1>1, <2>1, SoundMarks DEF BooksInv
<1>. QED BY <1>1, <1>4, <1>5 DEF BooksInv

LEMMA FrameBooks ==
  ASSUME TypeInv, BooksInv, FrameArrives
  PROVE  BooksInv'
<1>0. PICK missing \in SUBSET LiveConns : \E R \in RelayChoices(Snapshot(missing)) :
        ProcessFrame([ts |-> clock, conns |-> Snapshot(missing), total |-> total,
                      relays |-> R])
  BY DEF FrameArrives
<1>1. PICK R \in RelayChoices(Snapshot(missing)) :
        ProcessFrame([ts |-> clock, conns |-> Snapshot(missing), total |-> total,
                      relays |-> R])
  BY <1>0
<1>. DEFINE f == [ts |-> clock, conns |-> Snapshot(missing), total |-> total,
                  relays |-> R]
<1>2. \A id \in DOMAIN f.conns :
        f.conns[id].start = conns[id].start /\ f.conns[id].ctr = conns[id].ctr
  BY SnapshotType
<1>3. ProcessFrame(f)
  BY <1>1
<1>. HIDE DEF f
<1>4. /\ frame' = f /\ pc' # "idle"
      /\ \/ UNCHANGED <<activeMap, tombstones>>
         \/ activeMap' = << >> /\ tombstones' = << >>
  BY <1>3 DEF ProcessFrame, StartRecovery, StartEpochBreakAcrossGap, StartEpochBreak,
     StartBootstrap, StartSteady, BeginFrame, StartNewEpoch, ResetTombstones, connVars
<1>5. conns' = conns /\ blurred' = blurred
  BY DEF FrameArrives, WorldStays, mihomoVars
<1>6. DOMAIN << >> = {}
  OBVIOUS
<1>. QED BY <1>2, <1>4, <1>5, <1>6 DEF BooksInv

LEMMA BooksNext == TypeInv /\ BooksInv /\ [Next]_vars => BooksInv'
<1>. SUFFICES ASSUME TypeInv, BooksInv, [Next]_vars PROVE BooksInv'
  OBVIOUS
<1>1. /\ DOMAIN activeMap \subseteq Conn /\ DOMAIN tombstones \subseteq Conn
      /\ \A id \in DOMAIN activeMap : activeMap[id] \in ConnState
      /\ \A id \in DOMAIN tombstones : tombstones[id].state \in ConnState
  BY DEF TypeInv, TypeOK
<1>2. DOMAIN NoFrame.conns = {}
  BY DEF NoFrame
\* Sections that leave the maps alone, and end the frame if at all.
<1>3. ASSUME UNCHANGED <<conns, blurred, activeMap, tombstones>>,
             \/ frame' = NoFrame
             \/ frame' = frame /\ (pc' = "idle" => pc = "idle")
      PROVE  BooksInv'
  BY <1>2, <1>3 DEF BooksInv
<1>4. CASE Tick \/ Stopped \/ UNCHANGED vars
  BY <1>3, <1>4 DEF Tick, Quiet, Stopped, vars, engineVars, connVars, frameVars,
     mihomoVars
<1>5. CASE MihomoMoves \/ CounterAnomaly
  <2>1. pc = "idle" /\ UNCHANGED <<activeMap, tombstones, frame, pc>>
    BY <1>5 DEF MihomoMoves, CounterAnomaly, Quiet, Idle, engineVars, connVars,
       frameVars
  <2>2. frame = NoFrame
    BY <2>1 DEF BooksInv
  <2>. QED BY <1>1, <1>2, <1>5, <2>1, <2>2, WorldBooks DEF BooksInv
<1>6. CASE StreamLost
  BY <1>3, <1>6 DEF StreamLost, GapOpened, WorldStays, mihomoVars, connVars, frameVars
<1>7. CASE Health
  BY <1>3, <1>7 DEF Health, CollectorHealth, WorldStays, mihomoVars, connVars,
     frameVars
<1>8. CASE SessionEnds
  BY <1>3, <1>8 DEF SessionEnds, Shutdown, WorldStays, mihomoVars, connVars
<1>9. CASE SinkKeeps
  BY <1>3, <1>9 DEF SinkKeeps, WorldStays, mihomoVars, connVars, frameVars
<1>10. CASE SinkRefuses
  BY <1>3, <1>10 DEF SinkRefuses, SinkFails, WorldStays, mihomoVars, connVars
<1>11. CASE FrameArrives
  BY <1>11, FrameBooks
<1>12. CASE ConnDisappears
  <2>1. /\ blurred \subseteq blurred' /\ WorldStays
        /\ \E id \in DOMAIN activeMap : Disappear(id)
    BY <1>12 DEF ConnDisappears
  <2>. QED BY <2>1, DisappearBooks
<1>13. CASE FrameProceeds
  <2>1. CASE ProcessConn
    BY <1>13, <2>1, ProcessConnBooks DEF FrameProceeds
  <2>2. CASE EndSteady \/ EndRecovery \/ EndBootstrap
    BY <1>3, <1>13, <2>2 DEF FrameProceeds, WorldStays, mihomoVars, EndSteady,
       EndRecovery, EndBootstrap, EndFrame, connVars
  <2>3. CASE EndBootstrapLoop
    BY <1>3, <1>13, <2>3 DEF FrameProceeds, WorldStays, mihomoVars,
       EndBootstrapLoop, connVars
  <2>. QED BY <1>13, <2>1, <2>2, <2>3 DEF FrameProceeds
<1>. QED BY <1>4, <1>5, <1>6, <1>7, <1>8, <1>9, <1>10, <1>11, <1>12, <1>13 DEF Next

\* Over steady frames, flaps, stream losses and recoveries, with frames that
\* leave live connections out and a sink that may fail at any event, baseline
\* and monitored bytes of a connection add up to its last reading.
THEOREM CountersConserved == Spec => []CounterConservation
<1>1. Init => BooksInv
  <2>1. DOMAIN << >> = {} /\ DOMAIN NoFrame.conns = {}
    BY DEF NoFrame
  <2>. QED BY <2>1 DEF Init, EngineInit, BooksInv
<1>2. BooksInv => CounterConservation
  BY DEF BooksInv, Sound, CounterConservation
<1>. QED BY <1>1, <1>2, InitType, NextType, BooksNext, PTL DEF Spec

-----------------------------------------------------------------------------
(* What an auditor reads: no byte is credited twice, quiet connections     *)
(* keep evidence, and silence is in a gap.  The invariants relate the      *)
(* engine to what the sink has kept, so they follow every event from the   *)
(* section that emits it, through the outbox, to the record.               *)

InFrame == {"bootstrap", "bootstrapped", "recovery", "steady"}

AtMost(f, g) == \A d \in Dir : f[d] <= g[d]

-----------------------------------------------------------------------------
(* Credit.  What is kept of an incarnation, and what the last event on its *)
(* way to the sink will add.                                               *)

Kept(id) == IF credited[id].start = conns[id].start THEN credited[id].bytes ELSE Zero

Due(id) ==
  IF outbox # << >> /\ Credits(outbox[Len(outbox)].ev)
     /\ outbox[Len(outbox)].ev.conn = id
  THEN outbox[Len(outbox)].ev.delta ELSE Zero

Claimed(id) == Plus(Kept(id), Due(id))

Clear(id) == <<id, conns[id].start>> \notin blurred

\* The engine has a reading of the incarnation to go on from.
Reading(id) ==
  IF id \in DOMAIN activeMap THEN {activeMap[id].last}
  ELSE {tombstones[x].state.last : x \in {y \in DOMAIN tombstones :
          y = id /\ tombstones[y].state.start = conns[id].start}}

\* Of one section only the last event credits bytes.
OutboxInv ==
  \A i \in DOMAIN outbox :
    Credits(outbox[i].ev) =>
      /\ i = Len(outbox)
      /\ outbox[i].ev.conn \in Conn
      /\ outbox[i].ev.start = conns[outbox[i].ev.conn].start

StageInv ==
  /\ pc \in InFrame => frame.total = total
                      /\ \A id \in DOMAIN frame.conns : conns[id].live
  /\ pc \in {"recovery", "steady"} => ~isBootstrapFrame /\ ~Below(total, prevTotal)
  /\ isBootstrapFrame => ~gapIsOpen
  /\ pc = "idle" /\ hasEverBeenHealthy => ~isBootstrapFrame

CreditOf(id) ==
  /\ credited[id].start <= conns[id].start
  /\ Clear(id) => /\ AtMost(Claimed(id), conns[id].ctr)
                  /\ \A r \in Reading(id) : AtMost(Claimed(id), r)
  /\ conns[id].live =>
       /\ Clear(id) /\ Reading(id) = {} => Claimed(id) = Zero
       /\ isBootstrapFrame \/ Below(total, prevTotal) => Claimed(id) = Zero

CreditInv ==
  /\ OutboxInv /\ StageInv
  /\ credited \in [Conn -> [start : Nat, bytes : Counter]]
  /\ \A id \in Conn : CreditOf(id)

-----------------------------------------------------------------------------
(* Evidence.                                                               *)

EvidenceInv ==
  /\ evidence \in [Conn -> Nat]
  /\ pc = "idle" \/ pc \in InFrame =>
       \A id \in DOMAIN activeMap :
         \/ evidence[id] = activeMap[id].evidenceAt
         \/ \E i \in DOMAIN outbox : outbox[i].ev.conn = id
  /\ \A i \in DOMAIN outbox :
       outbox[i].ev.conn \in DOMAIN activeMap =>
         outbox[i].ev.ts = activeMap[outbox[i].ev.conn].evidenceAt
  /\ pc \in InFrame =>
       \A id \in DOMAIN activeMap \cap (DOMAIN frame.conns \ todo) :
         frame.ts - activeMap[id].evidenceAt < PresenceInterval
  /\ pc \in {"bootstrap", "bootstrapped"} => DOMAIN activeMap \subseteq DOMAIN frame.conns
  /\ pc = "idle" =>
       \A id \in DOMAIN activeMap : lastHealthyAt - activeMap[id].evidenceAt < PresenceInterval

-----------------------------------------------------------------------------
(* Gaps.                                                                   *)

Kinds(i) == outbox[i].ev.type
Finishing == \E i \in DOMAIN outbox : Kinds(i) = "Residual"

Recorded(from, to) == gap = [open |-> FALSE, from |-> from, to |-> to]
Recording(from, to) ==
  \/ Recorded(from, to)
  \/ \E i \in DOMAIN outbox :
       Kinds(i) = "GapClosed" /\ outbox[i].ev.from = from /\ outbox[i].ev.to = to

Silent(ts) == IF seen.first THEN ts - createdAt >= MinGap ELSE seen.lost

LifeInv ==
  /\ clock \in Nat \ {0}
  /\ seen \in [prev : Nat, last : Nat, first : BOOLEAN, lost : BOOLEAN, silent : BOOLEAN]
  /\ seen.first => seen.last = createdAt
  /\ ~hasEverBeenHealthy => isBootstrapFrame /\ ~gapIsOpen
  /\ isBootstrapFrame => ~gapIsOpen
  /\ pc = "idle" /\ hasEverBeenHealthy => ~isBootstrapFrame
  /\ pc \in {"idle", "bootstrap"} /\ ~hasEverBeenHealthy => ~unobservedGapEmitted
  /\ pc \in {"recovery", "steady"} => hasEverBeenHealthy /\ ~isBootstrapFrame
  /\ pc = "failed" => refused
  /\ pc \in InFrame => frame.ts > 0
  /\ pc \in InFrame \/ (pc = "idle" /\ ~Finishing) => (seen.first <=> ~hasEverBeenHealthy)

NoticesInv ==
  \A i \in DOMAIN outbox :
    /\ Kinds(i) = "Residual" => pc = "idle" /\ Len(outbox) = 1 /\ outbox[i].ev.ts = lastHealthyAt
    /\ Kinds(i) = "GapOpened" => pc = "idle" \/ \E j \in DOMAIN outbox : i < j /\ Kinds(j) = "GapClosed"
    /\ Kinds(i) = "GapClosed" =>
         \/ pc \in InFrame /\ outbox[i].ev.from = seen.last /\ outbox[i].ev.to = frame.ts
         \/ pc = "stopped" /\ outbox[i].ev.from = createdAt /\ outbox[i].ev.to = clock

SilenceInv ==
  /\ pc = "idle" /\ ~Finishing =>
       /\ ~seen.first => seen.last = lastHealthyAt /\ lastHealthyAt # NoTime
       /\ gapIsOpen => gapStart = seen.last
       /\ seen.lost /\ ~seen.first => gapIsOpen
       /\ seen.silent => Recorded(seen.prev, seen.last) \/ gap.open
  /\ pc = "idle" /\ Finishing =>
       /\ hasEverBeenHealthy /\ ~gapIsOpen /\ lastHealthyAt # NoTime
       /\ Silent(lastHealthyAt) => Recorded(seen.last, lastHealthyAt)
  /\ pc \in InFrame /\ ~seen.first /\ seen.lost => Recording(seen.last, frame.ts)
  /\ pc = "bootstrapped" =>
       /\ lastHealthyAt = frame.ts
       /\ Silent(frame.ts) => Recording(seen.last, frame.ts)
  /\ pc \in {"bootstrap", "bootstrapped", "steady"} => ~gapIsOpen
  /\ pc = "stopped" /\ ~hasEverBeenHealthy /\ ~refused /\ clock - createdAt >= MinGap =>
       Recording(createdAt, clock)

GapInv == LifeInv /\ NoticesInv /\ SilenceInv

-----------------------------------------------------------------------------
(* What a section says of the connection it processes: marks, which credit *)
(* nothing, and at most one event after them that tells of its bytes.      *)

Mark(id) ==
  {e \in EventType : /\ e.conn = id /\ e.ts = frame.ts
                     /\ e.type \in {"Health", "MetadataUpdated",
                                    "RelayClassificationChanged"}}
Tale(id, due) ==
  {e \in EventType : /\ e.conn = id /\ e.ts = frame.ts
                     /\ e.type \in {"Bootstrap", "New", "Delta", "Presence"}
                     /\ Credits(e) => e.start = conns[id].start /\ e.delta = due}

Voices(id, due) ==
  \A i \in DOMAIN outbox' :
    LET e == outbox'[i].ev
    IN  /\ e.conn = id /\ e.ts = frame.ts
        /\ e.type \notin {"Residual", "GapOpened", "GapClosed"}
        /\ Credits(e) => i = Len(outbox') /\ e.start = conns[id].start /\ e.delta = due

\* The evidence the engine notes is that of the events, and it is fresh.
Freshly(id) ==
  \/ activeMap'[id].evidenceAt = frame.ts /\ DOMAIN outbox' # {}
  \/ /\ id \in DOMAIN activeMap /\ DOMAIN outbox' = {}
     /\ activeMap'[id].evidenceAt = activeMap[id].evidenceAt
     /\ frame.ts - activeMap[id].evidenceAt < PresenceInterval

\* What it credits is what was read since the last reading there is.
Earned(id, due) ==
  \/ due = Zero
  \/ pc \in {"recovery", "steady"}
     /\ \E r \in Reading(id) : due = Monus(frame.conns[id].ctr, r)
  \/ pc = "steady" /\ Reading(id) = {} /\ due = frame.conns[id].ctr

LEMMA EmitVoices ==
  ASSUME NEW id, NEW due, NEW marks \in Seq(Mark(id)), NEW tales,
         tales = << >> \/ \E e \in Tale(id, due) : tales = <<e>>,
         Emit(marks \o tales)
  PROVE  /\ Voices(id, due)
         /\ DOMAIN outbox' = {} <=> marks = << >> /\ tales = << >>
<1>. DEFINE events == marks \o tales
<1>1. /\ tales \in Seq(Tale(id, due)) /\ Len(tales) \in {0, 1}
      /\ tales # << >> => tales[1] \in Tale(id, due) /\ Len(tales) = 1
  <2>1. CASE tales = << >>
    BY <2>1
  <2>2. ASSUME NEW e \in Tale(id, due), tales = <<e>> 
        PROVE  /\ tales \in Seq(Tale(id, due)) /\ Len(tales) \in {0, 1}
               /\ tales[1] \in Tale(id, due) /\ Len(tales) = 1
    BY <2>2
  <2> QED BY <2>1, <2>2
<1>2. /\ Len(events) = Len(marks) + Len(tales) /\ Len(events) \in Nat
      /\ Len(marks) \in Nat
      /\ \A i \in 1..Len(events) :
           events[i] = IF i <= Len(marks) THEN marks[i] ELSE tales[i - Len(marks)]
  BY <1>1
<1>3. \A i \in 1..Len(events) :
        \/ i <= Len(marks) /\ events[i] \in Mark(id)
        \/ i = Len(events) /\ events[i] \in Tale(id, due)
  <2>. TAKE i \in 1..Len(events)
  <2>1. CASE i <= Len(marks)
    BY <1>2, <2>1
  <2>2. CASE i > Len(marks)
    <3>1. Len(tales) = 1 /\ i = Len(events) /\ i - Len(marks) = 1
      BY <1>1, <1>2, <2>2
    <3>2. tales[1] \in Tale(id, due)
      BY <1>1, <3>1
    <3> QED BY <1>2, <3>1, <3>2, <2>2
  <2> QED BY <1>2, <2>1, <2>2
<1>4. marks = << >> /\ tales = << >> <=> Len(events) = 0
  BY <1>1, <1>2
<1>5. outbox' = [i \in 1..Len(events) |-> [epoch |-> epochID, frame |-> frameSequence,
                   seq |-> eventSequence + i, ev |-> events[i]]]
  BY DEF Emit
<1>. HIDE DEF events
<1>6. outbox' = [i \in 1..Len(events) |-> outbox'[i]] /\ DOMAIN outbox' = 1..Len(events)
      /\ \A i \in DOMAIN outbox' : outbox'[i].ev = events[i]
  BY <1>5
<1>7. Len(outbox') = Len(events)
  BY <1>2, <1>6
<1>8. \A e \in Mark(id) : ~Credits(e) /\ e.conn = id /\ e.ts = frame.ts
                          /\ e.type \notin {"Residual", "GapOpened", "GapClosed"}
  BY DEF Mark, Credits
<1>9. \A e \in Tale(id, due) :
        /\ e.conn = id /\ e.ts = frame.ts
        /\ e.type \notin {"Residual", "GapOpened", "GapClosed"}
        /\ Credits(e) => e.start = conns[id].start /\ e.delta = due
  BY DEF Tale
<1>10. Voices(id, due)
  BY <1>3, <1>6, <1>7, <1>8, <1>9 DEF Voices
<1>11. DOMAIN outbox' = {} <=> Len(events) = 0
  BY <1>2, <1>6
<1> QED BY <1>4, <1>10, <1>11

LEMMA EventParts ==
  ASSUME NEW type, NEW ts, NEW id, NEW st, NEW delta
  PROVE  /\ Event(type, ts).type = type /\ Event(type, ts).ts = ts
         /\ LET e == ConnEvent(type, ts, id, st, delta)
            IN  /\ e.type = type /\ e.ts = ts /\ e.conn = id /\ e.start = st.start
                /\ e.delta = delta
         /\ LET e == HealthEvent(ts, id) IN e.type = "Health" /\ e.ts = ts /\ e.conn = id
BY DEF Event, ConnEvent, HealthEvent

LEMMA MarkTypes ==
  ASSUME TypeInv, NEW id \in todo
  PROVE  /\ HealthEvent(frame.ts, id) \in Mark(id)
         /\ [Event("MetadataUpdated", frame.ts) EXCEPT !.conn = id] \in Mark(id)
         /\ \A class \in Class :
              [Event("RelayClassificationChanged", frame.ts) EXCEPT
                 !.conn = id, !.class = class] \in Mark(id)
         /\ \A r, s \in Seq(Mark(id)) : r \o s \in Seq(Mark(id))
         /\ \A e \in Mark(id) : <<e>> \in Seq(Mark(id))
         /\ << >> \in Seq(Mark(id))
<1>1. id \in Nat /\ frame.ts \in Nat
  BY ConnAssumption DEF TypeInv, TypeOK, FrameTypeOK
<1>2. /\ HealthEvent(frame.ts, id) \in EventType
      /\ Event("MetadataUpdated", frame.ts) \in EventType
      /\ Event("RelayClassificationChanged", frame.ts) \in EventType
  BY <1>1, EventTypes DEF EventKind
<1>3. HealthEvent(frame.ts, id) \in Mark(id)
  BY <1>2 DEF Mark, HealthEvent, Event
<1>4. ASSUME NEW e \in EventType, e.type = "MetadataUpdated", e.ts = frame.ts
      PROVE  [e EXCEPT !.conn = id] \in Mark(id)
  BY <1>1, <1>4 DEF Mark, EventType
<1>5. ASSUME NEW e \in EventType, e.type = "RelayClassificationChanged", e.ts = frame.ts,
             NEW class \in Class
      PROVE  [e EXCEPT !.conn = id, !.class = class] \in Mark(id)
  BY <1>1, <1>5 DEF Mark, EventType
<1>6. /\ Event("MetadataUpdated", frame.ts).type = "MetadataUpdated"
      /\ Event("MetadataUpdated", frame.ts).ts = frame.ts
      /\ Event("RelayClassificationChanged", frame.ts).type = "RelayClassificationChanged"
      /\ Event("RelayClassificationChanged", frame.ts).ts = frame.ts
  BY DEF Event
<1>7. [Event("MetadataUpdated", frame.ts) EXCEPT !.conn = id] \in Mark(id)
  BY <1>2, <1>4, <1>6
<1>8. \A class \in Class :
        [Event("RelayClassificationChanged", frame.ts) EXCEPT
           !.conn = id, !.class = class] \in Mark(id)
  BY <1>2, <1>5, <1>6
<1>9. /\ \A r, s \in Seq(Mark(id)) : r \o s \in Seq(Mark(id))
      /\ \A e \in Mark(id) : <<e>> \in Seq(Mark(id))
      /\ << >> \in Seq(Mark(id))
  OBVIOUS
<1> QED BY <1>3, <1>7, <1>8, <1>9

LEMMA MetaMarks ==
  ASSUME TypeInv, NEW id \in todo, NEW prev
  PROVE  MetaEvents(id, prev) \in Seq(Mark(id))
<1>. DEFINE chains == IF frame.conns[id].meta.chains # prev.meta.chains
                      THEN <<HealthEvent(frame.ts, id)>> ELSE << >>
            meta == IF frame.conns[id].meta # prev.meta
                    THEN <<[Event("MetadataUpdated", frame.ts) EXCEPT !.conn = id]>>
                    ELSE << >>
<1>1. chains \in Seq(Mark(id)) /\ meta \in Seq(Mark(id))
  BY MarkTypes
<1>2. MetaEvents(id, prev) = chains \o meta
  BY DEF MetaEvents
<1>. HIDE DEF chains, meta
<1> QED BY <1>1, <1>2, MarkTypes

\* Bytes give a delta, silence a checkpoint now and then.
LEMMA TrafficTale ==
  ASSUME TypeInv, NEW id \in todo, NEW st \in ConnState, NEW delta \in Counter,
         NEW from \in Nat, st.start = conns[id].start
  PROVE  LET tales == DeltaOrPresence(st, id, st, delta, from)
         IN  /\ tales = << >> \/ \E e \in Tale(id, delta) : tales = <<e>>
             /\ tales = << >> => frame.ts - st.evidenceAt < PresenceInterval
<1>1. id \in Nat /\ frame.ts \in Nat
  BY ConnAssumption DEF TypeInv, TypeOK, FrameTypeOK
<1>. DEFINE end == IF from = NoTime THEN NoTime ELSE frame.ts
            bytes == ConnEvent("Delta", frame.ts, id, st, delta)
            bare == Event("Presence", frame.ts)
<1>2. [bytes EXCEPT !.from = from, !.to = end] \in Tale(id, delta)
  <2>1. bytes \in EventType
    BY <1>1, EventTypes DEF EventKind
  <2>2. /\ bytes.type = "Delta" /\ bytes.ts = frame.ts /\ bytes.conn = id
        /\ bytes.start = st.start /\ bytes.delta = delta
    BY EventParts
  <2>. HIDE DEF bytes
  <2>3. [bytes EXCEPT !.from = from, !.to = end] \in EventType
    BY <1>1, <2>1 DEF EventType, NoTime
  <2>. QED BY <2>1, <2>2, <2>3 DEF Tale, EventType
<1>3. [bare EXCEPT !.conn = id, !.start = st.start, !.counter = st.last]
        \in Tale(id, delta)
  <2>1. bare \in EventType /\ bare.type = "Presence" /\ bare.ts = frame.ts
    BY <1>1, EventTypes, EventParts DEF EventKind
  <2>. HIDE DEF bare
  <2>. QED BY <1>1, <2>1 DEF EventType, ConnState, Tale, Credits
<1>. HIDE DEF end, bytes, bare
<1>4. LET tales == DeltaOrPresence(st, id, st, delta, from)
      IN  \/ tales = <<[bytes EXCEPT !.from = from, !.to = end]>>
          \/ tales = << >> /\ frame.ts - st.evidenceAt < PresenceInterval
          \/ tales = <<[bare EXCEPT !.conn = id, !.start = st.start,
                                    !.counter = st.last]>>
  BY DEF DeltaOrPresence, end, bytes, bare
<1>5. <<[bytes EXCEPT !.from = from, !.to = end]>> # << >>
      /\ <<[bare EXCEPT !.conn = id, !.start = st.start, !.counter = st.last]>> # << >>
  OBVIOUS
<1>. QED BY <1>2, <1>3, <1>4, <1>5

LEMMA ReadingIs ==
  ASSUME NEW id
  PROVE  /\ id \in DOMAIN activeMap => Reading(id) = {activeMap[id].last}
         /\ id \notin DOMAIN activeMap /\ id \in DOMAIN tombstones
              /\ tombstones[id].state.start = conns[id].start
              => Reading(id) = {tombstones[id].state.last}
         /\ id \notin DOMAIN activeMap
              /\ ~(id \in DOMAIN tombstones /\ tombstones[id].state.start = conns[id].start)
              => Reading(id) = {}
BY DEF Reading

Tells(id) ==
  /\ \E due \in Counter : Voices(id, due) /\ Earned(id, due)
  /\ Freshly(id)
  /\ activeMap'[id].last = frame.conns[id].ctr

LEMMA ObservedEvidence ==
  ASSUME NEW id, NEW cum, NEW base, NEW class
  PROVE  Observed(id, cum, base, class).evidenceAt = frame.ts
BY DEF Observed

LEMMA EvidentParts ==
  ASSUME NEW st \in ConnState, NEW events
  PROVE  Evident(st, events).evidenceAt = IF events = << >> THEN st.evidenceAt ELSE frame.ts
BY DEF Evident, ConnState

LEMMA BaselineTells ==
  ASSUME TypeInv, BooksInv, NEW id \in todo, Baseline(id)
  PROVE  Tells(id)
<1>1. id \in Nat /\ frame.ts \in Nat /\ id \in DOMAIN frame.conns
      /\ frame.conns[id].ctr \in Counter /\ frame.conns[id].start = conns[id].start
  BY ConnAssumption DEF TypeInv, TypeOK, FrameTypeOK, FrameConn, BooksInv
<1>. DEFINE st == Observed(id, Zero, frame.conns[id].ctr,
                           InitialClass(frame.conns[id].meta))
            event == ConnEvent("Bootstrap", frame.ts, id, st, Zero)
<1>2. /\ st \in ConnState /\ st.start = conns[id].start /\ st.last = frame.conns[id].ctr
      /\ st.evidenceAt = frame.ts
  BY <1>1, ClassTypes, CounterTypes, ObservedType, ObservedEvidence
<1>3. activeMap' = With(activeMap, id, st) /\ Emit(<<event>>)
  BY DEF Baseline
<1>4. event \in Tale(id, Zero)
  <2>1. event \in EventType
    BY <1>1, <1>2, CounterTypes, EventTypes DEF EventKind
  <2>2. /\ event.type = "Bootstrap" /\ event.ts = frame.ts /\ event.conn = id
        /\ event.start = st.start /\ event.delta = Zero
    BY EventParts
  <2> QED BY <1>2, <2>1, <2>2 DEF Tale
<1>. HIDE DEF st, event
<1>5. activeMap'[id] = st
  BY <1>3 DEF With
<1>. DEFINE tales == <<event>>
            marks == << >>
<1>6. /\ tales = << >> \/ \E e \in Tale(id, Zero) : tales = <<e>>
      /\ marks \in Seq(Mark(id)) /\ tales # << >> /\ Emit(marks \o tales)
  <2>1. marks \o tales = <<event>>
    OBVIOUS
  <2> QED BY <1>3, <1>4, <2>1
<1>. HIDE DEF tales, marks
<1>7. Voices(id, Zero) /\ DOMAIN outbox' # {}
  BY <1>6, EmitVoices
<1>8. Zero \in Counter
  BY CounterTypes
<1> QED BY <1>2, <1>5, <1>7, <1>8 DEF Tells, Earned, Freshly

LEMMA RecoverKnownTells ==
  ASSUME TypeInv, BooksInv, NEW id, RecoverKnown(id)
  PROVE  Tells(id)
<1>1. /\ id \in todo /\ id \in Nat /\ frame.ts \in Nat /\ id \in DOMAIN frame.conns
      /\ frame.conns[id].ctr \in Counter /\ frame.conns[id].start = conns[id].start
      /\ gapStart \in Nat /\ pc = "recovery"
      /\ id \in DOMAIN activeMap /\ activeMap[id] \in ConnState
      /\ activeMap[id].start = conns[id].start
  BY ConnAssumption DEF RecoverKnown, InLoop, TypeInv, TypeOK, FrameTypeOK, FrameConn, BooksInv
<1>. DEFINE prev == activeMap[id]
            ctr == frame.conns[id].ctr
            regressed == Below(ctr, prev.last)
            delta == IF regressed THEN Zero ELSE Monus(ctr, prev.last)
            health == IF regressed THEN <<HealthEvent(frame.ts, id)>> ELSE << >>
            before == Evident(prev, health)
            st == [before EXCEPT !.last = ctr, !.observedAt = frame.ts,
                                 !.cum = Plus(@, delta)]
            traffic == DeltaOrPresence(st, id, st, delta, gapStart)
<1>2. /\ activeMap' = [activeMap EXCEPT ![id] = Evident(st, traffic)]
      /\ Emit(health \o traffic)
  BY DEF RecoverKnown
<1>3. /\ before \in ConnState /\ before.start = prev.start
      /\ before.evidenceAt = IF health = << >> THEN prev.evidenceAt ELSE frame.ts
  BY <1>1, EvidentType, EvidentParts
<1>4. delta \in Counter
  BY <1>1, CounterTypes DEF ConnState
<1>5. health \in Seq(Mark(id))
  BY <1>1, MarkTypes
<1>6. Earned(id, delta)
  BY <1>1, ReadingIs DEF Earned
<1>. HIDE DEF health, delta, before
<1>7. /\ st \in ConnState /\ st.start = prev.start /\ st.last = ctr
      /\ st.evidenceAt = before.evidenceAt
  <2>1. Plus(before.cum, delta) \in Counter
    BY <1>3, <1>4, CounterTypes DEF ConnState
  <2>. QED BY <1>1, <1>3, <2>1 DEF ConnState
<1>. HIDE DEF st
<1>8. /\ traffic = << >> \/ \E e \in Tale(id, delta) : traffic = <<e>>
      /\ traffic = << >> => frame.ts - st.evidenceAt < PresenceInterval
  BY <1>1, <1>4, <1>7, TrafficTale
<1>. HIDE DEF traffic
<1>9. activeMap'[id] = Evident(st, traffic)
  BY <1>1, <1>2
<1>10. /\ activeMap'[id].last = ctr
       /\ activeMap'[id].evidenceAt = IF traffic = << >> THEN st.evidenceAt ELSE frame.ts
  BY <1>7, <1>9, EvidentType, EvidentParts
<1>11. Voices(id, delta) /\ (DOMAIN outbox' = {} <=> health = << >> /\ traffic = << >>)
  BY <1>2, <1>5, <1>8, EmitVoices
<1>12. Freshly(id)
  BY <1>1, <1>3, <1>7, <1>8, <1>10, <1>11 DEF Freshly
<1> QED BY <1>4, <1>6, <1>10, <1>11, <1>12 DEF Tells

LEMMA SteadyRegressedTells ==
  ASSUME TypeInv, BooksInv, NEW id, SteadyRegressed(id)
  PROVE  Tells(id)
<1>1. /\ id \in todo /\ frame.ts \in Nat /\ id \in DOMAIN frame.conns
      /\ frame.conns[id].ctr \in Counter
      /\ id \in DOMAIN activeMap /\ activeMap[id] \in ConnState
  BY DEF SteadyRegressed, InLoop, TypeInv, TypeOK, FrameTypeOK, FrameConn
<1>. DEFINE prev == activeMap[id]
            events == MetaEvents(id, prev) \o <<HealthEvent(frame.ts, id)>>
            before == Evident(prev, events)
            st == [before EXCEPT !.meta = frame.conns[id].meta,
                                 !.last = frame.conns[id].ctr]
<1>2. activeMap' = [activeMap EXCEPT ![id] = st] /\ Emit(events)
  BY DEF SteadyRegressed
<1>3. events \in Seq(Mark(id)) /\ events # << >>
  <2>1. MetaEvents(id, prev) \in Seq(Mark(id)) /\ <<HealthEvent(frame.ts, id)>> \in Seq(Mark(id))
    BY <1>1, MetaMarks, MarkTypes
  <2> QED BY <2>1
<1>. HIDE DEF events
<1>4. before \in ConnState /\ before.evidenceAt = frame.ts
  BY <1>1, <1>3, EvidentType, EvidentParts
<1>. HIDE DEF before
<1>5. activeMap'[id].last = frame.conns[id].ctr /\ activeMap'[id].evidenceAt = frame.ts
  BY <1>1, <1>2, <1>4 DEF ConnState
<1>6. Emit(events \o << >>)
  <2>1. events \o << >> = events
    BY <1>3
  <2> QED BY <1>2, <2>1
<1>7. Voices(id, Zero) /\ DOMAIN outbox' # {}
  BY <1>3, <1>6, EmitVoices
<1> QED BY <1>5, <1>7, CounterTypes DEF Tells, Earned, Freshly

LEMMA SteadyKnownTells ==
  ASSUME TypeInv, BooksInv, NEW id, SteadyKnown(id)
  PROVE  Tells(id)
<1>1. /\ id \in todo /\ frame.ts \in Nat /\ id \in DOMAIN frame.conns
      /\ frame.conns[id].ctr \in Counter /\ frame.conns[id].start = conns[id].start
      /\ frame.conns[id].meta \in Meta /\ pc = "steady"
      /\ id \in DOMAIN activeMap /\ activeMap[id] \in ConnState
      /\ activeMap[id].start = conns[id].start
  BY DEF SteadyKnown, InLoop, TypeInv, TypeOK, FrameTypeOK, FrameConn, BooksInv
<1>. DEFINE prev == activeMap[id]
            ctr == frame.conns[id].ctr
            delta == Monus(ctr, prev.last)
            class == IF id \in frame.relays THEN Confirmed ELSE prev.class
            meta == MetaEvents(id, prev)
            changed == IF class # prev.class
              THEN <<[Event("RelayClassificationChanged", frame.ts) EXCEPT
                        !.conn = id, !.class = class]>>
              ELSE << >>
            marks == meta \o changed
            before == Evident(prev, marks)
            st == [before EXCEPT !.meta = frame.conns[id].meta, !.class = class,
                     !.last = ctr, !.observedAt = frame.ts,
                     !.cum = Plus(@, delta)]
            traffic == DeltaOrPresence(st, id, st, delta, NoTime)
<1>2. /\ activeMap' = [activeMap EXCEPT ![id] = Evident(st, traffic)]
      /\ Emit(marks \o traffic)
  BY DEF SteadyKnown
<1>3. delta \in Counter /\ class \in Class
  BY <1>1, CounterTypes DEF ConnState, Class
<1>4. Earned(id, delta)
  BY <1>1, ReadingIs DEF Earned
<1>. HIDE DEF delta, class
<1>5. marks \in Seq(Mark(id))
  <2>1. meta \in Seq(Mark(id))
    BY <1>1, MetaMarks
  <2>2. changed \in Seq(Mark(id))
    BY <1>1, <1>3, MarkTypes
  <2>. HIDE DEF meta, changed
  <2> QED BY <1>1, <2>1, <2>2, MarkTypes
<1>. HIDE DEF marks
<1>6. /\ before \in ConnState /\ before.start = prev.start
      /\ before.evidenceAt = IF marks = << >> THEN prev.evidenceAt ELSE frame.ts
  BY <1>1, EvidentType, EvidentParts
<1>. HIDE DEF before
<1>7. /\ st \in ConnState /\ st.start = prev.start /\ st.last = ctr
      /\ st.evidenceAt = before.evidenceAt
  <2>1. Plus(before.cum, delta) \in Counter
    BY <1>3, <1>6, CounterTypes DEF ConnState
  <2>. QED BY <1>1, <1>3, <1>6, <2>1 DEF ConnState
<1>. HIDE DEF st
<1>8. /\ traffic = << >> \/ \E e \in Tale(id, delta) : traffic = <<e>>
      /\ traffic = << >> => frame.ts - st.evidenceAt < PresenceInterval
  BY <1>1, <1>3, <1>7, TrafficTale DEF NoTime
<1>. HIDE DEF traffic
<1>9. activeMap'[id] = Evident(st, traffic)
  BY <1>1, <1>2
<1>10. /\ activeMap'[id].last = ctr
       /\ activeMap'[id].evidenceAt = IF traffic = << >> THEN st.evidenceAt ELSE frame.ts
  BY <1>7, <1>9, EvidentType, EvidentParts
<1>11. Voices(id, delta) /\ (DOMAIN outbox' = {} <=> marks = << >> /\ traffic = << >>)
  BY <1>2, <1>5, <1>8, EmitVoices
<1>12. Freshly(id)
  BY <1>1, <1>6, <1>7, <1>8, <1>10, <1>11 DEF Freshly
<1> QED BY <1>3, <1>4, <1>10, <1>11, <1>12 DEF Tells

LEMMA SteadyReobservedTells ==
  ASSUME TypeInv, BooksInv, NEW id, SteadyReobserved(id)
  PROVE  Tells(id)
<1>1. /\ id \in todo /\ id \in Nat /\ frame.ts \in Nat /\ id \in DOMAIN frame.conns
      /\ frame.conns[id].ctr \in Counter /\ frame.conns[id].start = conns[id].start
      /\ pc = "steady" /\ id \notin DOMAIN activeMap
      /\ id \in DOMAIN tombstones /\ tombstones[id].state \in ConnState
      /\ tombstones[id].state.start = conns[id].start
  BY ConnAssumption DEF SteadyReobserved, Continues, InLoop, TypeInv, TypeOK, FrameTypeOK,
     FrameConn, BooksInv
<1>. DEFINE prev == tombstones[id].state
            ctr == frame.conns[id].ctr
            delta == Monus(ctr, prev.last)
            cum == Plus(prev.cum, delta)
            marks == IF Below(ctr, prev.last) THEN <<HealthEvent(frame.ts, id)>> ELSE << >>
            st == Observed(id, cum, prev.base, ClassInFrame(id))
            from == IF Positive(delta) THEN prev.observedAt ELSE NoTime
            to == IF Positive(delta) THEN frame.ts ELSE NoTime
            bare == ConnEvent("New", frame.ts, id, st, delta)
            new == [bare EXCEPT !.from = from, !.to = to]
            tales == <<new>>
<1>2. activeMap' = With(activeMap, id, st) /\ Emit(marks \o tales)
  BY DEF SteadyReobserved
<1>3. delta \in Counter /\ cum \in Counter /\ from \in Nat /\ to \in Nat
  BY <1>1, CounterTypes DEF ConnState, NoTime
<1>4. Earned(id, delta)
  BY <1>1, ReadingIs DEF Earned
<1>5. marks \in Seq(Mark(id))
  BY <1>1, MarkTypes
<1>. HIDE DEF delta, marks, cum, from, to
<1>6. /\ st \in ConnState /\ st.start = conns[id].start /\ st.last = ctr
      /\ st.evidenceAt = frame.ts
  BY <1>1, <1>3, ClassTypes, ObservedType, ObservedEvidence DEF ConnState
<1>. HIDE DEF st
<1>7. /\ bare \in EventType /\ bare.type = "New" /\ bare.ts = frame.ts
      /\ bare.conn = id /\ bare.start = st.start /\ bare.delta = delta
  <2>1. bare \in EventType
    BY <1>1, <1>3, <1>6, EventTypes DEF EventKind
  <2> QED BY <2>1, EventParts
<1>. HIDE DEF bare
<1>8. new \in Tale(id, delta)
  BY <1>3, <1>6, <1>7 DEF Tale, EventType
<1>. HIDE DEF new
<1>9. tales # << >> /\ (tales = << >> \/ \E e \in Tale(id, delta) : tales = <<e>>)
  BY <1>8
<1>. HIDE DEF tales
<1>10. Voices(id, delta) /\ DOMAIN outbox' # {}
  BY <1>2, <1>5, <1>9, EmitVoices
<1>11. activeMap'[id] = st
  BY <1>2 DEF With
<1> QED BY <1>3, <1>4, <1>6, <1>10, <1>11 DEF Tells, Freshly

LEMMA SteadyNewTells ==
  ASSUME TypeInv, BooksInv, NEW id, SteadyNew(id)
  PROVE  Tells(id)
<1>1. /\ id \in todo /\ id \in Nat /\ frame.ts \in Nat /\ id \in DOMAIN frame.conns
      /\ frame.conns[id].ctr \in Counter /\ frame.conns[id].start = conns[id].start
      /\ pc = "steady" /\ id \notin DOMAIN activeMap
      /\ ~(id \in DOMAIN tombstones /\ tombstones[id].state.start = conns[id].start)
  BY ConnAssumption DEF SteadyNew, Continues, InLoop, TypeInv, TypeOK, FrameTypeOK,
     FrameConn, BooksInv
<1>. DEFINE ctr == frame.conns[id].ctr
            st == Observed(id, ctr, Zero, ClassInFrame(id))
            new == ConnEvent("New", frame.ts, id, st, ctr)
            tales == <<new>>
            marks == << >>
<1>2. activeMap' = With(activeMap, id, st) /\ Emit(tales)
  BY DEF SteadyNew
<1>3. Earned(id, ctr)
  BY <1>1, ReadingIs DEF Earned
<1>4. /\ st \in ConnState /\ st.start = conns[id].start /\ st.last = ctr
      /\ st.evidenceAt = frame.ts
  BY <1>1, ClassTypes, CounterTypes, ObservedType, ObservedEvidence
<1>. HIDE DEF st
<1>5. new \in Tale(id, ctr)
  BY <1>1, <1>4, EventTypes, EventParts DEF EventKind, Tale
<1>. HIDE DEF new
<1>6. /\ tales # << >> /\ (tales = << >> \/ \E e \in Tale(id, ctr) : tales = <<e>>)
      /\ marks \in Seq(Mark(id)) /\ Emit(marks \o tales)
  <2>1. marks \o tales = tales
    OBVIOUS
  <2> QED BY <1>2, <1>5, <2>1
<1>. HIDE DEF tales, marks, ctr
<1>7. Voices(id, ctr) /\ DOMAIN outbox' # {}
  BY <1>6, EmitVoices
<1>8. activeMap'[id] = st
  BY <1>2 DEF With
<1> QED BY <1>1, <1>3, <1>4, <1>7, <1>8 DEF Tells, Freshly, ctr


\* All a section does, whichever of the seven it is.
Section(id) ==
  /\ outbox = << >> /\ pc \in {"bootstrap", "recovery", "steady"}
  /\ id \in todo /\ todo' = todo \ {id}
  /\ UNCHANGED <<pc, frame, gapVars, seenVars>>
  /\ DOMAIN activeMap' = DOMAIN activeMap \cup {id}
  /\ \A x \in DOMAIN activeMap : x # id => activeMap'[x] = activeMap[x]
  /\ DOMAIN tombstones' \cup {id} = DOMAIN tombstones \cup {id}
  /\ \A x \in DOMAIN tombstones' : x # id => tombstones'[x] = tombstones[x]
  /\ Tells(id)

LEMMA SectionOf ==
  ASSUME TypeInv, BooksInv, ProcessConn
  PROVE  \E id \in todo : Section(id)
<1>1. PICK id \in todo :
        \/ BootstrapConn(id) \/ RecoverBaseline(id) \/ RecoverKnown(id)
        \/ SteadyKnown(id) \/ SteadyRegressed(id)
        \/ SteadyReobserved(id) \/ SteadyNew(id)
  BY DEF ProcessConn
<1>. USE DEF InLoop, Settled, Section
<1>2. CASE BootstrapConn(id) \/ RecoverBaseline(id)
  <2>1. Baseline(id) /\ (InLoop("bootstrap", id) \/ InLoop("recovery", id))
    BY <1>2 DEF BootstrapConn, RecoverBaseline
  <2>2. Tells(id)
    BY <2>1, BaselineTells
  <2> QED BY <2>1, <2>2 DEF Baseline, With
<1>3. CASE RecoverKnown(id)
  <2>1. Tells(id)
    BY <1>3, RecoverKnownTells
  <2> QED BY <1>3, <2>1 DEF RecoverKnown
<1>4. CASE SteadyKnown(id)
  <2>1. Tells(id)
    BY <1>4, SteadyKnownTells
  <2> QED BY <1>4, <2>1 DEF SteadyKnown
<1>5. CASE SteadyRegressed(id)
  <2>1. Tells(id)
    BY <1>5, SteadyRegressedTells
  <2> QED BY <1>5, <2>1 DEF SteadyRegressed
<1>6. CASE SteadyReobserved(id)
  <2>1. Tells(id)
    BY <1>6, SteadyReobservedTells
  <2> QED BY <1>6, <2>1 DEF SteadyReobserved, With, TakeTombstone, Without
<1>7. CASE SteadyNew(id)
  <2>1. Tells(id)
    BY <1>7, SteadyNewTells
  <2> QED BY <1>7, <2>1 DEF SteadyNew, With, TakeTombstone, Without
<1> QED BY <1>1, <1>2, <1>3, <1>4, <1>5, <1>6, <1>7

-----------------------------------------------------------------------------
(* The stages of a frame.                                                  *)

\* A frame begins in one of five ways.
LEMMA FrameStarts ==
  ASSUME TypeInv, FrameArrives
  PROVE  /\ Idle /\ pc' \in {"bootstrap", "recovery", "steady"}
         /\ frame'.total = total /\ frame'.ts = clock /\ todo' = DOMAIN frame'.conns
         /\ \A id \in DOMAIN frame'.conns : id \in Conn /\ conns[id].live
         /\ WorldStays /\ UNCHANGED <<auditVars, blurred, seen, refused>>
         /\ \/ StartRecovery(frame') \/ StartEpochBreakAcrossGap(frame')
            \/ StartEpochBreak(frame') \/ StartBootstrap(frame')
            \/ StartSteady(frame')
<1>1. PICK missing \in SUBSET LiveConns : \E R \in RelayChoices(Snapshot(missing)) :
        ProcessFrame([ts |-> clock, conns |-> Snapshot(missing), total |-> total,
                      relays |-> R])
  BY DEF FrameArrives
<1>2. PICK R \in RelayChoices(Snapshot(missing)) :
        ProcessFrame([ts |-> clock, conns |-> Snapshot(missing), total |-> total,
                      relays |-> R])
  BY <1>1
<1>. DEFINE f == [ts |-> clock, conns |-> Snapshot(missing), total |-> total,
                  relays |-> R]
<1>3. f.total = total /\ f.ts = clock
      /\ \A id \in DOMAIN f.conns : id \in Conn /\ conns[id].live
  BY DEF Snapshot, LiveConns
<1>4. ProcessFrame(f)
  BY <1>2
<1>. HIDE DEF f
<1>5. /\ frame' = f /\ todo' = DOMAIN f.conns /\ Idle
      /\ pc' \in {"bootstrap", "recovery", "steady"}
  BY <1>4 DEF ProcessFrame, StartRecovery, StartEpochBreakAcrossGap, StartEpochBreak,
     StartBootstrap, StartSteady, BeginFrame
<1>6. WorldStays /\ UNCHANGED <<auditVars, blurred, seen, refused>>
  BY DEF FrameArrives
<1> QED BY <1>3, <1>4, <1>5, <1>6 DEF ProcessFrame

LEMMA StageNext == TypeInv /\ BooksInv /\ StageInv /\ [Next]_vars => StageInv'
<1>. SUFFICES ASSUME TypeInv, BooksInv, StageInv, [Next]_vars PROVE StageInv'
  OBVIOUS
<1>. USE DEF StageInv, InFrame
<1>1. CASE Tick \/ Stopped \/ UNCHANGED vars
  BY <1>1 DEF Tick, Quiet, Idle, Stopped, vars, engineVars, gapVars, seenVars, frameVars,
     mihomoVars
<1>2. CASE MihomoMoves \/ CounterAnomaly
  BY <1>2 DEF MihomoMoves, CounterAnomaly, Quiet, Idle, engineVars, gapVars, seenVars,
     frameVars
<1>3. CASE StreamLost
  BY <1>3 DEF StreamLost, GapOpened, Idle, WorldStays, mihomoVars, frameVars
<1>4. CASE Health
  BY <1>4 DEF Health, CollectorHealth, WorldStays, mihomoVars, frameVars, gapVars, seenVars
<1>5. CASE SessionEnds
  BY <1>5 DEF SessionEnds, Shutdown, seenVars
<1>6. CASE SinkKeeps
  BY <1>6 DEF SinkKeeps, WorldStays, mihomoVars, frameVars, gapVars, seenVars
<1>7. CASE SinkRefuses
  BY <1>7 DEF SinkRefuses, SinkFails, gapVars, seenVars
<1>8. CASE ConnDisappears
  <2>1. PICK id \in DOMAIN activeMap : Disappear(id)
    BY <1>8 DEF ConnDisappears
  <2> QED BY <1>8, <2>1 DEF ConnDisappears, Disappear, WorldStays, mihomoVars, frameVars,
      gapVars, seenVars
<1>9. CASE FrameArrives
  <2>1. /\ frame'.total = total' /\ Idle
        /\ \A id \in DOMAIN frame'.conns : conns'[id].live
        /\ total' = total /\ conns' = conns
    BY <1>9, FrameStarts DEF WorldStays, mihomoVars
  <2>2. CASE StartRecovery(frame')
    BY <2>1, <2>2 DEF StartRecovery, BeginFrame, EpochBroken, gapVars
  <2>3. CASE StartEpochBreakAcrossGap(frame')
    BY <2>1, <2>3 DEF StartEpochBreakAcrossGap, BeginFrame
  <2>4. CASE StartEpochBreak(frame')
    BY <2>1, <2>4 DEF StartEpochBreak, BeginFrame, gapVars
  <2>5. CASE StartBootstrap(frame')
    BY <2>1, <2>5 DEF StartBootstrap, BeginFrame, gapVars
  <2>6. CASE StartSteady(frame')
    BY <2>1, <2>6 DEF StartSteady, BeginFrame, EpochBroken, gapVars, seenVars
  <2> QED BY <1>9, FrameStarts, <2>2, <2>3, <2>4, <2>5, <2>6
<1>10. CASE FrameProceeds
  <2>1. UNCHANGED <<conns, total>>
    BY <1>10 DEF FrameProceeds, WorldStays, mihomoVars
  <2>2. CASE ProcessConn
    <3>1. PICK id \in todo : Section(id)
      BY <2>2, SectionOf
    <3> QED BY <2>1, <3>1 DEF Section, gapVars, seenVars
  <2>3. CASE EndSteady
    BY <2>1, <2>3 DEF EndSteady, EndFrame
  <2>4. CASE EndRecovery
    BY <2>1, <2>4 DEF EndRecovery, EndFrame
  <2>5. CASE EndBootstrapLoop
    BY <2>1, <2>5 DEF EndBootstrapLoop
  <2>6. CASE EndBootstrap
    BY <2>1, <2>6 DEF EndBootstrap, EndFrame
  <2> QED BY <1>10, <2>2, <2>3, <2>4, <2>5, <2>6 DEF FrameProceeds
<1> QED BY <1>1, <1>2, <1>3, <1>4, <1>5, <1>6, <1>7, <1>8, <1>9, <1>10 DEF Next


-----------------------------------------------------------------------------
(* No byte is credited twice.  CreditOf(id) can only be disturbed by a step *)
(* that claims more, lowers Mihomo's counter, forgets a reading, or makes  *)
(* the engine doubt the epoch; the lemmas below show for each kind of step *)
(* which of these it may do, and what keeps the balance.                   *)

LedgerType == credited \in [Conn -> [start : Nat, bytes : Counter]]

LEMMA CreditParts ==
  ASSUME NEW c \in [start : Nat, bytes : Counter]
  PROVE  c.start \in Nat /\ c.bytes \in Counter
OBVIOUS

LEMMA EventFields ==
  ASSUME NEW q \in Seq(QueuedType), NEW i \in DOMAIN q
  PROVE  /\ q[i].ev.delta \in Counter /\ q[i].ev.ts \in Nat
         /\ q[i].ev.from \in Nat /\ q[i].ev.to \in Nat
<1>1. q[i] \in QueuedType
  OBVIOUS
<1> QED BY <1>1 DEF QueuedType, EventType

LEMMA ClaimTypes ==
  ASSUME NEW id \in Conn
  PROVE  /\ LedgerType => Kept(id) \in Counter
         /\ LedgerType' => Kept(id)' \in Counter
         /\ outbox \in Seq(QueuedType) => Due(id) \in Counter
         /\ outbox' \in Seq(QueuedType) => Due(id)' \in Counter
<1>1. ASSUME LedgerType PROVE Kept(id) \in Counter
  BY <1>1, CounterTypes, CreditParts DEF LedgerType, Kept
<1>2. ASSUME LedgerType' PROVE Kept(id)' \in Counter
  BY <1>2, CounterTypes, CreditParts DEF LedgerType, Kept
<1>3. ASSUME NEW q \in Seq(QueuedType), q # << >> PROVE q[Len(q)].ev.delta \in Counter
  <2>1. Len(q) \in DOMAIN q
    BY <1>3
  <2> QED BY <2>1, EventFields
<1>4. ASSUME outbox \in Seq(QueuedType) PROVE Due(id) \in Counter
  BY <1>3, <1>4, CounterTypes DEF Due
<1>5. ASSUME outbox' \in Seq(QueuedType) PROVE Due(id)' \in Counter
  BY <1>3, <1>5, CounterTypes DEF Due
<1> QED BY <1>1, <1>2, <1>4, <1>5

LEMMA ClaimNat ==
  ASSUME NEW id \in Conn, TypeInv, TypeInv', LedgerType, LedgerType'
  PROVE  /\ Claimed(id) \in Counter /\ Claimed(id)' \in Counter
         /\ \A d \in Dir : Claimed(id)[d] \in Nat /\ Claimed(id)'[d] \in Nat
<1>1. Claimed(id) \in Counter
  BY ClaimTypes, CounterTypes DEF TypeInv, Claimed
<1>2. Claimed(id)' \in Counter
  BY ClaimTypes, CounterTypes DEF TypeInv, Claimed
<1> QED BY <1>1, <1>2 DEF Counter

LEMMA ReadingTypes ==
  ASSUME NEW id \in Conn, TypeInv, NEW r \in Reading(id)
  PROVE  r \in Counter /\ \A d \in Dir : r[d] \in Nat
<1>1. r \in Counter
  BY DEF Reading, TypeInv, TypeOK, ConnState
<1> QED BY <1>1 DEF Counter

LEMMA ConnNats ==
  ASSUME TypeInv, NEW id \in Conn
  PROVE  conns[id].start \in Nat /\ conns[id].ctr \in Counter
         /\ \A d \in Dir : conns[id].ctr[d] \in Nat
<1>1. conns[id] \in MihomoConn
  BY DEF TypeInv, WorldTypeOK, MihomoConn
<1>2. conns[id].start \in Nat /\ conns[id].ctr \in Counter
  BY <1>1, MihomoConnParts
<1> QED BY <1>2 DEF Counter

\* A step of the collector that claims no more than before.
LEMMA CreditStays ==
  ASSUME TypeInv, TypeInv', LedgerType, LedgerType', NEW id \in Conn, CreditOf(id),
         conns' = conns, credited'[id].start <= conns[id].start,
         AtMost(Claimed(id)', Claimed(id)), blurred \subseteq blurred',
         Clear(id)' => \/ Reading(id)' = Reading(id)
                       \/ /\ Reading(id)' = {}
                          /\ conns[id].live => Claimed(id) = Zero,
         conns[id].live /\ (isBootstrapFrame' \/ Below(total', prevTotal'))
           => isBootstrapFrame \/ Below(total, prevTotal)
  PROVE  CreditOf(id)'
<1>1. /\ \A d \in Dir : conns[id].ctr[d] \in Nat
      /\ \A d \in Dir : Claimed(id)[d] \in Nat /\ Claimed(id)'[d] \in Nat
      /\ Claimed(id) \in Counter /\ Claimed(id)' \in Counter
      /\ \A r \in Reading(id) : \A d \in Dir : r[d] \in Nat
  BY ConnNats, ClaimNat, ReadingTypes
<1>2. Clear(id)' => Clear(id)
  BY DEF Clear
<1>3. ASSUME NEW f, AtMost(Claimed(id), f), \A d \in Dir : f[d] \in Nat
      PROVE  AtMost(Claimed(id)', f)
  BY <1>1, <1>3 DEF AtMost
<1>4. Claimed(id) = Zero => Claimed(id)' = Zero
  <2>. HAVE Claimed(id) = Zero
  <2>1. \A d \in Dir : Claimed(id)'[d] = 0
    BY <1>1 DEF AtMost, Zero
  <2> QED BY <1>1, <2>1 DEF Counter, Zero
<1>5. Clear(id)' => /\ AtMost(Claimed(id)', conns[id].ctr)
                    /\ \A r \in Reading(id)' : AtMost(Claimed(id)', r)
  BY <1>1, <1>2, <1>3 DEF CreditOf
<1>6. conns[id].live =>
        /\ Clear(id)' /\ Reading(id)' = {} => Claimed(id)' = Zero
        /\ isBootstrapFrame' \/ Below(total', prevTotal') => Claimed(id)' = Zero
  BY <1>2, <1>4 DEF CreditOf
<1> QED BY <1>5, <1>6 DEF CreditOf

\* What is claimed does not change while nothing is kept and no event
\* credits anything.
LEMMA ClaimSame ==
  ASSUME NEW id \in Conn, LedgerType, outbox = << >> \/ outbox' = outbox,
         UNCHANGED <<conns, credited>>,
         outbox' = outbox \/ \A i \in DOMAIN outbox' : ~Credits(outbox'[i].ev),
         outbox' \in Seq(QueuedType)
  PROVE  Claimed(id)' = Claimed(id) /\ Kept(id)' = Kept(id)
<1>1. Kept(id)' = Kept(id)
  BY DEF Kept
<1>2. Due(id)' = Due(id)
  <2>1. CASE outbox' = outbox
    BY <2>1 DEF Due
  <2>2. CASE outbox = << >> /\ \A i \in DOMAIN outbox' : ~Credits(outbox'[i].ev)
    <3>1. outbox' # << >> => Len(outbox') \in DOMAIN outbox'
      OBVIOUS
    <3> QED BY <2>2, <3>1 DEF Due
  <2> QED BY <2>1, <2>2
<1> QED BY <1>1, <1>2 DEF Claimed


-----------------------------------------------------------------------------
(* The events that are not about a connection's bytes.                     *)

Tells1(e) == /\ Len(outbox') = 1 /\ DOMAIN outbox' = {1}
             /\ outbox'[1].ev = e
Tells2(e, f) == /\ Len(outbox') = 2 /\ DOMAIN outbox' = {1, 2}
                /\ outbox'[1].ev = e /\ outbox'[2].ev = f

LEMMA SeqEqual ==
  ASSUME NEW S, NEW q \in Seq(S), NEW r \in Seq(S), Len(q) = Len(r),
         \A i \in 1..Len(q) : q[i] = r[i]
  PROVE  q = r
OBVIOUS

LEMMA EmitTells ==
  ASSUME NEW e, NEW f
  PROVE  /\ Emit(<<e>>) => Tells1(e)
         /\ EmitFirst(<<e>>) => Tells1(e)
         /\ EmitFirst(<< >>) => outbox' = << >>
         /\ Emit(<<e, f>>) => Tells2(e, f)
         /\ EmitFirst(<<e>> \o <<f>>) => Tells2(e, f)
<1>1. \A q : q = [i \in 1..1 |-> q[i]] => Len(q) = 1 /\ DOMAIN q = {1}
  OBVIOUS
<1>2. ASSUME NEW q, q = [i \in 1..2 |-> q[i]] PROVE Len(q) = 2 /\ DOMAIN q = {1, 2}
  <2>1. DOMAIN q = 1..2 /\ 1..2 = {1, 2}
    BY <1>2
  <2>2. Len(q) = 2
    BY <1>2
  <2> QED BY <2>1, <2>2
<1>3. /\ Len(<<e>>) = 1 /\ <<e>>[1] = e /\ 1 \in 1..1
      /\ Len(<<e, f>>) = 2 /\ <<e, f>>[1] = e /\ <<e, f>>[2] = f /\ {1, 2} \subseteq 1..2
      /\ <<e>> \o <<f>> = <<e, f>> /\ Len(<< >>) = 0
  <2>1. /\ Len(<<e>>) = 1 /\ <<e>>[1] = e /\ 1 \in 1..1
        /\ <<e, f>>[1] = e /\ <<e, f>>[2] = f /\ {1, 2} \subseteq 1..2
        /\ Len(<< >>) = 0
    OBVIOUS
  <2>2. Len(<<e, f>>) = 2
    OBVIOUS
  <2>3. <<e>> \o <<f>> = <<e, f>>
    <3>. DEFINE S == {e, f}
    <3>1. <<e>> \in Seq(S) /\ <<f>> \in Seq(S) /\ <<e, f>> \in Seq(S)
      OBVIOUS
    <3>2. Len(<<e>> \o <<f>>) = 2 /\ <<e>> \o <<f>> \in Seq(S)
      BY <3>1
    <3>3. (<<e>> \o <<f>>)[1] = e /\ (<<e>> \o <<f>>)[2] = f
      BY <3>1
    <3>4. \A i \in 1..2 : (<<e>> \o <<f>>)[i] = <<e, f>>[i]
      BY <2>1, <3>3
    <3>. HIDE DEF S
    <3> QED BY <2>2, <3>1, <3>2, <3>4, SeqEqual
  <2> QED BY <2>1, <2>2, <2>3
<1>4. Emit(<<e>>) => Tells1(e)
  <2>. HAVE Emit(<<e>>)
  <2>1. outbox' = [i \in 1..1 |-> [epoch |-> epochID, frame |-> frameSequence,
                     seq |-> eventSequence + i, ev |-> <<e>>[i]]]
    BY <1>3 DEF Emit
  <2>2. outbox' = [i \in 1..1 |-> outbox'[i]] /\ outbox'[1].ev = e
    BY <1>3, <2>1
  <2> QED BY <1>1, <2>2 DEF Tells1
<1>5. EmitFirst(<<e>>) => Tells1(e)
  <2>. HAVE EmitFirst(<<e>>)
  <2>1. outbox' = [i \in 1..1 |-> [epoch |-> epochID, frame |-> frameSequence + 1,
                     seq |-> i, ev |-> <<e>>[i]]]
    BY <1>3 DEF EmitFirst
  <2>2. outbox' = [i \in 1..1 |-> outbox'[i]] /\ outbox'[1].ev = e
    BY <1>3, <2>1
  <2> QED BY <1>1, <2>2 DEF Tells1
<1>6. EmitFirst(<< >>) => outbox' = << >>
  BY <1>3 DEF EmitFirst
<1>7. Emit(<<e, f>>) => Tells2(e, f)
  <2>. HAVE Emit(<<e, f>>)
  <2>1. outbox' = [i \in 1..2 |-> [epoch |-> epochID, frame |-> frameSequence,
                     seq |-> eventSequence + i, ev |-> <<e, f>>[i]]]
    BY <1>3 DEF Emit
  <2>2. /\ outbox' = [i \in 1..2 |-> outbox'[i]]
        /\ outbox'[1].ev = e /\ outbox'[2].ev = f
    BY <1>3, <2>1
  <2> QED BY <1>2, <2>2 DEF Tells2
<1>8. EmitFirst(<<e, f>>) => Tells2(e, f)
  <2>. HAVE EmitFirst(<<e, f>>)
  <2>1. outbox' = [i \in 1..2 |-> [epoch |-> epochID, frame |-> frameSequence + 1,
                     seq |-> i, ev |-> <<e, f>>[i]]]
    BY <1>3 DEF EmitFirst
  <2>2. /\ outbox' = [i \in 1..2 |-> outbox'[i]]
        /\ outbox'[1].ev = e /\ outbox'[2].ev = f
    BY <1>3, <2>1
  <2> QED BY <1>2, <2>2 DEF Tells2
<1> QED BY <1>3, <1>4, <1>5, <1>6, <1>7, <1>8

LEMMA NoticeParts ==
  ASSUME NEW ts, NEW from, NEW id
  PROVE  /\ LET e == Event("EpochBreak", ts)
            IN  e.type = "EpochBreak" /\ e.ts = ts /\ e.conn = NoConn
         /\ LET e == GapOpenedEvent(ts, from)
            IN  e.type = "GapOpened" /\ e.ts = ts /\ e.conn = NoConn /\ e.from = from
         /\ LET e == GapClosedEvent(from, ts)
            IN  /\ e.type = "GapClosed" /\ e.ts = ts /\ e.conn = NoConn
                /\ e.from = from /\ e.to = ts
         /\ LET e == HealthEvent(ts, id)
            IN  e.type = "Health" /\ e.ts = ts /\ e.conn = id
         /\ \A delta, counter :
              LET e == [Event("Residual", ts) EXCEPT !.delta = delta, !.counter = counter]
              IN  e.type = "Residual" /\ e.ts = ts /\ e.conn = NoConn
         /\ \A counter :
              LET e == [Event("Disappeared", ts) EXCEPT !.conn = id, !.from = from,
                                                        !.counter = counter]
              IN  e.type = "Disappeared" /\ e.ts = ts /\ e.conn = id
BY DEF Event, GapOpenedEvent, GapClosedEvent, HealthEvent

\* What is emitted when the session's silence is put on record.
LEMMA UnobservedTells ==
  ASSUME NEW end, UnobservedGap(end)
  PROVE  \/ /\ unobservedGapEmitted \/ ~(end - createdAt >= MinGap)
            /\ UNCHANGED <<outbox, unobservedGapEmitted>>
         \/ /\ ~unobservedGapEmitted /\ end - createdAt >= MinGap
            /\ unobservedGapEmitted' = TRUE
            /\ Tells2(GapOpenedEvent(end, createdAt), GapClosedEvent(createdAt, end))
BY EmitTells DEF UnobservedGap

\* They credit nothing and name no connection the engine holds.
Aside(e) == ~Credits(e) /\ e.conn \notin DOMAIN activeMap'
Plain ==
  \/ outbox' = outbox
  \/ outbox = << >> /\ \A i \in DOMAIN outbox' : Aside(outbox'[i].ev)

LEMMA AsideNotices ==
  ASSUME TypeInv', NEW ts, NEW from
  PROVE  /\ Aside(Event("EpochBreak", ts)) /\ Aside(HealthEvent(ts, NoConn))
         /\ Aside(GapOpenedEvent(ts, from)) /\ Aside(GapClosedEvent(from, ts))
         /\ \A delta, counter :
              Aside([Event("Residual", ts) EXCEPT !.delta = delta, !.counter = counter])
<1>1. NoConn \notin DOMAIN activeMap'
  BY ConnAssumption DEF TypeInv, TypeOK, NoConn
<1>2. \A e : e.conn = NoConn /\ e.type \in {"EpochBreak", "Health", "GapOpened",
                                            "GapClosed", "Residual"} => Aside(e)
  BY <1>1 DEF Aside, Credits
<1>3. /\ Aside(Event("EpochBreak", ts)) /\ Aside(HealthEvent(ts, NoConn))
      /\ Aside(GapOpenedEvent(ts, from)) /\ Aside(GapClosedEvent(from, ts))
  BY <1>2, NoticeParts
<1>4. ASSUME NEW delta, NEW counter
      PROVE  Aside([Event("Residual", ts) EXCEPT !.delta = delta, !.counter = counter])
  <2>. DEFINE e == [Event("Residual", ts) EXCEPT !.delta = delta, !.counter = counter]
  <2>1. e.type = "Residual" /\ e.conn = NoConn
    BY NoticeParts
  <2>. HIDE DEF e
  <2>2. Aside(e)
    BY <1>2, <2>1
  <2> QED BY <2>2 DEF e
<1> QED BY <1>3, <1>4

LEMMA PlainTells ==
  ASSUME TypeInv', outbox = << >>
  PROVE  /\ outbox' = << >> => Plain
         /\ \A e : Aside(e) /\ Tells1(e) => Plain
         /\ \A e, f : Aside(e) /\ Aside(f) /\ Tells2(e, f) => Plain
         /\ \A e : Aside(e) /\ Emit(<<e>>) => Plain
         /\ \A end : UnobservedGap(end) => Plain
         /\ \A delta : Residual(delta) => Plain
<1>1. outbox' = << >> => Plain
  BY DEF Plain
<1>2. ASSUME NEW e, Aside(e), Tells1(e) PROVE Plain
  BY <1>2 DEF Plain, Tells1
<1>3. ASSUME NEW e, NEW f, Aside(e), Aside(f), Tells2(e, f) PROVE Plain
  BY <1>3 DEF Plain, Tells2
<1>4. ASSUME NEW e, Aside(e), Emit(<<e>>) PROVE Plain
  BY <1>2, <1>4, EmitTells
<1>5. ASSUME NEW end, UnobservedGap(end) PROVE Plain
  <2>1. outbox' = outbox
        \/ Tells2(GapOpenedEvent(end, createdAt), GapClosedEvent(createdAt, end))
    BY <1>5, UnobservedTells
  <2> QED BY <1>1, <1>3, <2>1, AsideNotices
<1>6. ASSUME NEW delta, Residual(delta) PROVE Plain
  BY <1>4, <1>6, AsideNotices DEF Residual
<1> QED BY <1>1, <1>2, <1>3, <1>4, <1>5, <1>6

LEMMA FrameStartsPlain == ASSUME TypeInv, TypeInv', FrameArrives PROVE Plain
<1>1. outbox = << >>
  BY FrameStarts DEF Idle, Settled
<1>2. CASE StartRecovery(frame')
  <2>1. Tells1(GapClosedEvent(gapStart, frame'.ts))
    BY <1>2, EmitTells DEF StartRecovery
  <2> QED BY <1>1, <2>1, AsideNotices, PlainTells
<1>3. CASE StartEpochBreakAcrossGap(frame')
  <2>1. Tells2(GapClosedEvent(gapStart, frame'.ts), Event("EpochBreak", frame'.ts))
    BY <1>3, EmitTells DEF StartEpochBreakAcrossGap, BreakEvents
  <2> QED BY <1>1, <2>1, AsideNotices, PlainTells
<1>4. CASE StartEpochBreak(frame')
  <2>1. Tells1(Event("EpochBreak", frame'.ts))
    BY <1>4, EmitTells DEF StartEpochBreak, BreakEvents
  <2> QED BY <1>1, <2>1, AsideNotices, PlainTells
<1>5. CASE StartBootstrap(frame') \/ StartSteady(frame')
  <2>1. outbox' = << >>
    BY <1>5, EmitTells DEF StartBootstrap, StartSteady
  <2> QED BY <1>1, <2>1, PlainTells
<1> QED BY <1>2, <1>3, <1>4, <1>5, FrameStarts

LEMMA PlainSteps ==
  ASSUME TypeInv'
  PROVE  /\ StreamLost \/ Health \/ SessionEnds => Plain
         /\ ConnDisappears => Plain
         /\ EndSteady \/ EndRecovery \/ EndBootstrap \/ EndBootstrapLoop => Plain
<1>1. outbox' = outbox => Plain
  BY DEF Plain
<1>2. StreamLost => Plain
  <2>. HAVE StreamLost
  <2>1. outbox = << >>
        /\ (outbox' = outbox \/ Emit(<<GapOpenedEvent(clock, GapFrom(clock))>>))
    BY DEF StreamLost, GapOpened, Idle, Settled
  <2> QED BY <1>1, <2>1, AsideNotices, PlainTells
<1>3. Health => Plain
  <2>. HAVE Health
  <2>1. outbox = << >> /\ Emit(<<HealthEvent(clock, NoConn)>>)
    BY DEF Health, CollectorHealth, Settled
  <2> QED BY <2>1, AsideNotices, PlainTells
<1>4. SessionEnds => Plain
  <2>. HAVE SessionEnds
  <2>1. outbox = << >> /\ (outbox' = outbox \/ UnobservedGap(clock))
    BY DEF SessionEnds, Shutdown, Settled
  <2> QED BY <1>1, <2>1, PlainTells
<1>5. ConnDisappears => Plain
  <2>. HAVE ConnDisappears
  <2>1. PICK id \in DOMAIN activeMap : Disappear(id)
    BY DEF ConnDisappears
  <2>. DEFINE e == [Event("Disappeared", frame.ts) EXCEPT
                      !.conn = id, !.from = activeMap[id].observedAt,
                      !.counter = activeMap[id].last]
  <2>2. outbox = << >> /\ Emit(<<e>>) /\ id \notin DOMAIN activeMap'
    BY <2>1 DEF Disappear, Settled, Without
  <2>3. Aside(e)
    BY <2>2, NoticeParts DEF Aside, Credits
  <2>. HIDE DEF e
  <2> QED BY <2>2, <2>3, PlainTells
<1>6. EndSteady \/ EndRecovery \/ EndBootstrap => Plain
  BY PlainTells DEF EndSteady, EndRecovery, EndBootstrap, EndFrame, Settled
<1>7. EndBootstrapLoop => Plain
  BY <1>1, PlainTells DEF EndBootstrapLoop, Settled
<1> QED BY <1>2, <1>3, <1>4, <1>5, <1>6, <1>7

\* The steps of the collector that credit nothing and keep nothing: they
\* leave the readings as they are, or forget them all in a frame that starts
\* from a new baseline.
LEMMA PlainCredit ==
  ASSUME TypeInv, TypeInv', CreditInv, LedgerType', Plain,
         UNCHANGED <<conns, credited>>, blurred \subseteq blurred',
         \A id \in Conn :
           Clear(id)' => \/ Reading(id)' = Reading(id)
                         \/ /\ Reading(id)' = {}
                            /\ conns[id].live => Claimed(id) = Zero,
         \A id \in Conn :
           conns[id].live /\ (isBootstrapFrame' \/ Below(total', prevTotal'))
             => isBootstrapFrame \/ Below(total, prevTotal)
  PROVE  OutboxInv' /\ \A id \in Conn : CreditOf(id)'
<1>1. OutboxInv'
  BY DEF Plain, Aside, CreditInv, OutboxInv
<1>2. ASSUME NEW id \in Conn PROVE CreditOf(id)'
  <2>1. CreditOf(id) /\ LedgerType /\ outbox' \in Seq(QueuedType)
        /\ credited[id].start <= conns[id].start
    BY DEF CreditInv, LedgerType, CreditOf, TypeInv
  <2>2. Claimed(id)' = Claimed(id)
    BY <2>1, ClaimSame DEF Plain, Aside
  <2>3. AtMost(Claimed(id)', Claimed(id))
    BY <2>1, <2>2, ClaimNat DEF AtMost
  <2> QED BY <2>1, <2>3, CreditStays
<1> QED BY <1>1, <1>2

LEMMA SameReading ==
  ASSUME NEW id
  PROVE  /\ UNCHANGED <<conns, activeMap, tombstones>> => Reading(id)' = Reading(id)
         /\ activeMap' = << >> /\ tombstones' = << >> => Reading(id)' = {}
<1>1. DOMAIN << >> = {}
  OBVIOUS
<1> QED BY <1>1 DEF Reading

\* The items that are no frames, and the end of the session.
LEMMA ItemCredit ==
  ASSUME TypeInv, TypeInv', CreditInv, StreamLost \/ Health \/ SessionEnds
  PROVE  OutboxInv' /\ LedgerType' /\ \A id \in Conn : CreditOf(id)'
<1>1. /\ UNCHANGED <<conns, total, credited, blurred, activeMap, tombstones,
                     prevTotal, isBootstrapFrame>>
      /\ Plain
  BY PlainSteps DEF StreamLost, GapOpened, Health, CollectorHealth, SessionEnds, Shutdown,
     WorldStays, mihomoVars, auditVars, connVars, seenVars
<1>2. \A id \in Conn : Reading(id)' = Reading(id)
  BY <1>1, SameReading
<1>3. LedgerType'
  BY <1>1 DEF CreditInv, LedgerType
<1> QED BY <1>1, <1>2, <1>3, PlainCredit

LEMMA FrameCredit ==
  ASSUME TypeInv, TypeInv', CreditInv, FrameArrives
  PROVE  OutboxInv' /\ LedgerType' /\ \A id \in Conn : CreditOf(id)'
<1>1. /\ UNCHANGED <<conns, total, credited, blurred>> /\ Plain
  BY FrameStarts, FrameStartsPlain DEF WorldStays, mihomoVars, auditVars
<1>2. /\ prevTotal' = prevTotal
      /\ \/ UNCHANGED <<activeMap, tombstones, isBootstrapFrame>>
         \/ /\ activeMap' = << >> /\ tombstones' = << >>
            /\ isBootstrapFrame \/ Below(total, prevTotal)
  BY FrameStarts DEF StartRecovery, StartEpochBreakAcrossGap, StartEpochBreak,
     StartBootstrap, StartSteady, StartNewEpoch, ResetTombstones, EpochBroken, connVars,
     seenVars
<1>3. \A id \in Conn :
        \/ Reading(id)' = Reading(id)
        \/ Reading(id)' = {} /\ (conns[id].live => Claimed(id) = Zero)
  BY <1>1, <1>2, SameReading DEF CreditInv, CreditOf
<1>4. isBootstrapFrame' \/ Below(total', prevTotal')
        => isBootstrapFrame \/ Below(total, prevTotal)
  BY <1>1, <1>2
<1>5. LedgerType'
  BY <1>1 DEF CreditInv, LedgerType
<1> QED BY <1>1, <1>3, <1>4, <1>5, PlainCredit

LEMMA EndCredit ==
  ASSUME TypeInv, TypeInv', CreditInv, UNCHANGED blurred, WorldStays, UNCHANGED auditVars,
         EndSteady \/ EndRecovery \/ EndBootstrap \/ EndBootstrapLoop
  PROVE  OutboxInv' /\ LedgerType' /\ \A id \in Conn : CreditOf(id)'
<1>1. /\ UNCHANGED <<conns, total, credited, activeMap, tombstones>> /\ Plain
  BY PlainSteps DEF EndSteady, EndRecovery, EndBootstrap, EndBootstrapLoop, EndFrame,
     WorldStays, mihomoVars, auditVars, connVars
<1>2. prevTotal' = total /\ (isBootstrapFrame' => isBootstrapFrame)
  BY DEF EndSteady, EndRecovery, EndBootstrap, EndBootstrapLoop, EndFrame, CreditInv,
     StageInv, InFrame
<1>3. ~Below(total, total)
  BY DEF TypeInv, WorldTypeOK, Below, Counter
<1>4. \A id \in Conn : Reading(id)' = Reading(id)
  BY <1>1, SameReading
<1>5. LedgerType'
  BY <1>1 DEF CreditInv, LedgerType
<1> QED BY <1>1, <1>2, <1>3, <1>4, <1>5, PlainCredit


\* A connection that leaves the active map keeps its reading in its
\* tombstone; the FIFO takes the reading of another at most, and marks it.
LEMMA TombstoneLeft ==
  ASSUME TypeInv, FreshInv, NEW id \in DOMAIN activeMap, RecordTombstone(id)
  PROVE  /\ id \in DOMAIN tombstones' /\ tombstones'[id].state = activeMap[id]
         /\ DOMAIN tombstones' \subseteq DOMAIN tombstones \cup {id}
         /\ \A x \in DOMAIN tombstones' : x # id => tombstones'[x] = tombstones[x]
<1>. DEFINE entry == [id |-> id, at |-> frameSequence]
            map == With(tombstones, id, [state |-> activeMap[id], at |-> frameSequence])
            fifo == Append(tombstoneFIFO, entry)
            full == Len(fifo) > MaxTombstones
<1>1. tombstones' = IF full /\ Drops(map, Head(fifo)) THEN Without(map, Head(fifo).id) ELSE map
  BY DEF RecordTombstone
<1>2. /\ DOMAIN map = DOMAIN tombstones \cup {id}
      /\ map[id].state = activeMap[id] /\ map[id].at = frameSequence
      /\ \A x \in DOMAIN tombstones : x # id => map[x] = tombstones[x]
  BY DEF With
<1>. HIDE DEF map
<1>3. full /\ Drops(map, Head(fifo)) => Head(fifo).id # id
  <2>. SUFFICES ASSUME full, Head(fifo).id = id, Head(fifo).at = frameSequence PROVE FALSE
    BY <1>2 DEF Drops
  <2>1. tombstoneFIFO \in Seq(TombstoneEntry) /\ entry \in TombstoneEntry
        /\ MaxTombstones \in Nat \ {0}
    BY TombstonesAssumption DEF TypeInv, TypeOK, TombstoneEntry
  <2>. HIDE DEF entry
  <2>2. Len(tombstoneFIFO) \in Nat /\ Len(tombstoneFIFO) > 0
    BY <2>1
  <2>3. Head(fifo) = tombstoneFIFO[1] /\ 1 \in 1..Len(tombstoneFIFO)
    BY <2>1, <2>2
  <2> QED BY <2>3 DEF FreshInv
<1> QED BY <1>1, <1>2, <1>3 DEF Without

LEMMA DisappearCredit ==
  ASSUME TypeInv, TypeInv', BooksInv, FreshInv, CreditInv, ConnDisappears
  PROVE  OutboxInv' /\ LedgerType' /\ \A id \in Conn : CreditOf(id)'
<1>1. PICK gone \in DOMAIN activeMap : Disappear(gone)
  BY DEF ConnDisappears
<1>2. /\ UNCHANGED <<conns, total, credited, prevTotal, isBootstrapFrame>> /\ Plain
      /\ blurred' = blurred \cup {<<x, tombstones[x].state.start>> :
                                   x \in DOMAIN tombstones \ DOMAIN tombstones'}
  BY <1>1, PlainSteps DEF ConnDisappears, Disappear, WorldStays, mihomoVars, auditVars,
     seenVars
<1>3. /\ gone \in DOMAIN tombstones' /\ tombstones'[gone].state = activeMap[gone]
      /\ DOMAIN tombstones' \subseteq DOMAIN tombstones \cup {gone}
      /\ \A x \in DOMAIN tombstones' : x # gone => tombstones'[x] = tombstones[x]
  BY <1>1, TombstoneLeft DEF Disappear
<1>4. /\ DOMAIN activeMap' = DOMAIN activeMap \ {gone}
      /\ \A x \in DOMAIN activeMap' : activeMap'[x] = activeMap[x]
  BY <1>1 DEF Disappear, Without
<1>5. activeMap[gone].start = conns[gone].start
  BY DEF BooksInv
<1>6. ASSUME NEW id \in Conn, Clear(id)' PROVE Reading(id)' = Reading(id)
  <2>1. CASE id = gone
    BY <1>2, <1>3, <1>4, <1>5, <2>1 DEF Reading
  <2>2. CASE id # gone /\ id \in DOMAIN activeMap
    BY <1>4, <2>2 DEF Reading
  <2>3. CASE id # gone /\ id \notin DOMAIN activeMap
    <3>1. id \in DOMAIN tombstones \ DOMAIN tombstones'
            => tombstones[id].state.start # conns[id].start
      BY <1>2, <1>6 DEF Clear
    <3>2. {y \in DOMAIN tombstones : y = id /\ tombstones[y].state.start = conns[id].start}
            = {y \in DOMAIN tombstones' : y = id /\ tombstones'[y].state.start = conns'[id].start}
      BY <1>2, <1>3, <2>3, <3>1
    <3>3. Reading(id) = {tombstones[x].state.last : x \in {y \in DOMAIN tombstones :
                           y = id /\ tombstones[y].state.start = conns[id].start}}
      BY <2>3 DEF Reading
    <3>4. Reading(id)' = {tombstones'[x].state.last : x \in {y \in DOMAIN tombstones' :
                           y = id /\ tombstones'[y].state.start = conns'[id].start}}
      BY <1>4, <2>3 DEF Reading
    <3> QED BY <1>3, <2>3, <3>2, <3>3, <3>4
  <2> QED BY <2>1, <2>2, <2>3
<1>7. LedgerType' /\ blurred \subseteq blurred'
  BY <1>2 DEF CreditInv, LedgerType
<1> QED BY <1>2, <1>6, <1>7, PlainCredit

\* The sink keeps what was on its way, or refuses it.
LEMMA KeepsCredit ==
  ASSUME TypeInv, TypeInv', CreditInv, SinkKeeps
  PROVE  OutboxInv' /\ LedgerType' /\ \A id \in Conn : CreditOf(id)'
<1>. DEFINE e == Head(outbox).ev
<1>1. /\ outbox # << >> /\ outbox' = Tail(outbox) /\ outbox \in Seq(QueuedType)
      /\ Account(e)
      /\ UNCHANGED <<conns, total, blurred, activeMap, tombstones, prevTotal,
                     isBootstrapFrame>>
  BY DEF SinkKeeps, SinkTakes, TypeInv, WorldStays, mihomoVars, connVars, seenVars
<1>2. /\ Len(outbox) \in Nat /\ Len(outbox) > 0 /\ e = outbox[1].ev /\ 1 \in DOMAIN outbox
      /\ Len(outbox') = Len(outbox) - 1 /\ DOMAIN outbox' = 1..(Len(outbox) - 1)
      /\ \A i \in DOMAIN outbox' : outbox'[i] = outbox[i + 1] /\ i + 1 \in DOMAIN outbox
  BY <1>1
<1>3. /\ e.delta \in Counter /\ LedgerType
      /\ Credits(e) => Len(outbox) = 1 /\ e.conn \in Conn /\ e.start = conns[e.conn].start
  BY <1>2, EventFields DEF CreditInv, LedgerType, OutboxInv, TypeInv
<1>4. OutboxInv'
  BY <1>1, <1>2 DEF CreditInv, OutboxInv
<1>5. credited' =
        IF ~Credits(e) THEN credited
        ELSE [credited EXCEPT ![e.conn] = [start |-> e.start, bytes |->
                IF credited[e.conn].start = e.start
                THEN Plus(credited[e.conn].bytes, e.delta) ELSE e.delta]]
  BY <1>1 DEF Account
<1>. HIDE DEF e
<1>6. CASE ~Credits(e)
  <2>1. credited' = credited
    BY <1>5, <1>6
  <2>2. ASSUME NEW id \in Conn PROVE Due(id)' = Due(id)
    <3>1. CASE Len(outbox) = 1
      BY <1>1, <1>2, <1>6, <3>1 DEF Due
    <3>2. CASE Len(outbox) > 1
      <4>1. outbox' # << >> /\ outbox'[Len(outbox')] = outbox[Len(outbox)]
        <5>1. Len(outbox') \in DOMAIN outbox' /\ Len(outbox') + 1 = Len(outbox)
          BY <1>2, <3>2
        <5>2. outbox' # << >>
          BY <5>1
        <5> QED BY <1>2, <5>1, <5>2
      <4> QED BY <1>1, <4>1 DEF Due
    <3> QED BY <1>2, <3>1, <3>2
  <2>3. \A id \in Conn : Claimed(id)' = Claimed(id) /\ credited'[id].start <= conns[id].start
    BY <1>1, <2>1, <2>2 DEF Claimed, Kept, CreditInv, CreditOf
  <2>4. LedgerType'
    BY <1>3, <2>1 DEF LedgerType
  <2>5. ASSUME NEW id \in Conn PROVE CreditOf(id)'
    <3>1. AtMost(Claimed(id)', Claimed(id))
      BY <1>3, <2>3, <2>4, ClaimNat DEF AtMost
    <3>2. CreditOf(id)
      BY DEF CreditInv
    <3> QED BY <1>1, <1>3, <2>3, <2>4, <3>1, <3>2, SameReading, CreditStays
  <2> QED BY <1>4, <2>4, <2>5
<1>7. CASE Credits(e)
  <2>. DEFINE c == e.conn
              new == [start |-> e.start, bytes |->
                        IF credited[c].start = e.start
                        THEN Plus(credited[c].bytes, e.delta) ELSE e.delta]
  <2>1. credited' = [credited EXCEPT ![c] = new]
    BY <1>5, <1>7
  <2>2. c \in Conn /\ e.start = conns[c].start /\ conns[c].start \in Nat
        /\ credited[c] \in [start : Nat, bytes : Counter]
    BY <1>3, <1>7, ConnNats DEF LedgerType
  <2>3. new \in [start : Nat, bytes : Counter] /\ new.start = conns[c].start
        /\ new.bytes = IF credited[c].start = e.start
                       THEN Plus(credited[c].bytes, e.delta) ELSE e.delta
    BY <1>3, <2>2, CounterTypes
  <2>. HIDE DEF new
  <2>4. LedgerType'
    BY <1>3, <2>1, <2>2, <2>3 DEF LedgerType
  <2>5. credited'[c] = new /\ \A id \in Conn : id # c => credited'[id] = credited[id]
    BY <1>3, <2>1, <2>2 DEF LedgerType
  <2>6. /\ outbox' = << >> /\ Len(outbox) = 1
        /\ \A id \in Conn : Due(id) = (IF id = c THEN e.delta ELSE Zero)
        /\ \A id \in Conn : Due(id)' = Zero
    BY <1>1, <1>2, <1>3, <1>7 DEF Due
  <2>7. Plus(Zero, e.delta) = e.delta /\ \A f \in Counter : Plus(f, Zero) = f
    BY <1>3 DEF Plus, Zero, Counter
  <2>8. ASSUME NEW id \in Conn
        PROVE  Claimed(id)' = Claimed(id) /\ credited'[id].start <= conns[id].start
    <3>1. CASE id = c
      <4>1. Kept(id)' = Plus(Kept(id), e.delta)
        BY <1>1, <2>2, <2>3, <2>5, <2>7, <3>1 DEF Kept
      <4>2. Kept(id)' \in Counter
        BY <2>4, ClaimTypes
      <4>3. Claimed(id)' = Kept(id)'
        BY <2>6, <2>7, <4>2 DEF Claimed
      <4>4. Claimed(id) = Plus(Kept(id), e.delta)
        BY <2>6, <3>1 DEF Claimed
      <4> QED BY <2>2, <2>3, <2>5, <3>1, <4>1, <4>3, <4>4
    <3>2. CASE id # c
      <4>1. Kept(id)' = Kept(id)
        BY <1>1, <2>5, <3>2 DEF Kept
      <4> QED BY <2>5, <2>6, <3>2, <4>1 DEF Claimed, CreditInv, CreditOf
    <3> QED BY <3>1, <3>2
  <2>9. ASSUME NEW id \in Conn PROVE CreditOf(id)'
    <3>1. AtMost(Claimed(id)', Claimed(id))
      BY <1>3, <2>4, <2>8, ClaimNat DEF AtMost
    <3>2. CreditOf(id)
      BY DEF CreditInv
    <3> QED BY <1>1, <1>3, <2>4, <2>8, <3>1, <3>2, SameReading, CreditStays
  <2> QED BY <1>4, <2>4, <2>9
<1> QED BY <1>6, <1>7


LEMMA RefusesCredit ==
  ASSUME TypeInv, TypeInv', CreditInv, SinkRefuses
  PROVE  OutboxInv' /\ LedgerType' /\ \A id \in Conn : CreditOf(id)'
<1>1. /\ UNCHANGED <<conns, total, credited, blurred, activeMap, tombstones,
                     prevTotal, isBootstrapFrame>>
      /\ outbox' = << >> /\ DOMAIN << >> = {}
  BY DEF SinkRefuses, SinkFails, WorldStays, mihomoVars, auditVars, connVars, seenVars
<1>2. LedgerType /\ LedgerType' /\ OutboxInv'
  BY <1>1 DEF CreditInv, LedgerType, OutboxInv
<1>3. ASSUME NEW id \in Conn PROVE CreditOf(id)'
  <2>1. Kept(id)' = Kept(id) /\ Due(id)' = Zero
    BY <1>1 DEF Kept, Due
  <2>2. Kept(id) \in Counter /\ Due(id) \in Counter
    BY <1>2, ClaimTypes DEF TypeInv
  <2>3. AtMost(Claimed(id)', Claimed(id))
    BY <2>1, <2>2 DEF Claimed, AtMost, Plus, Zero, Counter
  <2>4. CreditOf(id) /\ credited'[id].start <= conns[id].start
    BY <1>1 DEF CreditInv, CreditOf
  <2> QED BY <1>1, <1>2, <2>3, <2>4, SameReading, CreditStays
<1> QED BY <1>2, <1>3

\* A section credits the connection it processes with what Mihomo's counter
\* is above the last reading, and notes the new one.
LEMMA SectionCredit ==
  ASSUME TypeInv, TypeInv', BooksInv, CreditInv, NEW id \in todo, Section(id),
         UNCHANGED <<conns, total, credited, blurred>>
  PROVE  OutboxInv' /\ LedgerType' /\ \A x \in Conn : CreditOf(x)'
<1>1. /\ id \in Conn /\ id \in DOMAIN frame.conns /\ conns[id].live
      /\ frame.conns[id].ctr = conns[id].ctr
      /\ conns[id].ctr \in Counter /\ \A d \in Dir : conns[id].ctr[d] \in Nat
  <2>1. id \in Conn /\ id \in DOMAIN frame.conns
    BY DEF TypeInv, FrameTypeOK
  <2>2. pc \in InFrame
    BY DEF Section, InFrame
  <2> QED BY <2>1, <2>2, ConnNats DEF CreditInv, StageInv, BooksInv
<1>2. PICK due \in Counter : Voices(id, due) /\ Earned(id, due)
  BY DEF Section, Tells
<1>3. /\ activeMap'[id].last = conns[id].ctr /\ outbox = << >>
      /\ prevTotal' = prevTotal /\ isBootstrapFrame' = isBootstrapFrame
      /\ id \in DOMAIN activeMap'
  BY <1>1 DEF Section, Tells, seenVars
<1>4. OutboxInv'
  BY <1>1, <1>2 DEF OutboxInv, Voices
<1>5. LedgerType /\ LedgerType' /\ outbox' \in Seq(QueuedType)
  BY DEF CreditInv, LedgerType, TypeInv
<1>6. ASSUME NEW x \in Conn, x # id PROVE CreditOf(x)'
  <2>1. Reading(x)' = Reading(x)
    <3>1. x \in DOMAIN activeMap' <=> x \in DOMAIN activeMap
      BY <1>6 DEF Section
    <3>2. CASE x \in DOMAIN activeMap
      BY <1>6, <3>1, <3>2 DEF Reading, Section
    <3>3. CASE x \notin DOMAIN activeMap
      <4>1. Reading(x) = {tombstones[y].state.last : y \in {z \in DOMAIN tombstones :
                            z = x /\ tombstones[z].state.start = conns[x].start}}
        BY <3>3 DEF Reading
      <4>2. Reading(x)' = {tombstones'[y].state.last : y \in {z \in DOMAIN tombstones' :
                            z = x /\ tombstones'[z].state.start = conns'[x].start}}
        BY <3>1, <3>3 DEF Reading
      <4>3. /\ x \in DOMAIN tombstones <=> x \in DOMAIN tombstones'
            /\ x \in DOMAIN tombstones' => tombstones'[x] = tombstones[x]
        BY <1>6 DEF Section
      <4> QED BY <4>1, <4>2, <4>3
    <3> QED BY <3>2, <3>3
  <2>2. Due(x) = Zero /\ Due(x)' = Zero
    <3>1. outbox' # << >> => Len(outbox') \in DOMAIN outbox'
      BY <1>5
    <3> QED BY <1>2, <1>3, <1>6, <3>1 DEF Due, Voices
  <2>3. Claimed(x)' = Claimed(x)
    BY <2>2 DEF Claimed, Kept
  <2>4. AtMost(Claimed(x)', Claimed(x))
    BY <1>5, <2>3, ClaimNat DEF AtMost
  <2>5. CreditOf(x) /\ credited'[x].start <= conns[x].start
    BY DEF CreditInv, CreditOf
  <2> QED BY <1>3, <1>5, <2>1, <2>4, <2>5, CreditStays
<1>7. CreditOf(id)'
  <2>1. Claimed(id) = Kept(id) /\ Kept(id) \in Counter
    <3>1. Kept(id) \in Counter /\ Due(id) = Zero
      BY <1>1, <1>3, <1>5, ClaimTypes DEF Due
    <3> QED BY <3>1 DEF Claimed, Plus, Zero, Counter
  <2>2. Due(id)' = due \/ Due(id)' = Zero
    <3>1. outbox' # << >> => Len(outbox') \in DOMAIN outbox'
      BY <1>5
    <3> QED BY <1>2, <3>1 DEF Due, Voices
  <2>3. Claimed(id)' = Plus(Kept(id), Due(id)')
    BY DEF Claimed, Kept
  <2>4. CreditOf(id)
    BY <1>1 DEF CreditInv
  <2>5. Reading(id)' = {conns[id].ctr}
    BY <1>1, <1>3 DEF Reading
  <2>6. Due(id)' \in Counter
    BY <1>1, <1>5, ClaimTypes
  <2>7. Due(id)' = Zero => Claimed(id)' = Kept(id)
    BY <2>1, <2>3 DEF Plus, Zero, Counter
  <2>8. ASSUME Clear(id)' PROVE AtMost(Claimed(id)', conns[id].ctr)
    <3>1. Clear(id)
      BY <2>8 DEF Clear
    <3>2. AtMost(Kept(id), conns[id].ctr)
          /\ (\A r \in Reading(id) : AtMost(Kept(id), r))
          /\ (Reading(id) = {} => Kept(id) = Zero)
      BY <1>1, <2>1, <2>4, <3>1 DEF CreditOf
    <3>3. CASE Due(id)' = Zero
      BY <2>7, <3>2, <3>3
    <3>4. ASSUME NEW r \in Reading(id), Due(id)' = Monus(conns[id].ctr, r)
          PROVE  AtMost(Claimed(id)', conns[id].ctr)
      <4>1. r \in Counter /\ AtMost(Kept(id), r)
        BY <1>1, <3>2, <3>4, ReadingTypes
      <4>2. ~Below(conns[id].ctr, r)
        BY <3>1, <3>4, <1>1 DEF Reading, BooksInv, Sound, Clear
      <4> QED BY <1>1, <2>1, <2>3, <3>4, <4>1, <4>2 DEF AtMost, Plus, Monus, Below, Counter
    <3>5. CASE Reading(id) = {} /\ Due(id)' = conns[id].ctr
      <4>1. Claimed(id)' = Plus(Zero, conns[id].ctr)
        BY <2>3, <3>2, <3>5
      <4> QED BY <1>1, <4>1 DEF AtMost, Plus, Zero, Counter
    <3> QED BY <1>1, <1>2, <2>2, <3>3, <3>4, <3>5 DEF Earned
  <2>9. isBootstrapFrame' \/ Below(total', prevTotal') => Claimed(id)' = Zero
    <3>. HAVE isBootstrapFrame' \/ Below(total', prevTotal')
    <3>1. isBootstrapFrame \/ Below(total, prevTotal)
      BY <1>3
    <3>2. pc \notin {"recovery", "steady"}
      BY <3>1 DEF CreditInv, StageInv
    <3>3. Due(id)' = Zero
      BY <1>2, <2>2, <3>2 DEF Earned
    <3> QED BY <1>1, <2>1, <2>4, <2>7, <3>1, <3>3 DEF CreditOf
  <2>10. credited'[id].start <= conns'[id].start
    BY <2>4 DEF CreditOf
  <2> QED BY <1>1, <2>5, <2>8, <2>9, <2>10 DEF CreditOf
<1> QED BY <1>4, <1>5, <1>6, <1>7


\* Mihomo's totals start again only when no connection is left.
LEMMA TotalsMove ==
  ASSUME TypeInv, MihomoMoves \/ CounterAnomaly
  PROVE  /\ outbox = << >> /\ outbox' = outbox
         /\ UNCHANGED <<credited, activeMap, tombstones, prevTotal, isBootstrapFrame>>
         /\ Below(total', prevTotal') =>
              Below(total, prevTotal) \/ \A id \in Conn : ~conns'[id].live
<1>1. /\ outbox = << >> /\ outbox' = outbox
      /\ UNCHANGED <<credited, activeMap, tombstones, prevTotal, isBootstrapFrame>>
  BY DEF MihomoMoves, CounterAnomaly, Quiet, Idle, Settled, engineVars, auditVars, connVars,
     seenVars
<1>2. total \in Counter /\ prevTotal \in Counter
  BY DEF TypeInv, TypeOK, WorldTypeOK
<1>3. CASE total' = total
  BY <1>1, <1>3
<1>4. ASSUME NEW x \in Conn, NEW d \in Dir, Carry(x, d)
      PROVE  Below(total', prevTotal') => Below(total, prevTotal)
  <2>1. total' = [total EXCEPT ![d] = @ + 1]
    BY <1>4 DEF Carry
  <2>2. \A e \in Dir : total'[e] >= total[e] /\ total'[e] \in Nat /\ total[e] \in Nat
                       /\ prevTotal[e] \in Nat
    BY <1>2, <2>1 DEF Counter
  <2> QED BY <1>1, <2>2 DEF Below
<1>5. ASSUME Restart PROVE \A id \in Conn : ~conns'[id].live
  <2>1. conns' = [id \in Conn |-> [conns[id] EXCEPT !.live = FALSE]]
    BY <1>5 DEF Restart
  <2>2. \A id \in Conn : conns[id] \in MihomoConn
    BY DEF TypeInv, WorldTypeOK, MihomoConn
  <2> QED BY <2>1, <2>2 DEF MihomoConn
<1>6. \/ total' = total
      \/ \E x \in Conn, d \in Dir : Carry(x, d)
      \/ Restart
  BY DEF MihomoMoves, CounterAnomaly, MihomoOpens, Open, Reroute, Shut
<1> QED BY <1>1, <1>3, <1>4, <1>5, <1>6

LEMMA WorldCredit ==
  ASSUME TypeInv, TypeInv', BooksInv, CreditInv, MihomoMoves \/ CounterAnomaly
  PROVE  OutboxInv' /\ LedgerType' /\ \A id \in Conn : CreditOf(id)'
<1>1. /\ outbox = << >> /\ outbox' = outbox /\ DOMAIN << >> = {}
      /\ UNCHANGED <<credited, activeMap, tombstones, prevTotal, isBootstrapFrame>>
  BY TotalsMove
<1>2. OutboxInv' /\ LedgerType /\ LedgerType'
  BY <1>1 DEF OutboxInv, CreditInv, LedgerType
<1>3. ASSUME NEW id \in Conn PROVE CreditOf(id)'
  <2>1. /\ Onward(id) /\ CreditOf(id) /\ blurred \subseteq blurred'
        /\ conns[id].start \in Nat /\ credited[id].start \in Nat
        /\ \A d \in Dir : conns[id].ctr[d] \in Nat
    BY <1>2, WorldMoves, ConnNats, CreditParts DEF CreditInv, LedgerType
  <2>2. \A d \in Dir : conns'[id].ctr[d] \in Nat
    <3>1. conns'[id] \in MihomoConn
      BY DEF TypeInv, WorldTypeOK, MihomoConn
    <3> QED BY <3>1, MihomoConnParts DEF Counter
  <2>3. Due(id) = Zero /\ Due(id)' = Zero /\ Kept(id) \in Counter
    BY <1>1, <1>2, ClaimTypes DEF Due
  <2>4. Claimed(id) = Kept(id)
    BY <2>3 DEF Claimed, Plus, Zero, Counter
  <2>5. CASE conns'[id].start = conns[id].start + 1 /\ id \notin DOMAIN activeMap
    <3>1. Kept(id)' = Zero
      BY <1>1, <2>1, <2>5 DEF Kept, CreditOf
    <3>2. Claimed(id)' = Zero
      BY <2>3, <3>1 DEF Claimed, Plus, Zero
    <3>3. \A r \in Reading(id)' : \A d \in Dir : r[d] \in Nat
      <4>1. \A r \in Reading(id)' : r \in Counter
        BY DEF Reading, TypeInv, TypeOK, ConnState
      <4> QED BY <4>1 DEF Counter
    <3>4. /\ AtMost(Claimed(id)', conns'[id].ctr)
          /\ \A r \in Reading(id)' : AtMost(Claimed(id)', r)
      BY <2>2, <3>2, <3>3 DEF AtMost, Zero
    <3>5. credited'[id].start <= conns'[id].start
      BY <1>1, <2>1, <2>5 DEF CreditOf
    <3> QED BY <3>2, <3>4, <3>5 DEF CreditOf
  <2>6. CASE conns'[id].start = conns[id].start
    <3>1. Kept(id)' = Kept(id)
      BY <1>1, <2>6 DEF Kept
    <3>2. Claimed(id)' = Claimed(id)
      BY <2>3, <3>1 DEF Claimed
    <3>3. Reading(id)' = Reading(id)
      <4>1. CASE id \in DOMAIN activeMap
        BY <1>1, <4>1 DEF Reading
      <4>2. CASE id \notin DOMAIN activeMap
        BY <1>1, <2>6, <4>2 DEF Reading
      <4> QED BY <4>1, <4>2
    <3>4. /\ conns'[id].live => conns[id].live
          /\ \/ \A d \in Dir : conns[id].ctr[d] <= conns'[id].ctr[d]
             \/ <<id, conns[id].start>> \in blurred'
      BY <2>1, <2>6 DEF Onward
    <3>5. Clear(id)' => Clear(id) /\ \A d \in Dir : conns[id].ctr[d] <= conns'[id].ctr[d]
      BY <2>1, <2>6, <3>4 DEF Clear
    <3>6. Clear(id)' => /\ AtMost(Claimed(id)', conns'[id].ctr)
                        /\ \A r \in Reading(id)' : AtMost(Claimed(id)', r)
      <4>. HAVE Clear(id)'
      <4>1. AtMost(Claimed(id), conns[id].ctr)
            /\ \A r \in Reading(id) : AtMost(Claimed(id), r)
        BY <2>1, <3>5 DEF CreditOf
      <4>2. \A d \in Dir : Claimed(id)[d] \in Nat
        BY <2>3, <2>4 DEF Counter
      <4> QED BY <2>1, <2>2, <3>2, <3>3, <3>5, <4>1, <4>2 DEF AtMost
    <3>7. conns'[id].live =>
            /\ Clear(id)' /\ Reading(id)' = {} => Claimed(id)' = Zero
            /\ isBootstrapFrame' \/ Below(total', prevTotal') => Claimed(id)' = Zero
      BY <1>1, <2>1, <3>2, <3>3, <3>4, <3>5, TotalsMove DEF CreditOf
    <3>8. credited'[id].start <= conns'[id].start
      BY <1>1, <2>1, <2>6 DEF CreditOf
    <3> QED BY <3>6, <3>7, <3>8 DEF CreditOf
  <2> QED BY <2>1, <2>5, <2>6 DEF Onward
<1> QED BY <1>2, <1>3

LEMMA CreditNext ==
  TypeInv /\ TypeInv' /\ FreshInv /\ BooksInv /\ CreditInv /\ [Next]_vars => CreditInv'
<1>. SUFFICES ASSUME TypeInv, TypeInv', FreshInv, BooksInv, CreditInv, [Next]_vars
              PROVE  CreditInv'
  OBVIOUS
<1>1. StageInv'
  BY StageNext DEF CreditInv
<1>. SUFFICES OutboxInv' /\ LedgerType' /\ \A id \in Conn : CreditOf(id)'
  BY <1>1 DEF CreditInv, LedgerType
<1>2. CASE Tick \/ Stopped \/ UNCHANGED vars
  <2>1. UNCHANGED <<conns, total, credited, blurred, activeMap, tombstones, prevTotal,
                    isBootstrapFrame, outbox>>
    BY <1>2 DEF Tick, Quiet, Stopped, vars, engineVars, auditVars, connVars, seenVars,
       mihomoVars
  <2>2. Plain /\ LedgerType' /\ \A id \in Conn : Reading(id)' = Reading(id)
    BY <2>1, SameReading DEF Plain, CreditInv, LedgerType
  <2> QED BY <2>1, <2>2, PlainCredit
<1>3. CASE MihomoMoves \/ CounterAnomaly
  BY <1>3, WorldCredit
<1>4. CASE StreamLost \/ Health \/ SessionEnds
  BY <1>4, ItemCredit
<1>5. CASE FrameArrives
  BY <1>5, FrameCredit
<1>6. CASE ConnDisappears
  BY <1>6, DisappearCredit
<1>7. CASE SinkKeeps
  BY <1>7, KeepsCredit
<1>8. CASE SinkRefuses
  BY <1>8, RefusesCredit
<1>9. CASE FrameProceeds
  <2>1. UNCHANGED blurred /\ WorldStays /\ UNCHANGED auditVars
    BY <1>9 DEF FrameProceeds
  <2>2. CASE ProcessConn
    <3>1. PICK id \in todo : Section(id)
      BY <2>2, SectionOf
    <3>2. UNCHANGED <<conns, total, credited, blurred>>
      BY <2>1 DEF WorldStays, mihomoVars, auditVars
    <3> QED BY <3>1, <3>2, SectionCredit
  <2>3. CASE EndSteady \/ EndRecovery \/ EndBootstrap \/ EndBootstrapLoop
    BY <2>1, <2>3, EndCredit
  <2> QED BY <1>9, <2>2, <2>3 DEF FrameProceeds
<1> QED BY <1>2, <1>3, <1>4, <1>5, <1>6, <1>7, <1>8, <1>9 DEF Next

\* Over flaps, stream losses, recoveries, epoch breaks and frames that leave
\* live connections out, with a sink that may refuse any event, the deltas
\* kept for a connection never exceed the bytes Mihomo carried for it.
THEOREM NothingCountedTwice == Spec => []NoDoubleCount
<1>1. Init => FreshInv /\ BooksInv
  <2>1. Len(<< >>) = 0 /\ DOMAIN << >> = {} /\ DOMAIN NoFrame.conns = {}
    BY DEF NoFrame
  <2> QED BY <2>1 DEF Init, EngineInit, FreshInv, BooksInv
<1>2. Init => CreditInv
  <2>. SUFFICES ASSUME Init PROVE CreditInv
    OBVIOUS
  <2>1. /\ outbox = << >> /\ DOMAIN << >> = {} /\ pc = "idle" /\ ~hasEverBeenHealthy
        /\ ~gapIsOpen /\ \A id \in Conn : credited[id] = [start |-> 0, bytes |-> Zero]
        /\ credited = [id \in Conn |-> [start |-> 0, bytes |-> Zero]]
    BY DEF Init, EngineInit
  <2>2. OutboxInv /\ StageInv
    BY <2>1 DEF OutboxInv, StageInv, InFrame
  <2>3. LedgerType
    BY <2>1, CounterTypes DEF LedgerType
  <2>4. ASSUME NEW id \in Conn PROVE CreditOf(id)
    <3>1. TypeInv /\ conns[id].start \in Nat /\ \A d \in Dir : conns[id].ctr[d] \in Nat
      BY InitType, ConnNats
    <3>2. Claimed(id) = Zero
      BY <2>1 DEF Claimed, Kept, Due, Plus, Zero
    <3>3. \A r \in Reading(id) : \A d \in Dir : r[d] \in Nat
      BY <3>1, ReadingTypes
    <3> QED BY <2>1, <3>1, <3>2, <3>3 DEF CreditOf, AtMost, Zero
  <2> QED BY <2>2, <2>3, <2>4 DEF CreditInv, LedgerType
<1>3. TypeInv /\ CreditInv => NoDoubleCount
  <2>. SUFFICES ASSUME TypeInv, CreditInv, NEW id \in Conn,
                       credited[id].start = conns[id].start, Clear(id)
                PROVE  \A d \in Dir : credited[id].bytes[d] <= conns[id].ctr[d]
    BY DEF NoDoubleCount, Clear
  <2>1. LedgerType
    BY DEF CreditInv, LedgerType
  <2>2. /\ Kept(id) = credited[id].bytes /\ Kept(id) \in Counter /\ Due(id) \in Counter
        /\ AtMost(Claimed(id), conns[id].ctr) /\ conns[id].ctr \in Counter
    BY <2>1, ClaimTypes, ConnNats DEF Kept, CreditInv, CreditOf, TypeInv
  <2> QED BY <2>2 DEF Claimed, AtMost, Plus, Counter
<1> QED BY <1>1, <1>2, <1>3, InitType, NextType, FreshNext, BooksNext, CreditNext, PTL
    DEF Spec


-----------------------------------------------------------------------------
(* Quiet connections keep evidence.                                        *)

\* Steps that name no connection the engine holds: it keeps the connections
\* it has, or forgets them all.
LEMMA PlainEvidence ==
  ASSUME TypeInv, EvidenceInv, Plain, UNCHANGED evidence,
         activeMap' = << >> \/ \A id \in DOMAIN activeMap' :
                                 id \in DOMAIN activeMap /\ activeMap'[id] = activeMap[id],
         pc' = "idle" \/ pc' \in InFrame =>
           activeMap' = << >> \/ pc = "idle" \/ pc \in InFrame,
         pc' \in InFrame =>
           \/ activeMap' = << >> \/ todo' = DOMAIN frame'.conns
           \/ UNCHANGED <<frame, todo>> /\ pc \in InFrame,
         pc' \in {"bootstrap", "bootstrapped"} =>
           \/ activeMap' = << >>
           \/ UNCHANGED frame /\ pc \in {"bootstrap", "bootstrapped"},
         pc' = "idle" =>
           \/ UNCHANGED lastHealthyAt /\ pc = "idle"
           \/ /\ pc \in InFrame /\ todo = {} /\ lastHealthyAt' = frame.ts
              /\ DOMAIN activeMap \subseteq DOMAIN frame.conns
  PROVE  EvidenceInv'
<1>1. DOMAIN << >> = {}
  OBVIOUS
<1>2. ASSUME pc' = "idle" \/ pc' \in InFrame, NEW id \in DOMAIN activeMap'
      PROVE  \/ evidence'[id] = activeMap'[id].evidenceAt
             \/ \E i \in DOMAIN outbox' : outbox'[i].ev.conn = id
  BY <1>1, <1>2 DEF EvidenceInv, Plain
<1>3. \A i \in DOMAIN outbox' :
        outbox'[i].ev.conn \in DOMAIN activeMap' =>
          outbox'[i].ev.ts = activeMap'[outbox'[i].ev.conn].evidenceAt
  <2>1. CASE outbox' = outbox
    BY <1>1, <2>1 DEF EvidenceInv
  <2>2. CASE \A i \in DOMAIN outbox' : Aside(outbox'[i].ev)
    BY <2>2 DEF Aside
  <2> QED BY <2>1, <2>2 DEF Plain
<1>4. ASSUME pc' \in InFrame, NEW id \in DOMAIN activeMap' \cap (DOMAIN frame'.conns \ todo')
      PROVE  frame'.ts - activeMap'[id].evidenceAt < PresenceInterval
  BY <1>1, <1>4 DEF EvidenceInv
<1>5. pc' \in {"bootstrap", "bootstrapped"} => DOMAIN activeMap' \subseteq DOMAIN frame'.conns
  BY <1>1 DEF EvidenceInv
<1>6. ASSUME pc' = "idle", NEW id \in DOMAIN activeMap'
      PROVE  lastHealthyAt' - activeMap'[id].evidenceAt < PresenceInterval
  BY <1>1, <1>6 DEF EvidenceInv
<1>7. evidence' \in [Conn -> Nat]
  BY DEF EvidenceInv
<1> QED BY <1>2, <1>3, <1>4, <1>5, <1>6, <1>7 DEF EvidenceInv

LEMMA KeepsEvidence ==
  ASSUME TypeInv, EvidenceInv, SinkKeeps
  PROVE  EvidenceInv'
<1>. DEFINE e == Head(outbox).ev
<1>1. /\ outbox # << >> /\ outbox' = Tail(outbox) /\ outbox \in Seq(QueuedType)
      /\ evidence' = IF e.conn = NoConn THEN evidence ELSE [evidence EXCEPT ![e.conn] = e.ts]
      /\ UNCHANGED <<pc, frame, todo, activeMap, lastHealthyAt>>
  BY DEF SinkKeeps, SinkTakes, TypeInv, connVars, frameVars, seenVars
<1>2. /\ e = outbox[1].ev /\ 1 \in DOMAIN outbox
      /\ \A i \in DOMAIN outbox : i = 1 \/ i - 1 \in DOMAIN outbox'
      /\ \A i \in DOMAIN outbox' : outbox'[i] = outbox[i + 1] /\ i + 1 \in DOMAIN outbox
      /\ \A i \in DOMAIN outbox : i = 1 \/ outbox'[i - 1] = outbox[i]
  BY <1>1
<1>3. e.ts \in Nat
  BY <1>1, <1>2, EventFields
<1>. HIDE DEF e
<1>4. evidence' \in [Conn -> Nat]
  BY <1>1, <1>3 DEF EvidenceInv
<1>5. ASSUME pc' = "idle" \/ pc' \in InFrame, NEW id \in DOMAIN activeMap'
      PROVE  \/ evidence'[id] = activeMap'[id].evidenceAt
             \/ \E i \in DOMAIN outbox' : outbox'[i].ev.conn = id
  <2>1. id \in Conn /\ id # NoConn /\ id \in DOMAIN activeMap /\ evidence \in [Conn -> Nat]
    BY <1>1, ConnAssumption DEF TypeInv, TypeOK, NoConn, EvidenceInv
  <2>2. CASE e.conn = id
    <3>1. evidence'[id] = e.ts
      BY <1>1, <2>1, <2>2
    <3>2. e.ts = activeMap[id].evidenceAt
      BY <1>2, <2>1, <2>2 DEF EvidenceInv
    <3> QED BY <1>1, <3>1, <3>2
  <2>3. CASE e.conn # id
    <3>1. evidence'[id] = evidence[id]
      BY <1>1, <2>1, <2>3
    <3>2. ASSUME NEW i \in DOMAIN outbox, outbox[i].ev.conn = id
          PROVE  \E j \in DOMAIN outbox' : outbox'[j].ev.conn = id
      BY <1>2, <2>3, <3>2
    <3> QED BY <1>1, <1>5, <2>1, <3>1, <3>2 DEF EvidenceInv
  <2> QED BY <2>2, <2>3
<1>6. \A i \in DOMAIN outbox' :
        outbox'[i].ev.conn \in DOMAIN activeMap' =>
          outbox'[i].ev.ts = activeMap'[outbox'[i].ev.conn].evidenceAt
  BY <1>1, <1>2 DEF EvidenceInv
<1> QED BY <1>1, <1>4, <1>5, <1>6 DEF EvidenceInv

\* A section gives the connection it processes fresh evidence, or finds it.
LEMMA SectionEvidence ==
  ASSUME TypeInv, EvidenceInv, NEW id \in todo, Section(id), UNCHANGED evidence
  PROVE  EvidenceInv'
<1>1. /\ outbox = << >> /\ DOMAIN << >> = {} /\ pc \in InFrame /\ pc' = pc
      /\ pc # "idle" /\ frame' = frame /\ todo' = todo \ {id}
      /\ id \in DOMAIN frame.conns /\ frame.ts \in Nat
  BY DEF Section, InFrame, TypeInv, FrameTypeOK
<1>2. PICK due \in Counter : Voices(id, due)
  BY DEF Section, Tells
<1>3. /\ id \in DOMAIN activeMap'
      /\ frame.ts - activeMap'[id].evidenceAt < PresenceInterval
      /\ \/ DOMAIN outbox' # {} /\ activeMap'[id].evidenceAt = frame.ts
         \/ DOMAIN outbox' = {} /\ evidence'[id] = activeMap'[id].evidenceAt
  BY <1>1, PresenceAssumption DEF Section, Tells, Freshly, EvidenceInv
<1>4. ASSUME NEW x \in DOMAIN activeMap'
      PROVE  \/ evidence'[x] = activeMap'[x].evidenceAt
             \/ \E i \in DOMAIN outbox' : outbox'[i].ev.conn = x
  <2>1. CASE x = id
    BY <1>2, <1>3, <2>1 DEF Voices
  <2>2. CASE x # id
    BY <1>1, <2>2 DEF Section, EvidenceInv
  <2> QED BY <2>1, <2>2
<1>5. \A i \in DOMAIN outbox' :
        outbox'[i].ev.conn \in DOMAIN activeMap' =>
          outbox'[i].ev.ts = activeMap'[outbox'[i].ev.conn].evidenceAt
  BY <1>2, <1>3 DEF Voices
<1>6. ASSUME NEW x \in DOMAIN activeMap' \cap (DOMAIN frame'.conns \ todo')
      PROVE  frame'.ts - activeMap'[x].evidenceAt < PresenceInterval
  <2>1. CASE x = id
    BY <1>1, <1>3, <2>1
  <2>2. CASE x # id
    BY <1>1, <2>2 DEF Section, EvidenceInv
  <2> QED BY <2>1, <2>2
<1>7. pc' \in {"bootstrap", "bootstrapped"} => DOMAIN activeMap' \subseteq DOMAIN frame'.conns
  BY <1>1 DEF Section, EvidenceInv
<1> QED BY <1>1, <1>4, <1>5, <1>6, <1>7 DEF EvidenceInv

LEMMA EvidenceNext ==
  TypeInv /\ TypeInv' /\ BooksInv /\ EvidenceInv /\ [Next]_vars => EvidenceInv'
<1>. SUFFICES ASSUME TypeInv, TypeInv', BooksInv, EvidenceInv, [Next]_vars
              PROVE  EvidenceInv'
  OBVIOUS
<1>1. DOMAIN << >> = {}
  OBVIOUS
<1>2. CASE Tick \/ MihomoMoves \/ CounterAnomaly \/ Stopped \/ UNCHANGED vars
  BY <1>2 DEF Tick, MihomoMoves, CounterAnomaly, Quiet, Stopped, vars, engineVars, auditVars,
     connVars, seenVars, frameVars, EvidenceInv
<1>3. CASE StreamLost
  BY <1>3, PlainSteps, PlainEvidence DEF StreamLost, GapOpened, Idle, auditVars, connVars,
     frameVars, InFrame
<1>4. CASE Health
  BY <1>4, PlainSteps, PlainEvidence DEF Health, CollectorHealth, auditVars, connVars,
     frameVars, seenVars, InFrame
<1>5. CASE SessionEnds
  BY <1>5, PlainSteps, PlainEvidence DEF SessionEnds, Shutdown, auditVars, connVars, InFrame
<1>6. CASE SinkKeeps
  BY <1>6, KeepsEvidence
<1>7. CASE SinkRefuses
  <2>1. /\ outbox' = << >> /\ pc' \notin InFrame /\ pc' # "idle"
        /\ pc' \notin {"bootstrap", "bootstrapped"} /\ evidence' = evidence
    BY <1>7 DEF SinkRefuses, SinkFails, auditVars, InFrame
  <2> QED BY <1>1, <2>1 DEF EvidenceInv
<1>8. CASE ConnDisappears
  <2>1. PICK id \in DOMAIN activeMap : Disappear(id)
    BY <1>8 DEF ConnDisappears
  <2>2. /\ pc \in {"recovery", "steady"} /\ UNCHANGED <<pc, frame, todo, evidence>>
        /\ \A x \in DOMAIN activeMap' : x \in DOMAIN activeMap /\ activeMap'[x] = activeMap[x]
    BY <1>8, <2>1 DEF ConnDisappears, Disappear, Without, frameVars, auditVars
  <2> QED BY <1>8, <2>2, PlainSteps, PlainEvidence DEF InFrame
<1>9. CASE FrameArrives
  <2>1. /\ Plain /\ UNCHANGED evidence /\ todo' = DOMAIN frame'.conns /\ pc' # "idle"
        /\ pc = "idle"
    BY <1>9, FrameStarts, FrameStartsPlain DEF auditVars, Idle
  <2>2. \/ activeMap' = << >>
        \/ activeMap' = activeMap /\ pc' \in {"recovery", "steady"}
    BY <1>9, FrameStarts DEF StartRecovery, StartEpochBreakAcrossGap, StartEpochBreak,
       StartBootstrap, StartSteady, BeginFrame, StartNewEpoch, connVars
  <2> QED BY <2>1, <2>2, PlainEvidence
<1>10. CASE FrameProceeds
  <2>1. UNCHANGED evidence
    BY <1>10 DEF FrameProceeds, auditVars
  <2>2. CASE ProcessConn
    <3>1. PICK id \in todo : Section(id)
      BY <2>2, SectionOf
    <3> QED BY <2>1, <3>1, SectionEvidence
  <2>3. CASE EndSteady \/ EndRecovery
    <3>1. /\ pc \in InFrame /\ pc' = "idle" /\ todo = {} /\ lastHealthyAt' = frame.ts
          /\ activeMap' = activeMap /\ DOMAIN activeMap \subseteq DOMAIN frame.conns /\ Plain
      BY <2>3, PlainSteps DEF EndSteady, EndRecovery, EndFrame, Gone, InFrame, connVars
    <3> QED BY <2>1, <3>1, PlainEvidence DEF InFrame
  <2>4. CASE EndBootstrap
    <3>1. /\ pc \in InFrame /\ pc' = "idle" /\ todo = {} /\ lastHealthyAt' = frame.ts
          /\ activeMap' = activeMap /\ DOMAIN activeMap \subseteq DOMAIN frame.conns /\ Plain
      BY <2>4, PlainSteps DEF EndBootstrap, EndFrame, InFrame, connVars, EvidenceInv
    <3> QED BY <2>1, <3>1, PlainEvidence DEF InFrame
  <2>5. CASE EndBootstrapLoop
    <3>1. /\ pc = "bootstrap" /\ pc' = "bootstrapped" /\ UNCHANGED <<frame, todo, activeMap>>
          /\ Plain
      BY <2>5, PlainSteps DEF EndBootstrapLoop, connVars
    <3> QED BY <2>1, <3>1, PlainEvidence DEF InFrame
  <2> QED BY <1>10, <2>2, <2>3, <2>4, <2>5 DEF FrameProceeds
<1> QED BY <1>2, <1>3, <1>4, <1>5, <1>6, <1>7, <1>8, <1>9, <1>10 DEF Next

\* After every complete frame, however many frames a connection was silent
\* in, the record holds an event of it younger than the presence interval.
THEOREM PresenceEvident == Spec => []PresenceEvidence
<1>1. Init => BooksInv /\ EvidenceInv
  <2>1. DOMAIN << >> = {} /\ DOMAIN NoFrame.conns = {}
    BY DEF NoFrame
  <2> QED BY <2>1 DEF Init, EngineInit, BooksInv, EvidenceInv, InFrame, NoTime
<1>2. EvidenceInv => PresenceEvidence
  <2>1. DOMAIN << >> = {}
    OBVIOUS
  <2> QED BY <2>1 DEF EvidenceInv, PresenceEvidence, Idle, Settled
<1> QED BY <1>1, <1>2, InitType, NextType, BooksNext, EvidenceNext, PTL DEF Spec


-----------------------------------------------------------------------------
(* Silence is in a gap.  The gap of a frame is the one from the last frame *)
(* completed to this one, and it is on its way to the record or there      *)
(* before the frame is; what is on its way is of this frame's gap alone.   *)

Hushed == \A i \in DOMAIN outbox' :
            outbox'[i].ev.type \notin {"Residual", "GapOpened", "GapClosed"}

\* Steps that say nothing of gaps and end no frame.
LEMMA GapStays ==
  ASSUME TypeInv, GapInv, outbox = << >>, Hushed,
         UNCHANGED <<pc, seen, gap, gapVars, refused, isBootstrapFrame, lastHealthyAt>>,
         clock' \in Nat \ {0}, pc = "idle" \/ clock' = clock,
         pc \in InFrame => frame' = frame
  PROVE  GapInv'
<1>1. DOMAIN << >> = {}
  OBVIOUS
<1>2. ~Finishing /\ ~Finishing'
  BY <1>1 DEF Finishing, Kinds, Hushed
<1>3. LifeInv'
  BY <1>2 DEF GapInv, LifeInv, gapVars
<1>4. NoticesInv'
  BY DEF NoticesInv, Kinds, Hushed
<1>5. \A from, to : Recording(from, to) => gap = [open |-> FALSE, from |-> from, to |-> to]
  BY <1>1 DEF Recording, Recorded
<1>6. \A from, to : gap = [open |-> FALSE, from |-> from, to |-> to] => Recording(from, to)'
  BY DEF Recording, Recorded
<1>7. pc # "idle" \/ pc \notin InFrame
  BY DEF InFrame
<1>8. SilenceInv'
  BY <1>2, <1>5, <1>6, <1>7 DEF GapInv, SilenceInv, gapVars, Recorded, Silent, InFrame
<1> QED BY <1>3, <1>4, <1>8 DEF GapInv

LEMMA GapUntold ==
  ASSUME TypeInv, TypeInv', BooksInv, GapInv,
         \/ Tick \/ MihomoMoves \/ CounterAnomaly \/ Stopped \/ UNCHANGED vars
         \/ Health \/ ConnDisappears \/ (FrameProceeds /\ ProcessConn)
  PROVE  GapInv'
<1>1. DOMAIN << >> = {} /\ clock \in Nat \ {0}
  BY DEF GapInv, LifeInv
<1>2. CASE UNCHANGED vars
  BY <1>2 DEF vars, engineVars, auditVars, gapVars, seenVars, frameVars, GapInv, LifeInv,
     NoticesInv, SilenceInv, Kinds, Finishing, Recorded, Recording, Silent
<1>3. CASE Tick \/ MihomoMoves \/ CounterAnomaly \/ Stopped
  <2>1. /\ outbox = << >> /\ outbox' = << >>
        /\ UNCHANGED <<pc, frame, seen, gap, gapVars, refused, isBootstrapFrame, lastHealthyAt>>
        /\ clock' = clock \/ (pc = "idle" /\ clock' = clock + 1)
    <3>1. CASE Stopped
      BY <3>1 DEF Settled, Stopped, vars, engineVars, auditVars, gapVars, seenVars, frameVars
    <3>2. CASE Tick \/ MihomoMoves \/ CounterAnomaly
      <4>1. Quiet /\ (clock' = clock \/ clock' = clock + 1)
        BY <3>2 DEF Tick, MihomoMoves, CounterAnomaly
      <4> QED BY <4>1 DEF Quiet, Idle, Settled, engineVars, auditVars, gapVars, seenVars,
          frameVars
    <3> QED BY <1>3, <3>1, <3>2
  <2>2. Hushed
    BY <1>1, <2>1 DEF Hushed
  <2> QED BY <1>1, <2>1, <2>2, GapStays
<1>4. CASE Health
  <2>1. /\ outbox = << >> /\ Tells1(HealthEvent(clock, NoConn)) /\ clock' = clock
        /\ UNCHANGED <<pc, frame, seen, gap, gapVars, refused, isBootstrapFrame, lastHealthyAt>>
    BY <1>4, EmitTells DEF Health, CollectorHealth, Settled, WorldStays, auditVars,
       seenVars, frameVars
  <2>2. Hushed
    BY <2>1, NoticeParts DEF Hushed, Tells1
  <2> QED BY <1>1, <2>1, <2>2, GapStays
<1>5. CASE ConnDisappears
  <2>1. PICK id \in DOMAIN activeMap : Disappear(id)
    BY <1>5 DEF ConnDisappears
  <2>. DEFINE e == [Event("Disappeared", frame.ts) EXCEPT
                      !.conn = id, !.from = activeMap[id].observedAt,
                      !.counter = activeMap[id].last]
  <2>2. /\ outbox = << >> /\ Emit(<<e>>) /\ clock' = clock
        /\ UNCHANGED <<pc, frame, seen, gap, gapVars, refused, isBootstrapFrame, lastHealthyAt>>
    BY <1>5, <2>1 DEF ConnDisappears, Disappear, Settled, WorldStays, auditVars, seenVars,
       frameVars
  <2>3. e.type = "Disappeared"
    BY NoticeParts
  <2>. HIDE DEF e
  <2>4. Hushed
    BY <2>2, <2>3, EmitTells DEF Hushed, Tells1
  <2> QED BY <1>1, <2>2, <2>4, GapStays
<1>6. CASE FrameProceeds /\ ProcessConn
  <2>1. PICK id \in todo : Section(id)
    BY <1>6, SectionOf
  <2>2. /\ outbox = << >> /\ clock' = clock
        /\ UNCHANGED <<pc, frame, seen, gap, gapVars, refused, isBootstrapFrame, lastHealthyAt>>
    BY <1>6, <2>1 DEF Section, FrameProceeds, WorldStays, auditVars, seenVars
  <2>3. Hushed
    BY <2>1 DEF Section, Tells, Voices, Hushed
  <2> QED BY <1>1, <2>2, <2>3, GapStays
<1> QED BY <1>2, <1>3, <1>4, <1>5, <1>6


\* A stream is lost between two frames: the gap opens with the last frame.
LEMMA GapOpens ==
  ASSUME TypeInv, TypeInv', GapInv, StreamLost
  PROVE  GapInv'
<1>1. /\ DOMAIN << >> = {} /\ outbox = << >> /\ pc = "idle" /\ ~Finishing
      /\ seen' = [seen EXCEPT !.lost = TRUE] /\ clock' = clock
      /\ UNCHANGED <<pc, frame, gap, refused, isBootstrapFrame, lastHealthyAt,
                     hasEverBeenHealthy, unobservedGapEmitted, createdAt>>
  BY DEF StreamLost, GapOpened, Idle, Settled, WorldStays, auditVars, frameVars, Finishing,
     Kinds
<1>2. /\ seen'.prev = seen.prev /\ seen'.last = seen.last /\ seen'.first = seen.first
      /\ seen'.silent = seen.silent /\ seen'.lost
      /\ seen' \in [prev : Nat, last : Nat, first : BOOLEAN, lost : BOOLEAN, silent : BOOLEAN]
  BY <1>1 DEF GapInv, LifeInv
<1>3. CASE hasEverBeenHealthy /\ ~gapIsOpen
  <2>1. /\ gapIsOpen' = TRUE /\ gapStart' = GapFrom(clock)
        /\ Tells1(GapOpenedEvent(clock, GapFrom(clock)))
    BY <1>3, EmitTells DEF StreamLost, GapOpened
  <2>2. ~Finishing' /\ NoticesInv'
    BY <1>1, <2>1, NoticeParts DEF Finishing, Kinds, Tells1, NoticesInv
  <2>3. LifeInv'
    BY <1>1, <1>2, <1>3, <2>1 DEF GapInv, LifeInv, InFrame
  <2>4. GapFrom(clock) = seen.last
    BY <1>1, <1>3 DEF GapFrom, GapInv, LifeInv, SilenceInv
  <2>5. SilenceInv'
    BY <1>1, <1>2, <2>1, <2>2, <2>4 DEF GapInv, SilenceInv, InFrame, Recorded
  <2> QED BY <2>2, <2>3, <2>5 DEF GapInv
<1>4. CASE ~(hasEverBeenHealthy /\ ~gapIsOpen)
  <2>1. UNCHANGED <<gapIsOpen, gapStart, outbox>>
    BY <1>4 DEF StreamLost, GapOpened
  <2>2. ~Finishing' /\ NoticesInv'
    BY <1>1, <2>1 DEF Finishing, Kinds, NoticesInv
  <2>3. LifeInv'
    BY <1>1, <1>2, <2>1 DEF GapInv, LifeInv, InFrame
  <2>4. SilenceInv'
    BY <1>1, <1>2, <1>4, <2>1, <2>2 DEF GapInv, LifeInv, SilenceInv, InFrame, Recorded
  <2> QED BY <2>2, <2>3, <2>4 DEF GapInv
<1> QED BY <1>3, <1>4

\* A frame begins: it closes the gap there is, if any, before anything else.
LEMMA GapCloses ==
  ASSUME TypeInv, TypeInv', GapInv, FrameArrives
  PROVE  GapInv'
<1>1. /\ DOMAIN << >> = {} /\ outbox = << >> /\ pc = "idle" /\ ~Finishing
      /\ clock' = clock /\ frame'.ts = clock /\ clock \in Nat \ {0}
      /\ UNCHANGED <<seen, gap, refused>> /\ pc' \in {"bootstrap", "recovery", "steady"}
  BY FrameStarts DEF Idle, Settled, WorldStays, auditVars, Finishing, Kinds, GapInv, LifeInv
<1>2. ASSUME gapIsOpen, NEW breaks,
             \/ Tells1(GapClosedEvent(gapStart, frame'.ts))
             \/ /\ Tells2(GapClosedEvent(gapStart, frame'.ts), breaks)
                /\ breaks.type = "EpochBreak"
      PROVE  NoticesInv' /\ Recording(seen.last, clock)'
  <2>1. gapStart = seen.last
    BY <1>1, <1>2 DEF GapInv, SilenceInv
  <2>2. LET e == GapClosedEvent(gapStart, frame'.ts)
        IN  e.type = "GapClosed" /\ e.from = seen.last /\ e.to = frame'.ts
    BY <2>1, NoticeParts
  <2>3. \A i \in DOMAIN outbox' :
          \/ i = 1 /\ outbox'[i].ev = GapClosedEvent(gapStart, frame'.ts)
          \/ outbox'[i].ev.type = "EpochBreak"
    BY <1>2 DEF Tells1, Tells2
  <2>4. 1 \in DOMAIN outbox' /\ outbox'[1].ev = GapClosedEvent(gapStart, frame'.ts)
    BY <1>2 DEF Tells1, Tells2
  <2>5. NoticesInv'
    BY <1>1, <2>2, <2>3 DEF NoticesInv, Kinds, InFrame
  <2>6. Recording(seen.last, clock)'
    BY <1>1, <2>2, <2>4 DEF Recording, Kinds
  <2> QED BY <2>5, <2>6
<1>3. ASSUME ~gapIsOpen, Hushed PROVE NoticesInv' /\ ~(seen.lost /\ ~seen.first)
  BY <1>1, <1>3 DEF GapInv, SilenceInv, NoticesInv, Kinds, Hushed
<1>4. /\ NoticesInv'
      /\ ~seen.first /\ seen.lost => Recording(seen.last, clock)'
      /\ pc' \in {"bootstrap", "steady"} => ~gapIsOpen'
      /\ isBootstrapFrame' => ~gapIsOpen'
      /\ UNCHANGED <<hasEverBeenHealthy, unobservedGapEmitted, createdAt>>
      /\ ~hasEverBeenHealthy => isBootstrapFrame' /\ ~gapIsOpen'
      /\ pc' \in {"recovery", "steady"} => hasEverBeenHealthy /\ ~isBootstrapFrame'
  <2>. USE <1>1 DEF GapInv, LifeInv
  <2>1. CASE StartRecovery(frame')
    <3>1. gapIsOpen /\ Tells1(GapClosedEvent(gapStart, frame'.ts))
      BY <2>1, EmitTells DEF StartRecovery
    <3>2. NoticesInv' /\ Recording(seen.last, clock)'
      BY ONLY <1>2, <3>1
    <3> QED BY <2>1, <3>2 DEF StartRecovery, BeginFrame, gapVars
  <2>2. CASE StartEpochBreakAcrossGap(frame')
    <3>1. gapIsOpen
          /\ Tells2(GapClosedEvent(gapStart, frame'.ts), Event("EpochBreak", frame'.ts))
      BY <2>2, EmitTells DEF StartEpochBreakAcrossGap, BreakEvents
    <3>2. Event("EpochBreak", frame'.ts).type = "EpochBreak"
      BY NoticeParts
    <3>3. NoticesInv' /\ Recording(seen.last, clock)'
      BY ONLY <1>2, <3>1, <3>2
    <3> QED BY <2>2, <3>3 DEF StartEpochBreakAcrossGap, BeginFrame
  <2>3. CASE StartEpochBreak(frame')
    <3>1. ~gapIsOpen /\ Tells1(Event("EpochBreak", frame'.ts))
      BY <2>3, EmitTells DEF StartEpochBreak, BreakEvents
    <3>2. Hushed
      BY <3>1, NoticeParts DEF Hushed, Tells1
    <3> QED BY <1>3, <2>3, <3>1, <3>2 DEF StartEpochBreak, BeginFrame, gapVars
  <2>4. CASE StartBootstrap(frame')
    <3>1. ~gapIsOpen /\ outbox' = << >>
      BY <2>4, EmitTells DEF StartBootstrap
    <3>2. Hushed
      BY <3>1 DEF Hushed
    <3> QED BY <1>3, <2>4, <3>1, <3>2 DEF StartBootstrap, BeginFrame, gapVars
  <2>5. CASE StartSteady(frame')
    <3>1. ~gapIsOpen /\ outbox' = << >>
      BY <2>5, EmitTells DEF StartSteady
    <3>2. Hushed
      BY <3>1 DEF Hushed
    <3> QED BY <1>3, <2>5, <3>1, <3>2 DEF StartSteady, BeginFrame, gapVars, seenVars
  <2> QED BY FrameStarts, <2>1, <2>2, <2>3, <2>4, <2>5
<1>5. LifeInv'
  BY <1>1, <1>4 DEF GapInv, LifeInv, InFrame
<1>6. SilenceInv'
  BY <1>1, <1>4 DEF SilenceInv, Recording, Recorded, Kinds
<1> QED BY <1>4, <1>5, <1>6 DEF GapInv


\* What UnobservedGap emits is a closed gap, opened before it.
LEMMA UnobservedNotices ==
  ASSUME NEW end, Tells2(GapOpenedEvent(end, createdAt), GapClosedEvent(createdAt, end))
  PROVE  /\ Recording(createdAt, end)' \/ createdAt' # createdAt
         /\ \A i \in DOMAIN outbox' :
              /\ outbox'[i].ev.type # "Residual"
              /\ outbox'[i].ev.type = "GapOpened" =>
                   \E j \in DOMAIN outbox' : i < j /\ outbox'[j].ev.type = "GapClosed"
              /\ outbox'[i].ev.type = "GapClosed" =>
                   outbox'[i].ev.from = createdAt /\ outbox'[i].ev.to = end
<1>1. /\ DOMAIN outbox' = {1, 2} /\ outbox'[1].ev.type = "GapOpened"
      /\ outbox'[2].ev.type = "GapClosed" /\ outbox'[2].ev.from = createdAt
      /\ outbox'[2].ev.to = end
  BY NoticeParts DEF Tells2
<1>2. Recording(createdAt, end)' \/ createdAt' # createdAt
  BY <1>1 DEF Recording, Kinds
<1> QED BY <1>1, <1>2

LEMMA GapUnobserved ==
  ASSUME TypeInv, TypeInv', GapInv, EndBootstrapLoop, WorldStays,
         UNCHANGED <<auditVars, seen, refused>>
  PROVE  GapInv'
<1>1. /\ DOMAIN << >> = {} /\ outbox = << >> /\ pc = "bootstrap" /\ pc' = "bootstrapped"
      /\ UNCHANGED <<frame, seen, gap, refused, clock, createdAt, hasEverBeenHealthy,
                     gapIsOpen, gapStart, isBootstrapFrame>>
      /\ lastHealthyAt' = frame.ts /\ frame.ts \in Nat
      /\ (seen.first <=> ~hasEverBeenHealthy)
      /\ ~hasEverBeenHealthy => ~unobservedGapEmitted /\ seen.last = createdAt
  BY DEF EndBootstrapLoop, Settled, WorldStays, auditVars, GapInv, LifeInv, InFrame,
     TypeInv, FrameTypeOK
<1>2. LifeInv'
  BY <1>1 DEF GapInv, LifeInv, InFrame
<1>3. \A from, to : Recording(from, to) => gap = [open |-> FALSE, from |-> from, to |-> to]
  BY <1>1 DEF Recording, Recorded
<1>4. \A from, to : gap = [open |-> FALSE, from |-> from, to |-> to] => Recording(from, to)'
  BY <1>1 DEF Recording, Recorded
<1>5. CASE hasEverBeenHealthy \/ ~(frame.ts - createdAt >= MinGap)
  <2>1. outbox' = << >>
    BY <1>1, <1>5, UnobservedTells DEF EndBootstrapLoop
  <2>2. NoticesInv'
    BY <1>1, <2>1 DEF NoticesInv
  <2>3. SilenceInv'
    BY <1>1, <1>3, <1>4, <1>5 DEF GapInv, SilenceInv, Silent, InFrame
  <2> QED BY <1>2, <2>2, <2>3 DEF GapInv
<1>6. CASE ~hasEverBeenHealthy /\ frame.ts - createdAt >= MinGap
  <2>1. Tells2(GapOpenedEvent(frame.ts, createdAt), GapClosedEvent(createdAt, frame.ts))
    BY <1>1, <1>6, UnobservedTells DEF EndBootstrapLoop
  <2>2. NoticesInv'
    BY <1>1, <1>6, <2>1, UnobservedNotices DEF NoticesInv, Kinds, InFrame
  <2>3. Recording(createdAt, frame.ts)'
    BY <1>1, <2>1, UnobservedNotices
  <2>4. SilenceInv'
    BY <1>1, <1>6, <2>3 DEF GapInv, SilenceInv, Silent, InFrame, Recording, Recorded, Kinds
  <2> QED BY <1>2, <2>2, <2>4 DEF GapInv
<1> QED BY <1>5, <1>6

LEMMA GapReported ==
  ASSUME TypeInv, TypeInv', GapInv, EndSteady \/ EndRecovery \/ EndBootstrap, WorldStays,
         UNCHANGED <<auditVars, seen, refused>>
  PROVE  GapInv'
<1>1. /\ DOMAIN << >> = {} /\ outbox = << >> /\ pc \in InFrame \ {"bootstrap"} /\ pc' = "idle"
      /\ UNCHANGED <<seen, gap, refused, clock, createdAt, gapStart, unobservedGapEmitted>>
      /\ lastHealthyAt' = frame.ts /\ frame.ts \in Nat \ {0}
  BY DEF EndSteady, EndRecovery, EndBootstrap, EndFrame, Settled, WorldStays, auditVars,
     GapInv, LifeInv, InFrame, TypeInv, FrameTypeOK
<1>2. hasEverBeenHealthy' /\ ~gapIsOpen' /\ ~isBootstrapFrame'
  <2>1. CASE EndSteady
    BY <2>1 DEF EndSteady, GapInv, LifeInv, SilenceInv
  <2>2. CASE EndRecovery
    BY <2>2 DEF EndRecovery, GapInv, LifeInv
  <2>3. CASE EndBootstrap
    BY <2>3 DEF EndBootstrap, GapInv, SilenceInv
  <2> QED BY <2>1, <2>2, <2>3
<1>3. ASSUME Silent(frame.ts) PROVE Recorded(seen.last, frame.ts)
  <2>1. Recording(seen.last, frame.ts)
    <3>1. CASE pc = "bootstrapped"
      BY <1>3, <3>1 DEF GapInv, SilenceInv
    <3>2. CASE pc \in {"recovery", "steady"}
      BY <1>3, <3>2 DEF GapInv, LifeInv, SilenceInv, Silent, InFrame
    <3> QED BY <1>1, <3>1, <3>2 DEF InFrame
  <2> QED BY <1>1, <2>1 DEF Recording
<1>4. PICK delta : Residual(delta)
  BY DEF EndSteady, EndRecovery, EndBootstrap
<1>. DEFINE e == [Event("Residual", frame.ts) EXCEPT !.delta = delta, !.counter = unique]
<1>5. Emit(<<e>>) /\ e.type = "Residual" /\ e.ts = frame.ts
  <2>1. Emit(<<e>>)
    BY <1>4 DEF Residual
  <2>2. e.type = "Residual" /\ e.ts = frame.ts
    BY DEF Event
  <2> QED BY <2>1, <2>2
<1>. HIDE DEF e
<1>a. Tells1(e)
  BY <1>1, <1>5, EmitTells
<1>6. Finishing' /\ NoticesInv'
  BY <1>1, <1>5, <1>a DEF Finishing, NoticesInv, Kinds, Tells1
<1>7. LifeInv'
  BY <1>1, <1>2, <1>6 DEF GapInv, LifeInv, InFrame
<1>8. SilenceInv'
  BY <1>1, <1>2, <1>3, <1>6 DEF SilenceInv, Silent, Recorded, NoTime, InFrame
<1> QED BY <1>6, <1>7, <1>8 DEF GapInv

\* The session's end records a session that never saw a frame.
LEMMA GapAtEnd ==
  ASSUME TypeInv, TypeInv', GapInv, SessionEnds
  PROVE  GapInv'
<1>1. /\ DOMAIN << >> = {} /\ outbox = << >> /\ pc \in {"idle", "failed"} /\ pc' = "stopped"
      /\ UNCHANGED <<frame, seen, gap, refused, clock, createdAt, hasEverBeenHealthy,
                     gapIsOpen, gapStart, isBootstrapFrame, lastHealthyAt>>
  BY DEF SessionEnds, Shutdown, Settled, WorldStays, auditVars, seenVars
<1>2. LifeInv'
  BY <1>1 DEF GapInv, LifeInv, InFrame
<1>3. \/ outbox' = << >>
         /\ (hasEverBeenHealthy \/ unobservedGapEmitted \/ ~(clock - createdAt >= MinGap))
      \/ Tells2(GapOpenedEvent(clock, createdAt), GapClosedEvent(createdAt, clock))
  BY <1>1, UnobservedTells DEF SessionEnds, Shutdown
<1>4. CASE outbox' = << >>
           /\ (hasEverBeenHealthy \/ unobservedGapEmitted \/ ~(clock - createdAt >= MinGap))
  <2>1. NoticesInv'
    BY <1>1, <1>4 DEF NoticesInv
  <2>2. SilenceInv'
    BY <1>1, <1>4 DEF GapInv, LifeInv, SilenceInv, InFrame
  <2> QED BY <1>2, <2>1, <2>2 DEF GapInv
<1>5. CASE Tells2(GapOpenedEvent(clock, createdAt), GapClosedEvent(createdAt, clock))
  <2>1. NoticesInv'
    BY <1>1, <1>5, UnobservedNotices DEF NoticesInv, Kinds
  <2>2. Recording(createdAt, clock)'
    BY <1>1, <1>5, UnobservedNotices
  <2>3. SilenceInv'
    BY <1>1, <2>2 DEF SilenceInv, InFrame, Recording, Recorded, Kinds
  <2> QED BY <1>2, <2>1, <2>3 DEF GapInv
<1> QED BY <1>3, <1>4, <1>5


\* The sink takes the first event on its way: the rest are as they were.
LEMMA GapTaken ==
  ASSUME TypeInv, TypeInv', GapInv, SinkKeeps
  PROVE  /\ 1 \in DOMAIN outbox /\ Head(outbox).ev = outbox[1].ev /\ outbox[1].ev.ts \in Nat
         /\ \A i \in DOMAIN outbox : i = 1 \/ (i - 1 \in DOMAIN outbox' /\ outbox'[i - 1] = outbox[i])
         /\ \A i \in DOMAIN outbox' : i + 1 \in DOMAIN outbox /\ outbox'[i] = outbox[i + 1]
         /\ Len(outbox) = 1 => DOMAIN outbox' = {}
         /\ gap' = GapKept(outbox[1].ev)
         /\ seen' = IF Kinds(1) = "Residual" THEN SeenFrame(outbox[1].ev) ELSE seen
         /\ UNCHANGED <<pc, frame, clock, gapIsOpen, gapStart, createdAt, lastHealthyAt, refused,
                        hasEverBeenHealthy, isBootstrapFrame, unobservedGapEmitted>>
<1>1. /\ outbox # << >> /\ outbox' = Tail(outbox) /\ outbox \in Seq(QueuedType)
      /\ gap' = GapKept(Head(outbox).ev)
      /\ seen' = IF Head(outbox).ev.type = "Residual" THEN SeenFrame(Head(outbox).ev) ELSE seen
      /\ UNCHANGED <<pc, frame, clock, gapIsOpen, gapStart, createdAt, lastHealthyAt, refused,
                     hasEverBeenHealthy, isBootstrapFrame, unobservedGapEmitted>>
  BY DEF SinkKeeps, SinkTakes, TypeInv, WorldStays, gapVars, seenVars, frameVars
<1>2. /\ 1 \in DOMAIN outbox /\ Head(outbox).ev = outbox[1].ev
      /\ \A i \in DOMAIN outbox : i = 1 \/ (i - 1 \in DOMAIN outbox' /\ outbox'[i - 1] = outbox[i])
      /\ \A i \in DOMAIN outbox' : i + 1 \in DOMAIN outbox /\ outbox'[i] = outbox[i + 1]
      /\ Len(outbox) = 1 => DOMAIN outbox' = {}
  BY <1>1
<1>3. outbox[1].ev.ts \in Nat
  BY <1>1, <1>2, EventFields
<1> QED BY <1>1, <1>2, <1>3 DEF Kinds

\* A gap on its way or recorded still is when the sink has taken an event.
LEMMA GapStillTold ==
  ASSUME TypeInv, TypeInv', GapInv, SinkKeeps, NEW from, NEW to, Recording(from, to),
         \A i \in DOMAIN outbox :
           /\ Kinds(i) = "GapClosed" => outbox[i].ev.from = from /\ outbox[i].ev.to = to
           /\ Kinds(i) = "GapOpened" => \E j \in DOMAIN outbox : i < j /\ Kinds(j) = "GapClosed",
         UNCHANGED <<from, to>>
  PROVE  Recording(from, to)'
<1>1. CASE Kinds(1) = "GapClosed"
  <2>1. gap' = [open |-> FALSE, from |-> from, to |-> to]
    BY <1>1, GapTaken DEF GapKept, Kinds
  <2> QED BY <2>1 DEF Recording, Recorded
<1>2. ASSUME NEW j \in DOMAIN outbox, j # 1, Kinds(j) = "GapClosed" PROVE Recording(from, to)'
  <2>1. j - 1 \in DOMAIN outbox' /\ outbox'[j - 1] = outbox[j]
    BY <1>2, GapTaken
  <2> QED BY <1>2, <2>1 DEF Recording, Kinds
<1>3. CASE Kinds(1) = "GapOpened"
  <2>1. \E j \in DOMAIN outbox : j # 1 /\ Kinds(j) = "GapClosed"
    BY <1>3, GapTaken
  <2> QED BY <1>2, <2>1
<1>4. CASE Kinds(1) \notin {"GapOpened", "GapClosed"}
  <2>1. gap' = gap
    BY <1>4, GapTaken DEF GapKept, Kinds
  <2>2. CASE Recorded(from, to)
    BY <2>1, <2>2 DEF Recording, Recorded
  <2>3. CASE ~Recorded(from, to)
    BY <1>2, <1>4, <2>3 DEF Recording
  <2> QED BY <2>2, <2>3
<1> QED BY <1>1, <1>3, <1>4

LEMMA GapStored ==
  ASSUME TypeInv, TypeInv', GapInv, SinkKeeps
  PROVE  GapInv'
<1>. USE GapTaken
<1>1. NoticesInv'
  <2>. SUFFICES ASSUME NEW i \in DOMAIN outbox'
                PROVE  /\ Kinds(i)' # "Residual"
                       /\ Kinds(i)' = "GapOpened" =>
                            pc' = "idle" \/ \E j \in DOMAIN outbox' : i < j /\ Kinds(j)' = "GapClosed"
                       /\ Kinds(i)' = "GapClosed" =>
                            \/ /\ pc' \in InFrame
                               /\ outbox'[i].ev.from = seen'.last /\ outbox'[i].ev.to = frame'.ts
                            \/ /\ pc' = "stopped"
                               /\ outbox'[i].ev.from = createdAt' /\ outbox'[i].ev.to = clock'
    BY DEF NoticesInv, Kinds
  <2>1. i \in Nat /\ i >= 1 /\ i + 1 \in DOMAIN outbox /\ outbox'[i] = outbox[i + 1]
    BY DEF TypeInv
  <2>2. Kinds(i)' # "Residual"
    BY <2>1 DEF GapInv, NoticesInv, Kinds
  <2>3. seen' = seen \/ pc = "idle"
    BY DEF GapInv, NoticesInv
  <2>4. ASSUME Kinds(i)' = "GapOpened", pc # "idle"
        PROVE  \E j \in DOMAIN outbox' : i < j /\ Kinds(j)' = "GapClosed"
    <3>1. PICK j \in DOMAIN outbox : i + 1 < j /\ Kinds(j) = "GapClosed"
      BY <2>1, <2>4 DEF GapInv, NoticesInv, Kinds
    <3>2. j \in Nat /\ j # 1 /\ j - 1 \in DOMAIN outbox' /\ outbox'[j - 1] = outbox[j] /\ i < j - 1
      BY <2>1, <3>1 DEF TypeInv
    <3> QED BY <3>1, <3>2 DEF Kinds
  <2>5. ASSUME Kinds(i)' = "GapClosed"
        PROVE  \/ /\ pc' \in InFrame
                  /\ outbox'[i].ev.from = seen'.last /\ outbox'[i].ev.to = frame'.ts
               \/ /\ pc' = "stopped"
                  /\ outbox'[i].ev.from = createdAt' /\ outbox'[i].ev.to = clock'
    BY <2>1, <2>3, <2>5 DEF GapInv, NoticesInv, Kinds, InFrame
  <2> QED BY <2>2, <2>4, <2>5
<1>2. ~Finishing'
  BY <1>1 DEF GapInv, NoticesInv, Finishing, Kinds
<1>3. CASE Kinds(1) = "Residual"
  <2>1. /\ pc = "idle" /\ pc' = "idle" /\ Finishing /\ outbox[1].ev.ts = lastHealthyAt
        /\ lastHealthyAt \in Nat
    BY <1>3 DEF GapInv, NoticesInv, Finishing
  <2>2. /\ seen' = [prev |-> seen.last, last |-> lastHealthyAt, first |-> FALSE, lost |-> FALSE,
                    silent |-> Silent(lastHealthyAt)]
        /\ gap' = gap
    BY <1>3, <2>1 DEF SeenFrame, GapKept, Kinds, Silent
  <2>3. Silent(lastHealthyAt) \in BOOLEAN /\ seen.last \in Nat
    <3>1. seen.lost \in BOOLEAN /\ seen.last \in Nat
      BY DEF GapInv, LifeInv
    <3>2. (lastHealthyAt - createdAt >= MinGap) \in BOOLEAN
      OBVIOUS
    <3> QED BY <3>1, <3>2 DEF Silent
  <2>4. hasEverBeenHealthy /\ ~gapIsOpen /\ lastHealthyAt # NoTime
        /\ (Silent(lastHealthyAt) => Recorded(seen.last, lastHealthyAt))
    BY <2>1 DEF GapInv, SilenceInv
  <2>5. seen' \in [prev : Nat, last : Nat, first : BOOLEAN, lost : BOOLEAN, silent : BOOLEAN]
    BY <2>1, <2>2, <2>3
  <2>6. /\ seen'.prev = seen.last /\ seen'.last = lastHealthyAt /\ ~seen'.first /\ ~seen'.lost
        /\ seen'.silent => Silent(lastHealthyAt)
    BY <2>2
  <2>7. LifeInv'
    <3>1. UNCHANGED <<pc, clock, gapIsOpen, createdAt, refused, hasEverBeenHealthy,
                      isBootstrapFrame, unobservedGapEmitted>>
      OBVIOUS
    <3>2. pc' \notin InFrame /\ pc' # "failed" /\ pc' = "idle"
      BY <2>1 DEF InFrame
    <3> QED BY ONLY GapInv, <2>4, <2>5, <2>6, <3>1, <3>2 DEF GapInv, LifeInv
  <2>8. SilenceInv'
    BY <1>2, <2>1, <2>2, <2>4, <2>6 DEF SilenceInv, InFrame, Recorded
  <2> QED BY <1>1, <2>7, <2>8 DEF GapInv
<1>4. CASE Kinds(1) # "Residual"
  <2>1. seen' = seen
    BY <1>4
  <2>2. ~(pc = "idle" /\ Finishing)
    BY <1>4 DEF GapInv, NoticesInv, Finishing, Kinds, TypeInv
  <2>3. LifeInv'
    BY <2>1, <2>2 DEF GapInv, LifeInv, InFrame
  <2>4. ASSUME pc \in InFrame, Recording(seen.last, frame.ts)
        PROVE  Recording(seen.last, frame.ts)'
    BY <2>1, <2>4, GapStillTold DEF GapInv, NoticesInv, InFrame
  <2>5. ASSUME pc = "stopped", Recording(createdAt, clock) PROVE Recording(createdAt, clock)'
    BY <2>5, GapStillTold DEF GapInv, NoticesInv, InFrame
  <2>6. pc = "idle" => gap' = gap \/ gap'.open
    BY DEF GapInv, NoticesInv, GapKept, Kinds, InFrame
  <2>7. SilenceInv'
    BY <1>2, <2>1, <2>2, <2>4, <2>5, <2>6 DEF GapInv, SilenceInv, Silent, InFrame, Recorded
  <2> QED BY <1>1, <2>3, <2>7 DEF GapInv
<1> QED BY <1>3, <1>4

LEMMA GapRefused ==
  ASSUME TypeInv, TypeInv', GapInv, SinkRefuses
  PROVE  GapInv'
<1>1. /\ DOMAIN << >> = {} /\ outbox' = << >> /\ pc' \in {"stopped", "failed"} /\ refused'
      /\ UNCHANGED <<seen, clock, createdAt, hasEverBeenHealthy, gapIsOpen, isBootstrapFrame>>
  BY DEF SinkRefuses, SinkFails, WorldStays, gapVars, seenVars
<1>2. LifeInv'
  BY <1>1 DEF GapInv, LifeInv, InFrame
<1>3. NoticesInv' /\ SilenceInv'
  BY <1>1 DEF NoticesInv, SilenceInv, InFrame
<1> QED BY <1>2, <1>3 DEF GapInv

LEMMA GapNext ==
  TypeInv /\ TypeInv' /\ BooksInv /\ GapInv /\ [Next]_vars => GapInv'
<1>. SUFFICES ASSUME TypeInv, TypeInv', BooksInv, GapInv, [Next]_vars
              PROVE  GapInv'
  OBVIOUS
<1>1. CASE FrameProceeds
  <2>1. CASE EndSteady \/ EndRecovery \/ EndBootstrap
    BY <1>1, <2>1, GapReported DEF FrameProceeds
  <2>2. CASE EndBootstrapLoop
    BY <1>1, <2>2, GapUnobserved DEF FrameProceeds
  <2> QED BY <1>1, <2>1, <2>2, GapUntold DEF FrameProceeds
<1> QED BY <1>1, GapUntold, GapOpens, GapCloses, GapStored, GapRefused, GapAtEnd DEF Next

\* Whatever the stream and the sink do: between two frames without a stream,
\* the record says so with a gap from the one to the other (or one still
\* open), and so it does of a session that ended before its first frame.
THEOREM SilenceCovered == Spec => []GapCoversSilence
<1>1. Init => BooksInv /\ GapInv
  <2>1. DOMAIN << >> = {} /\ DOMAIN NoFrame.conns = {}
    BY DEF NoFrame
  <2>2. Init => BooksInv
    BY <2>1 DEF Init, EngineInit, BooksInv, InFrame
  <2>3. Init => LifeInv /\ NoticesInv
    BY <2>1 DEF Init, EngineInit, LifeInv, NoticesInv, InFrame, NoTime
  <2>4. Init => SilenceInv
    BY <2>1 DEF Init, EngineInit, SilenceInv, InFrame, Finishing
  <2> QED BY <2>2, <2>3, <2>4 DEF GapInv
<1>2. TypeInv /\ GapInv => GapCoversSilence
  <2>. SUFFICES ASSUME TypeInv, GapInv PROVE GapCoversSilence
    OBVIOUS
  <2>1. Settled => ~Finishing /\ \A from, to : Recording(from, to) => Recorded(from, to)
    <3>1. DOMAIN << >> = {}
      OBVIOUS
    <3> QED BY <3>1 DEF Settled, Finishing, Recording
  <2>2. ASSUME Idle, seen.silent
        PROVE  gap = [open |-> gap.open, from |-> seen.prev, to |-> seen.last] \/ gap.open
    BY <2>1, <2>2 DEF GapInv, SilenceInv, Recorded, Idle
  <2>3. ASSUME pc = "stopped", Settled, ~hasEverBeenHealthy, ~refused, clock - createdAt >= MinGap
        PROVE  gap = [open |-> FALSE, from |-> createdAt, to |-> clock]
    BY <2>1, <2>3 DEF GapInv, SilenceInv, Recorded
  <2> QED BY <2>2, <2>3 DEF GapCoversSilence
<1> QED BY <1>1, <1>2, InitType, NextType, BooksNext, GapNext, PTL DEF Spec

=============================================================================
