-------------------------- MODULE CollectorProofs --------------------------
(***************************************************************************)
(* What TLAPS proves of the collector over its sessions (module            *)
(* Collector), for every set of connections, every bound and every         *)
(* pattern of kills, refusals and clean ends: the store never refuses what *)
(* the engine offers it, completed frames are on record whole, and the     *)
(* journal grows as JournalGrowth promises its readers.  The last section, *)
(* on what the events say, is for CollectorRowProofs.                      *)
(***************************************************************************)
EXTENDS Collector, WellFoundedInduction, TLAPS

-----------------------------------------------------------------------------
(* Sequences whose elements have no type of their own.                     *)

IsSeq(s) == s \in Seq({s[i] : i \in DOMAIN s})

LEMMA SeqParts ==
  ASSUME NEW s, IsSeq(s)
  PROVE  /\ Len(s) \in Nat /\ DOMAIN s = 1..Len(s)
         /\ s = [i \in 1..Len(s) |-> s[i]]
BY DEF IsSeq

LEMMA SeqMade ==
  ASSUME NEW n \in Nat, NEW s, s = [i \in 1..n |-> s[i]]
  PROVE  IsSeq(s) /\ Len(s) = n
BY DEF IsSeq

LEMMA SeqIsSeq ==
  ASSUME NEW S, NEW s \in Seq(S)
  PROVE  IsSeq(s)
<1>1. PICK n \in Nat : s \in [1..n -> S]
  OBVIOUS
<1>2. s = [i \in 1..n |-> s[i]]
  BY <1>1
<1>. QED BY <1>2, SeqMade

LEMMA TailParts ==
  ASSUME NEW s, IsSeq(s), s # << >>
  PROVE  /\ Len(s) > 0 /\ Head(s) = s[1]
         /\ IsSeq(Tail(s)) /\ Len(Tail(s)) = Len(s) - 1
         /\ \A i \in 1..(Len(s) - 1) : Tail(s)[i] = s[i + 1]
<1>. DEFINE S == {s[i] : i \in DOMAIN s}
<1>1. s \in Seq(S)
  BY DEF IsSeq
<1>. HIDE DEF S
<1>2. Tail(s) \in Seq(S)
  BY <1>1
<1>3. IsSeq(Tail(s))
  BY <1>2, SeqIsSeq
<1>. QED BY <1>1, <1>3

LEMMA AppendParts ==
  ASSUME NEW s, NEW x, IsSeq(s)
  PROVE  /\ IsSeq(Append(s, x)) /\ Len(Append(s, x)) = Len(s) + 1
         /\ Append(s, x)[Len(s) + 1] = x
         /\ \A i \in 1..Len(s) : Append(s, x)[i] = s[i]
<1>. DEFINE S == {s[i] : i \in DOMAIN s} \cup {x}
<1>1. s \in Seq(S)
  BY DEF IsSeq
<1>2. x \in S
  OBVIOUS
<1>. HIDE DEF S
<1>3. Append(s, x) \in Seq(S)
  BY <1>1, <1>2
<1>4. IsSeq(Append(s, x))
  BY <1>3, SeqIsSeq
<1>. QED BY <1>1, <1>2, <1>4

LEMMA ConcatParts ==
  ASSUME NEW s, NEW t, IsSeq(s), IsSeq(t)
  PROVE  /\ IsSeq(s \o t) /\ Len(s \o t) = Len(s) + Len(t)
         /\ \A i \in 1..Len(s) : (s \o t)[i] = s[i]
         /\ \A i \in 1..Len(t) : (s \o t)[Len(s) + i] = t[i]
<1>. DEFINE S == {s[i] : i \in DOMAIN s} \cup {t[i] : i \in DOMAIN t}
<1>1. s \in Seq(S) /\ t \in Seq(S)
  BY DEF IsSeq
<1>. HIDE DEF S
<1>2. s \o t \in Seq(S)
  BY <1>1
<1>3. IsSeq(s \o t)
  BY <1>2, SeqIsSeq
<1>. QED BY <1>1, <1>3

LEMMA ShortSeqs ==
  /\ IsSeq(<< >>) /\ Len(<< >>) = 0
  /\ \A x : IsSeq(<<x>>) /\ Len(<<x>>) = 1 /\ <<x>>[1] = x
  /\ \A x, y : /\ IsSeq(<<x, y>>) /\ Len(<<x, y>>) = 2
               /\ <<x, y>>[1] = x /\ <<x, y>>[2] = y
<1>1. IsSeq(<< >>)
  BY DEF IsSeq
<1>2. ASSUME NEW x PROVE IsSeq(<<x>>)
  <2>1. <<x>> \in Seq({x})
    OBVIOUS
  <2>. QED BY <2>1, SeqIsSeq
<1>3. ASSUME NEW x, NEW y PROVE IsSeq(<<x, y>>)
  <2>1. <<x, y>> \in Seq({x, y})
    OBVIOUS
  <2>. QED BY <2>1, SeqIsSeq
<1>. QED BY <1>1, <1>2, <1>3

-----------------------------------------------------------------------------
(* What a section emits.                                                   *)

\* All of `events` name the connection, and are of some of the types.
About(events, id, types) ==
  /\ IsSeq(events)
  /\ \A k \in 1..Len(events) : events[k].conn = id /\ events[k].type \in types

LEMMA AboutParts ==
  ASSUME NEW id, NEW types
  PROVE  /\ About(<< >>, id, types)
         /\ \A e : e.conn = id /\ e.type \in types => About(<<e>>, id, types)
         /\ \A s, t : About(s, id, types) /\ About(t, id, types)
                        => About(s \o t, id, types)
<1>1. About(<< >>, id, types)
  BY ShortSeqs DEF About
<1>2. ASSUME NEW e, e.conn = id, e.type \in types PROVE About(<<e>>, id, types)
  BY <1>2, ShortSeqs DEF About
<1>3. ASSUME NEW s, NEW t, About(s, id, types), About(t, id, types)
      PROVE  About(s \o t, id, types)
  <2>1. IsSeq(s) /\ IsSeq(t)
    BY <1>3 DEF About
  <2>2. Len(s) \in Nat /\ Len(t) \in Nat
    BY <2>1, SeqParts
  <2>3. ASSUME NEW k \in 1..Len(s \o t)
        PROVE  (s \o t)[k].conn = id /\ (s \o t)[k].type \in types
    <3>1. CASE k <= Len(s)
      <4>1. k \in 1..Len(s)
        BY <2>1, <2>2, <3>1, ConcatParts
      <4>. QED BY <1>3, <2>1, <4>1, ConcatParts DEF About
    <3>2. CASE k > Len(s)
      <4>1. k - Len(s) \in 1..Len(t) /\ k = Len(s) + (k - Len(s))
        BY <2>1, <2>2, <3>2, ConcatParts
      <4>2. (s \o t)[k] = t[k - Len(s)]
        BY <2>1, <4>1, ConcatParts
      <4>. QED BY <1>3, <4>1, <4>2 DEF About
    <3>. QED BY <2>1, <2>2, <3>1, <3>2, ConcatParts
  <2>. QED BY <2>1, <2>3, ConcatParts DEF About
<1>. QED BY <1>1, <1>2, <1>3

\* The outbox after a section: numbered from `first` on, all of one frame.
Emits(epoch, number, first) ==
  /\ IsSeq(outbox')
  /\ \A k \in 1..Len(outbox') :
       /\ outbox'[k].epoch = epoch /\ outbox'[k].frame = number
       /\ outbox'[k].seq = first + k
  /\ eventSequence' = first + Len(outbox')

LEMMA EmitParts ==
  ASSUME NEW events, IsSeq(events), Emit(events)
  PROVE  /\ Emits(epochID, frameSequence, eventSequence)
         /\ Len(outbox') = Len(events)
         /\ \A k \in 1..Len(events) : outbox'[k].ev = events[k]
<1>1. Len(events) \in Nat
  BY SeqParts
<1>2. outbox' = [i \in 1..Len(events) |-> outbox'[i]]
  BY DEF Emit
<1>3. IsSeq(outbox') /\ Len(outbox') = Len(events)
  BY <1>1, <1>2, SeqMade
<1>. QED BY <1>3 DEF Emit, Emits

LEMMA EmitFirstParts ==
  ASSUME NEW events, IsSeq(events), EmitFirst(events)
  PROVE  /\ Emits(epochID, frameSequence + 1, 0)
         /\ Len(outbox') = Len(events)
         /\ \A k \in 1..Len(events) : outbox'[k].ev = events[k]
<1>1. Len(events) \in Nat
  BY SeqParts
<1>2. outbox' = [i \in 1..Len(events) |-> outbox'[i]]
  BY DEF EmitFirst
<1>3. IsSeq(outbox') /\ Len(outbox') = Len(events)
  BY <1>1, <1>2, SeqMade
<1>. QED BY <1>1, <1>3 DEF EmitFirst, Emits

LEMMA EmitNothing ==
  ASSUME UNCHANGED <<outbox, eventSequence>>, Settled, eventSequence \in Nat
  PROVE  Emits(epochID, frameSequence, eventSequence) /\ Len(outbox') = 0
BY ShortSeqs DEF Emits, Settled

-----------------------------------------------------------------------------
(* The sections of a frame, as far as the order of events goes.            *)

InFrame == pc \in {"bootstrap", "bootstrapped", "recovery", "steady"}
Starts == {"New", "Bootstrap"}
Touches == {"Health", "MetadataUpdated", "RelayClassificationChanged", "Delta",
            "Presence"}

\* A connection there was is touched, one there was not begins, after a word
\* on its health if the engine has a tombstone of it.
Touched(id) ==
  /\ pc # "bootstrap" /\ id \in DOMAIN activeMap
  /\ DOMAIN activeMap' = DOMAIN activeMap
  /\ \A k \in 1..Len(outbox') : outbox'[k].ev.type \in Touches
Begun(id) ==
  /\ pc = "bootstrap" \/ id \notin DOMAIN activeMap
  /\ DOMAIN activeMap' = DOMAIN activeMap \cup {id}
  /\ Len(outbox') > 0 /\ outbox'[Len(outbox')].ev.type \in Starts
  /\ \A k \in 1..(Len(outbox') - 1) : outbox'[k].ev.type = "Health"
  /\ Len(outbox') > 1 => id \in DOMAIN tombstones

ConnStep(id) ==
  /\ Settled /\ pc \in {"bootstrap", "recovery", "steady"} /\ id \in todo
  /\ todo' = todo \ {id}
  /\ UNCHANGED <<pc, epochID, frameSequence, gapVars, seenVars>>
  /\ Emits(epochID, frameSequence, eventSequence)
  /\ \A k \in 1..Len(outbox') : outbox'[k].ev.conn = id
  /\ DOMAIN tombstones' \subseteq DOMAIN tombstones
  /\ Touched(id) \/ Begun(id)

LEMMA EventParts ==
  ASSUME NEW type, NEW ts, NEW id
  PROVE  /\ HealthEvent(ts, id).conn = id /\ HealthEvent(ts, id).type = "Health"
         /\ Event(type, ts).type = type /\ Event(type, ts).conn = NoConn
         /\ \A st, delta : /\ ConnEvent(type, ts, id, st, delta).type = type
                           /\ ConnEvent(type, ts, id, st, delta).conn = id
BY DEF HealthEvent, Event, ConnEvent

LEMMA MetaEventsAbout ==
  ASSUME NEW id, NEW prev
  PROVE  About(MetaEvents(id, prev), id, Touches)
<1>. DEFINE m == frame.conns[id].meta
            up == [Event("MetadataUpdated", frame.ts) EXCEPT !.conn = id]
            s == IF m.chains # prev.meta.chains THEN <<HealthEvent(frame.ts, id)>>
                 ELSE << >>
            t == IF m # prev.meta THEN <<up>> ELSE << >>
<1>1. About(s, id, Touches)
  <2>. DEFINE h == HealthEvent(frame.ts, id)
  <2>1. h.conn = id /\ h.type \in Touches
    BY DEF HealthEvent, Event, Touches
  <2>. HIDE DEF h
  <2>2. About(<<h>>, id, Touches)
    BY <2>1, AboutParts
  <2>. QED BY <2>2, AboutParts DEF h
<1>2. About(t, id, Touches)
  <2>1. up.conn = id /\ up.type = "MetadataUpdated"
    BY DEF Event
  <2>2. About(<<up>>, id, Touches)
    BY <2>1, AboutParts DEF Touches
  <2>. QED BY <2>2, AboutParts
<1>3. MetaEvents(id, prev) = s \o t
  BY DEF MetaEvents
<1>. HIDE DEF s, t
<1>. QED BY <1>1, <1>2, <1>3, AboutParts

LEMMA TrafficAbout ==
  ASSUME NEW id, NEW prev, NEW st, NEW delta, NEW from
  PROVE  About(DeltaOrPresence(prev, id, st, delta, from), id, Touches)
<1>. DEFINE d == [ConnEvent("Delta", frame.ts, id, st, delta) EXCEPT
                    !.from = from, !.to = IF from = NoTime THEN NoTime ELSE frame.ts]
            p == [Event("Presence", frame.ts) EXCEPT
                    !.conn = id, !.start = st.start, !.counter = st.last]
<1>1. d.conn = id /\ d.type = "Delta" /\ p.conn = id /\ p.type = "Presence"
  BY DEF ConnEvent, Event
<1>2. DeltaOrPresence(prev, id, st, delta, from) \in {<<d>>, << >>, <<p>>}
  BY DEF DeltaOrPresence
<1>. HIDE DEF d, p
<1>3. About(<<d>>, id, Touches) /\ About(<<p>>, id, Touches)
  BY <1>1, AboutParts DEF Touches
<1>. QED BY <1>2, <1>3, AboutParts

\* A section that touches a connection.
LEMMA TouchSection ==
  ASSUME NEW id, NEW section, InLoop(section, id),
         section \in {"recovery", "steady"}, id \in DOMAIN activeMap,
         DOMAIN activeMap' = DOMAIN activeMap,
         UNCHANGED <<tombstones, tombstoneFIFO>>,
         NEW events, About(events, id, Touches), Emit(events)
  PROVE  ConnStep(id)
<1>1. /\ Emits(epochID, frameSequence, eventSequence)
      /\ Len(outbox') = Len(events)
      /\ \A k \in 1..Len(events) : outbox'[k].ev = events[k]
  BY EmitParts DEF About
<1>2. Touched(id)
  BY <1>1 DEF Touched, InLoop, About
<1>. QED BY <1>1, <1>2 DEF ConnStep, InLoop, About

\* One that begins it.
LEMMA BeginSection ==
  ASSUME NEW id, NEW section, InLoop(section, id),
         section \in {"bootstrap", "recovery", "steady"},
         section = "bootstrap" \/ id \notin DOMAIN activeMap,
         NEW st, activeMap' = With(activeMap, id, st),
         DOMAIN tombstones' \subseteq DOMAIN tombstones,
         NEW before, About(before, id, {"Health"}),
         before # << >> => id \in DOMAIN tombstones,
         NEW e, e.conn = id, e.type \in Starts, Emit(before \o <<e>>)
  PROVE  ConnStep(id)
<1>1. IsSeq(before) /\ Len(before) \in Nat
  BY SeqParts DEF About
<1>2. /\ IsSeq(before \o <<e>>) /\ Len(before \o <<e>>) = Len(before) + 1
      /\ (before \o <<e>>)[Len(before) + 1] = e
      /\ \A k \in 1..Len(before) : (before \o <<e>>)[k] = before[k]
  BY <1>1, ShortSeqs, ConcatParts
<1>3. /\ Emits(epochID, frameSequence, eventSequence)
      /\ Len(outbox') = Len(before) + 1
      /\ outbox'[Len(before) + 1].ev = e
      /\ \A k \in 1..Len(before) : outbox'[k].ev = before[k]
  <2>. DEFINE events == before \o <<e>>
  <2>1. IsSeq(events) /\ Emit(events)
    BY <1>2
  <2>. HIDE DEF events
  <2>2. /\ Emits(epochID, frameSequence, eventSequence)
        /\ Len(outbox') = Len(events)
        /\ \A k \in 1..Len(events) : outbox'[k].ev = events[k]
    BY <2>1, EmitParts
  <2>. QED BY <1>1, <1>2, <2>2 DEF events
<1>4. Begun(id)
  <2>1. DOMAIN activeMap' = DOMAIN activeMap \cup {id}
    BY DEF With
  <2>. QED BY <1>1, <1>3, <2>1, ShortSeqs DEF Begun, InLoop, About
<1>5. \A k \in 1..Len(outbox') : outbox'[k].ev.conn = id
  BY <1>1, <1>3 DEF About
<1>. QED BY <1>3, <1>4, <1>5 DEF ConnStep, InLoop

LEMMA BaselineStep ==
  ASSUME NEW id, NEW section, InLoop(section, id), Baseline(id),
         section \in {"bootstrap", "recovery"},
         section = "bootstrap" \/ id \notin DOMAIN activeMap
  PROVE  ConnStep(id)
<1>. DEFINE st == Observed(id, Zero, frame.conns[id].ctr,
                           InitialClass(frame.conns[id].meta))
            e == ConnEvent("Bootstrap", frame.ts, id, st, Zero)
<1>1. activeMap' = With(activeMap, id, st) /\ Emit(<<e>>) /\ tombstones' = tombstones
  BY DEF Baseline
<1>2. e.conn = id /\ e.type \in Starts
  BY DEF ConnEvent, Event, Starts
<1>. HIDE DEF st, e
<1>3. Emit(<< >> \o <<e>>)
  BY <1>1
<1>4. About(<< >>, id, {"Health"})
  BY AboutParts
<1>. QED BY <1>1, <1>2, <1>3, <1>4, BeginSection

LEMMA RecoverKnownStep ==
  ASSUME NEW id, RecoverKnown(id)
  PROVE  ConnStep(id)
<1>. DEFINE prev      == activeMap[id]
            ctr       == frame.conns[id].ctr
            regressed == Below(ctr, prev.last)
            delta     == IF regressed THEN Zero ELSE Monus(ctr, prev.last)
            health    == IF regressed THEN <<HealthEvent(frame.ts, id)>> ELSE << >>
            st        == [Evident(prev, health) EXCEPT
                            !.last = ctr, !.observedAt = frame.ts,
                            !.cum = Plus(@, delta)]
            traffic   == DeltaOrPresence(st, id, st, delta, gapStart)
<1>1. /\ InLoop("recovery", id) /\ id \in DOMAIN activeMap
      /\ activeMap' = [activeMap EXCEPT ![id] = Evident(st, traffic)]
      /\ Emit(health \o traffic)
      /\ UNCHANGED <<tombstones, tombstoneFIFO>>
  BY DEF RecoverKnown
<1>2. About(health, id, Touches)
  <2>. DEFINE h == HealthEvent(frame.ts, id)
  <2>1. h.conn = id /\ h.type \in Touches
    BY DEF HealthEvent, Event, Touches
  <2>2. health = <<h>> \/ health = << >>
    OBVIOUS
  <2>. HIDE DEF h, health
  <2>. QED BY <2>1, <2>2, AboutParts
<1>3. About(traffic, id, Touches)
  BY TrafficAbout
<1>4. DOMAIN activeMap' = DOMAIN activeMap
  BY <1>1
<1>. HIDE DEF health, traffic
<1>5. About(health \o traffic, id, Touches)
  BY <1>2, <1>3, AboutParts
<1>. QED BY <1>1, <1>4, <1>5, TouchSection

LEMMA SteadyRegressedStep ==
  ASSUME NEW id, SteadyRegressed(id)
  PROVE  ConnStep(id)
<1>. DEFINE prev   == activeMap[id]
            h      == HealthEvent(frame.ts, id)
            meta   == MetaEvents(id, prev)
<1>1. /\ InLoop("steady", id) /\ id \in DOMAIN activeMap
      /\ DOMAIN activeMap' = DOMAIN activeMap
      /\ Emit(meta \o <<h>>)
      /\ UNCHANGED <<tombstones, tombstoneFIFO>>
  BY DEF SteadyRegressed
<1>2. h.conn = id /\ h.type \in Touches
  BY DEF HealthEvent, Event, Touches
<1>3. About(meta, id, Touches)
  BY MetaEventsAbout
<1>. HIDE DEF h, meta
<1>4. About(<<h>>, id, Touches)
  BY <1>2, AboutParts
<1>5. About(meta \o <<h>>, id, Touches)
  BY <1>3, <1>4, AboutParts
<1>. QED BY <1>1, <1>5, TouchSection

LEMMA SteadyKnownStep ==
  ASSUME NEW id, SteadyKnown(id)
  PROVE  ConnStep(id)
<1>. DEFINE prev    == activeMap[id]
            ctr     == frame.conns[id].ctr
            delta   == Monus(ctr, prev.last)
            class   == IF id \in frame.relays THEN Confirmed ELSE prev.class
            meta    == MetaEvents(id, prev)
            c       == [Event("RelayClassificationChanged", frame.ts)
                          EXCEPT !.conn = id, !.class = class]
            changed == IF class # prev.class THEN <<c>> ELSE << >>
            st      == [Evident(prev, meta \o changed) EXCEPT
                          !.meta = frame.conns[id].meta, !.class = class,
                          !.last = ctr, !.observedAt = frame.ts,
                          !.cum = Plus(@, delta)]
            traffic == DeltaOrPresence(st, id, st, delta, NoTime)
<1>1. /\ InLoop("steady", id) /\ id \in DOMAIN activeMap
      /\ activeMap' = [activeMap EXCEPT ![id] = Evident(st, traffic)]
      /\ Emit(meta \o changed \o traffic)
      /\ UNCHANGED <<tombstones, tombstoneFIFO>>
  BY DEF SteadyKnown
<1>2. About(changed, id, Touches)
  <2>1. c.conn = id /\ c.type \in Touches
    BY DEF Event, Touches
  <2>2. changed = <<c>> \/ changed = << >>
    OBVIOUS
  <2>. HIDE DEF c, changed
  <2>. QED BY <2>1, <2>2, AboutParts
<1>3. About(traffic, id, Touches) /\ About(meta, id, Touches)
  BY TrafficAbout, MetaEventsAbout
<1>4. DOMAIN activeMap' = DOMAIN activeMap
  BY <1>1
<1>. HIDE DEF meta, changed, traffic
<1>5. About(meta \o changed \o traffic, id, Touches)
  BY <1>2, <1>3, AboutParts
<1>. QED BY <1>1, <1>4, <1>5, TouchSection

LEMMA SteadyBeginsStep ==
  ASSUME NEW id, SteadyReobserved(id) \/ SteadyNew(id)
  PROVE  ConnStep(id)
<1>1. DOMAIN Without(tombstones, id) \subseteq DOMAIN tombstones
  BY DEF Without
<1>2. CASE SteadyReobserved(id)
  <2>. DEFINE prev   == tombstones[id].state
              ctr    == frame.conns[id].ctr
              delta  == Monus(ctr, prev.last)
              h      == HealthEvent(frame.ts, id)
              health == IF Below(ctr, prev.last) THEN <<h>> ELSE << >>
              st     == Observed(id, Plus(prev.cum, delta), prev.base, ClassInFrame(id))
              new    == [ConnEvent("New", frame.ts, id, st, delta) EXCEPT
                           !.from = IF Positive(delta) THEN prev.observedAt ELSE NoTime,
                           !.to = IF Positive(delta) THEN frame.ts ELSE NoTime]
  <2>1. /\ InLoop("steady", id) /\ id \notin DOMAIN activeMap
        /\ id \in DOMAIN tombstones
        /\ activeMap' = With(activeMap, id, st)
        /\ Emit(health \o <<new>>)
        /\ tombstones' = Without(tombstones, id)
    BY <1>2 DEF SteadyReobserved, Continues, TakeTombstone
  <2>2. new.conn = id /\ new.type \in Starts
    BY DEF ConnEvent, Event, Starts
  <2>3. About(health, id, {"Health"})
    <3>1. h.conn = id /\ h.type \in {"Health"}
      BY DEF HealthEvent, Event
    <3>2. health = <<h>> \/ health = << >>
      OBVIOUS
    <3>. HIDE DEF h, health
    <3>. QED BY <3>1, <3>2, AboutParts
  <2>. HIDE DEF st, new, health
  <2>. QED BY <1>1, <2>1, <2>2, <2>3, BeginSection
<1>3. CASE SteadyNew(id)
  <2>. DEFINE ctr == frame.conns[id].ctr
              st  == Observed(id, ctr, Zero, ClassInFrame(id))
              new == ConnEvent("New", frame.ts, id, st, ctr)
  <2>1. /\ InLoop("steady", id) /\ id \notin DOMAIN activeMap
        /\ activeMap' = With(activeMap, id, st)
        /\ Emit(<<new>>)
        /\ tombstones' = Without(tombstones, id)
    BY <1>3 DEF SteadyNew, TakeTombstone
  <2>2. new.conn = id /\ new.type \in Starts
    BY DEF ConnEvent, Event, Starts
  <2>. HIDE DEF st, new
  <2>3. Emit(<< >> \o <<new>>) /\ About(<< >>, id, {"Health"})
    BY <2>1, AboutParts
  <2>. QED BY <1>1, <2>1, <2>2, <2>3, BeginSection
<1>. QED BY <1>2, <1>3

LEMMA ProcessConnStep ==
  ASSUME ProcessConn
  PROVE  \E id \in todo : ConnStep(id)
<1>1. PICK id \in todo :
        \/ BootstrapConn(id) \/ RecoverBaseline(id) \/ RecoverKnown(id)
        \/ SteadyKnown(id) \/ SteadyRegressed(id)
        \/ SteadyReobserved(id) \/ SteadyNew(id)
  BY DEF ProcessConn
<1>2. CASE BootstrapConn(id)
  BY <1>2, BaselineStep DEF BootstrapConn
<1>3. CASE RecoverBaseline(id)
  BY <1>3, BaselineStep DEF RecoverBaseline
<1>. QED BY <1>1, <1>2, <1>3, RecoverKnownStep, SteadyKnownStep,
            SteadyRegressedStep, SteadyBeginsStep

GoneStep(id) ==
  /\ Settled /\ pc \in {"recovery", "steady"} /\ todo = {}
  /\ id \in DOMAIN activeMap
  /\ UNCHANGED <<pc, todo, epochID, frameSequence, gapVars, seenVars>>
  /\ Emits(epochID, frameSequence, eventSequence)
  /\ Len(outbox') = 1
  /\ outbox'[1].ev.conn = id /\ outbox'[1].ev.type = "Disappeared"
  /\ DOMAIN activeMap' = DOMAIN activeMap \ {id}
  /\ DOMAIN tombstones' \subseteq DOMAIN tombstones \cup {id}

EndStep ==
  /\ Settled /\ pc \in {"recovery", "steady", "bootstrapped"} /\ pc' = "idle"
  /\ UNCHANGED <<epochID, frameSequence, activeMap, tombstones>>
  /\ Emits(epochID, frameSequence, eventSequence)
  /\ Len(outbox') = 1 /\ outbox'[1].ev.type = "Residual"
  /\ IF pc = "recovery" THEN ~gapIsOpen' ELSE gapIsOpen' = gapIsOpen
  /\ IF pc = "bootstrapped"
       THEN ~isBootstrapFrame' /\ hasEverBeenHealthy'
       ELSE UNCHANGED <<isBootstrapFrame, hasEverBeenHealthy>>

\* Whatever is said of no connection between two sections of connections: a
\* word on the collector's health, a gap opened, or opened and closed at once.
Aside(k) ==
  /\ outbox'[k].ev.conn = NoConn
  /\ outbox'[k].ev.type \in {"Health", "GapOpened", "GapClosed"}
  /\ outbox'[k].ev.type = "GapClosed" => k = 2 /\ outbox'[1].ev.type = "GapOpened"

QuietStep ==
  /\ Settled
  /\ UNCHANGED <<todo, epochID, frameSequence, activeMap, tombstones,
                 isBootstrapFrame, hasEverBeenHealthy>>
  /\ Emits(epochID, frameSequence, eventSequence)
  /\ \A k \in 1..Len(outbox') : Aside(k)
  /\ \/ /\ pc = "idle" /\ pc' = "idle"
        /\ \A k \in 1..Len(outbox') : outbox'[k].ev.type # "GapClosed"
        /\ gapIsOpen' =>
             \/ gapIsOpen
             \/ /\ hasEverBeenHealthy /\ Len(outbox') = 1
                /\ outbox'[1].ev.type = "GapOpened"
     \/ pc = "failed" /\ pc' = "failed" /\ gapIsOpen' = gapIsOpen
     \/ pc \in {"idle", "failed"} /\ pc' = "stopped" /\ gapIsOpen' = gapIsOpen
     \/ /\ pc = "bootstrap" /\ pc' = "bootstrapped" /\ todo = {}
        /\ gapIsOpen' = gapIsOpen

BeginStep ==
  /\ Idle /\ frameSequence' = frameSequence + 1
  /\ Emits(epochID, frameSequence + 1, 0)
  /\ \A k \in 1..Len(outbox') :
       /\ outbox'[k].ev.conn = NoConn
       /\ outbox'[k].ev.type \in {"GapClosed", "EpochBreak"}
       /\ outbox'[k].ev.type = "GapClosed" => k = 1 /\ gapIsOpen
  /\ hasEverBeenHealthy' = hasEverBeenHealthy
  /\ \/ /\ pc' \in {"recovery", "steady"}
        /\ UNCHANGED <<epochID, activeMap, tombstones, gapIsOpen, isBootstrapFrame>>
        /\ IF pc' = "recovery" THEN gapIsOpen ELSE ~gapIsOpen /\ ~isBootstrapFrame
     \/ /\ pc' = "bootstrap" /\ ~gapIsOpen' /\ isBootstrapFrame'
        /\ DOMAIN activeMap' = {} /\ DOMAIN tombstones' = {}
        /\ \/ epochID' = epochID + 1
           \/ epochID' = epochID /\ isBootstrapFrame /\ ~gapIsOpen

LEMMA DisappearStep ==
  ASSUME NEW id, Disappear(id), id \in DOMAIN activeMap
  PROVE  GoneStep(id)
<1>. DEFINE e == [Event("Disappeared", frame.ts) EXCEPT
                    !.conn = id, !.from = activeMap[id].observedAt,
                    !.counter = activeMap[id].last]
<1>1. e.conn = id /\ e.type = "Disappeared"
  BY DEF Event
<1>2. Emit(<<e>>)
  BY DEF Disappear
<1>. HIDE DEF e
<1>3. /\ Emits(epochID, frameSequence, eventSequence)
      /\ Len(outbox') = 1 /\ outbox'[1].ev = e
  BY <1>2, ShortSeqs, EmitParts
<1>4. DOMAIN tombstones' \subseteq DOMAIN tombstones \cup {id}
  <2>. DEFINE map == With(tombstones, id, [state |-> activeMap[id], at |-> frameSequence])
              fifo == Append(tombstoneFIFO, [id |-> id, at |-> frameSequence])
  <2>1. tombstones' = map \/ tombstones' = Without(map, Head(fifo).id)
    BY DEF Disappear, RecordTombstone
  <2>. QED BY <2>1 DEF With, Without
<1>5. DOMAIN activeMap' = DOMAIN activeMap \ {id}
  BY DEF Disappear, Without
<1>. QED BY <1>1, <1>3, <1>4, <1>5 DEF Disappear, GoneStep, frameVars

LEMMA FrameEnds ==
  ASSUME EndSteady \/ EndRecovery \/ EndBootstrap
  PROVE  EndStep
<1>1. \A delta : Residual(delta) =>
        /\ Emits(epochID, frameSequence, eventSequence)
        /\ Len(outbox') = 1 /\ outbox'[1].ev.type = "Residual"
  <2>. SUFFICES ASSUME NEW delta, Residual(delta)
                PROVE  /\ Emits(epochID, frameSequence, eventSequence)
                       /\ Len(outbox') = 1 /\ outbox'[1].ev.type = "Residual"
    OBVIOUS
  <2>. DEFINE e == [Event("Residual", frame.ts) EXCEPT !.delta = delta, !.counter = unique]
  <2>1. e.type = "Residual"
    BY DEF Event
  <2>2. Emit(<<e>>)
    BY DEF Residual
  <2>. HIDE DEF e
  <2>. QED BY <2>1, <2>2, ShortSeqs, EmitParts
<1>2. CASE EndSteady
  BY <1>1, <1>2 DEF EndSteady, EndFrame, EndStep, connVars
<1>3. CASE EndRecovery
  BY <1>1, <1>3 DEF EndRecovery, EndFrame, EndStep, connVars
<1>4. CASE EndBootstrap
  BY <1>1, <1>4 DEF EndBootstrap, EndFrame, EndStep, connVars
<1>. QED BY <1>2, <1>3, <1>4

LEMMA UnobservedGapStep ==
  ASSUME NEW end, UnobservedGap(end), Settled, eventSequence \in Nat
  PROVE  /\ Emits(epochID, frameSequence, eventSequence)
         /\ \A k \in 1..Len(outbox') : Aside(k)
<1>. DEFINE e == GapOpenedEvent(end, createdAt)
            f == GapClosedEvent(createdAt, end)
<1>1. /\ e.type = "GapOpened" /\ e.conn = NoConn
      /\ f.type = "GapClosed" /\ f.conn = NoConn
  BY DEF GapOpenedEvent, GapClosedEvent, Event
<1>2. Emit(<<e, f>>) \/ UNCHANGED <<outbox, eventSequence>>
  BY DEF UnobservedGap
<1>. HIDE DEF e, f
<1>3. CASE Emit(<<e, f>>)
  <2>1. /\ Emits(epochID, frameSequence, eventSequence)
        /\ Len(outbox') = 2 /\ outbox'[1].ev = e /\ outbox'[2].ev = f
    BY <1>3, ShortSeqs, EmitParts
  <2>. QED BY <1>1, <2>1 DEF Aside
<1>4. CASE UNCHANGED <<outbox, eventSequence>>
  BY <1>4, EmitNothing
<1>. QED BY <1>2, <1>3, <1>4

LEMMA QuietItems ==
  ASSUME eventSequence \in Nat, NEW now,
         GapOpened(now) \/ CollectorHealth(now) \/ EndBootstrapLoop \/ Shutdown(now)
  PROVE  QuietStep
<1>1. CASE GapOpened(now)
  <2>1. CASE hasEverBeenHealthy /\ ~gapIsOpen
    <3>. DEFINE e == GapOpenedEvent(now, GapFrom(now))
    <3>1. e.type = "GapOpened" /\ e.conn = NoConn
      BY DEF GapOpenedEvent, Event
    <3>2. Emit(<<e>>)
      BY <1>1, <2>1 DEF GapOpened
    <3>. HIDE DEF e
    <3>3. /\ Emits(epochID, frameSequence, eventSequence)
          /\ Len(outbox') = 1 /\ outbox'[1].ev = e
      BY <3>2, ShortSeqs, EmitParts
    <3>4. \A k \in 1..Len(outbox') : Aside(k) /\ outbox'[k].ev.type # "GapClosed"
      BY <3>1, <3>3 DEF Aside
    <3>. QED BY <1>1, <2>1, <3>1, <3>3, <3>4
             DEF GapOpened, QuietStep, Idle, connVars, frameVars
  <2>2. CASE ~(hasEverBeenHealthy /\ ~gapIsOpen)
    <3>1. Settled /\ UNCHANGED <<gapIsOpen, eventSequence, outbox>>
      BY <1>1, <2>2 DEF GapOpened, Idle
    <3>2. Emits(epochID, frameSequence, eventSequence) /\ Len(outbox') = 0
      BY <3>1, EmitNothing
    <3>. QED BY <1>1, <3>1, <3>2 DEF GapOpened, QuietStep, Idle, connVars, frameVars
  <2>. QED BY <2>1, <2>2
<1>2. CASE CollectorHealth(now)
  <2>. DEFINE e == HealthEvent(now, NoConn)
  <2>1. e.type = "Health" /\ e.conn = NoConn
    BY DEF HealthEvent, Event
  <2>2. Emit(<<e>>)
    BY <1>2 DEF CollectorHealth
  <2>. HIDE DEF e
  <2>3. /\ Emits(epochID, frameSequence, eventSequence)
        /\ Len(outbox') = 1 /\ outbox'[1].ev = e
    BY <2>2, ShortSeqs, EmitParts
  <2>4. \A k \in 1..Len(outbox') : Aside(k) /\ outbox'[k].ev.type # "GapClosed"
    BY <2>1, <2>3 DEF Aside
  <2>. QED BY <1>2, <2>1, <2>3, <2>4
           DEF CollectorHealth, QuietStep, connVars, gapVars, seenVars, frameVars
<1>3. CASE EndBootstrapLoop
  <2>1. /\ Emits(epochID, frameSequence, eventSequence)
        /\ \A k \in 1..Len(outbox') : Aside(k)
    BY <1>3, EmitNothing, UnobservedGapStep DEF EndBootstrapLoop
  <2>. QED BY <1>3, <2>1 DEF EndBootstrapLoop, QuietStep, connVars
<1>4. CASE Shutdown(now)
  <2>1. /\ Emits(epochID, frameSequence, eventSequence)
        /\ \A k \in 1..Len(outbox') : Aside(k)
    BY <1>4, EmitNothing, UnobservedGapStep DEF Shutdown
  <2>. QED BY <1>4, <2>1 DEF Shutdown, QuietStep, connVars, seenVars
<1>. QED BY <1>1, <1>2, <1>3, <1>4

LEMMA FrameBegins ==
  ASSUME NEW f, ProcessFrame(f)
  PROVE  BeginStep
<1>. DEFINE c == GapClosedEvent(gapStart, f.ts)
            b == Event("EpochBreak", f.ts)
            Says(k) ==
              /\ outbox'[k].ev.conn = NoConn
              /\ outbox'[k].ev.type \in {"GapClosed", "EpochBreak"}
              /\ outbox'[k].ev.type = "GapClosed" => k = 1 /\ gapIsOpen
<1>1. /\ c.type = "GapClosed" /\ c.conn = NoConn
      /\ b.type = "EpochBreak" /\ b.conn = NoConn
  BY DEF GapClosedEvent, Event
<1>2. DOMAIN << >> = {}
  OBVIOUS
<1>3. \/ EmitFirst(<< >>) \/ EmitFirst(<<b>>)
      \/ gapIsOpen /\ (EmitFirst(<<c>>) \/ EmitFirst(<<c>> \o <<b>>))
  BY DEF ProcessFrame, StartRecovery, StartEpochBreakAcrossGap, StartEpochBreak,
              StartBootstrap, StartSteady, BreakEvents
<1>. HIDE DEF c, b
<1>4. Emits(epochID, frameSequence + 1, 0) /\ \A k \in 1..Len(outbox') : Says(k)
  <2>1. CASE EmitFirst(<< >>)
    BY <2>1, ShortSeqs, EmitFirstParts
  <2>2. CASE EmitFirst(<<b>>)
    BY <1>1, <2>2, ShortSeqs, EmitFirstParts
  <2>3. CASE gapIsOpen /\ EmitFirst(<<c>>)
    BY <1>1, <2>3, ShortSeqs, EmitFirstParts
  <2>4. CASE gapIsOpen /\ EmitFirst(<<c>> \o <<b>>)
    <3>. DEFINE events == <<c>> \o <<b>>
    <3>1. /\ IsSeq(events) /\ Len(events) = 2
          /\ events[1] = c /\ events[2] = b
      <4>1. IsSeq(<<c>>) /\ IsSeq(<<b>>) /\ Len(<<c>>) = 1 /\ Len(<<b>>) = 1
        BY ShortSeqs
      <4>2. <<c>>[1] = c /\ <<b>>[1] = b
        OBVIOUS
      <4>. QED BY <4>1, <4>2, ConcatParts
    <3>2. EmitFirst(events)
      BY <2>4
    <3>. HIDE DEF events
    <3>3. /\ Emits(epochID, frameSequence + 1, 0)
          /\ Len(outbox') = 2 /\ outbox'[1].ev = c /\ outbox'[2].ev = b
      BY <3>1, <3>2, EmitFirstParts
    <3>. QED BY <1>1, <2>4, <3>3
  <2>. QED BY <1>3, <2>1, <2>2, <2>3, <2>4
<1>5. CASE StartRecovery(f)
  BY <1>4, <1>5 DEF StartRecovery, BeginFrame, BeginStep, connVars, gapVars
<1>6. CASE StartEpochBreakAcrossGap(f)
  <2>1. Idle /\ frameSequence' = frameSequence + 1 /\ pc' = "bootstrap"
    BY <1>6 DEF StartEpochBreakAcrossGap, BeginFrame
  <2>2. /\ epochID' = epochID + 1 /\ isBootstrapFrame'
        /\ hasEverBeenHealthy' = hasEverBeenHealthy /\ ~gapIsOpen'
    BY <1>6 DEF StartEpochBreakAcrossGap, StartNewEpoch
  <2>3. DOMAIN activeMap' = {} /\ DOMAIN tombstones' = {}
    BY <1>2, <1>6 DEF StartEpochBreakAcrossGap, StartNewEpoch, ResetTombstones
  <2>. QED BY <1>4, <2>1, <2>2, <2>3 DEF BeginStep
<1>7. CASE StartEpochBreak(f)
  <2>1. Idle /\ frameSequence' = frameSequence + 1 /\ pc' = "bootstrap"
    BY <1>7 DEF StartEpochBreak, BeginFrame
  <2>2. /\ epochID' = epochID + 1 /\ isBootstrapFrame'
        /\ hasEverBeenHealthy' = hasEverBeenHealthy /\ ~gapIsOpen'
    BY <1>7 DEF StartEpochBreak, StartNewEpoch, gapVars
  <2>3. DOMAIN activeMap' = {} /\ DOMAIN tombstones' = {}
    BY <1>2, <1>7 DEF StartEpochBreak, StartNewEpoch, ResetTombstones
  <2>. QED BY <1>4, <2>1, <2>2, <2>3 DEF BeginStep
<1>8. CASE StartBootstrap(f)
  BY <1>2, <1>4, <1>8 DEF StartBootstrap, BeginFrame, BeginStep, ResetTombstones, gapVars
<1>9. CASE StartSteady(f)
  BY <1>4, <1>9 DEF StartSteady, BeginFrame, BeginStep, connVars, gapVars, seenVars
<1>. QED BY <1>5, <1>6, <1>7, <1>8, <1>9 DEF ProcessFrame

-----------------------------------------------------------------------------
(* The collector's steps.                                                  *)

Running(s) == sessions[s].status = "running"

SessionsShape ==
  /\ IsSeq(sessions)
  /\ \A s \in 1..Session : "status" \in DOMAIN sessions[s]
  /\ \A s \in 1..(Session - 1) : ~Running(s)
  /\ pc # "down" => Session > 0 /\ Running(Session)

JournalShape ==
  /\ IsSeq(journal)
  /\ \A i \in 1..Len(journal) :
       /\ journal[i].session \in 1..Session
       /\ journal[i].epoch \in Nat /\ journal[i].frame \in Nat /\ journal[i].seq \in Nat

EngineShape ==
  /\ pc \in {"down", "idle", "bootstrap", "bootstrapped", "recovery", "steady",
             "failed", "stopped"}
  /\ epochID \in Nat /\ frameSequence \in Nat /\ eventSequence \in Nat
  /\ IsSeq(outbox)
  /\ \A k \in 1..Len(outbox) :
       /\ outbox[k].epoch \in Nat /\ outbox[k].frame = frameSequence
       /\ outbox[k].seq \in Nat
  /\ pc = "down" => outbox = << >>

StoreShape == store = [rows |-> store.rows, gaps |-> store.gaps]

Shape == SessionsShape /\ JournalShape /\ EngineShape /\ StoreShape

\* Nothing moves but the world and the heartbeat.
WorldStep ==
  /\ UNCHANGED <<engineVars, journal, store>>
  /\ IsSeq(sessions') /\ Len(sessions') = Session
  /\ \A s \in 1..Session : /\ "status" \in DOMAIN sessions'[s]
                           /\ sessions'[s].status = sessions[s].status

SectionStep ==
  /\ UNCHANGED storeVars
  /\ \/ QuietStep \/ BeginStep \/ EndStep
     \/ \E id \in todo : ConnStep(id)
     \/ \E id \in DOMAIN activeMap : GoneStep(id)

LEMMA ExceptSessions ==
  ASSUME SessionsShape, NEW r, NEW s \in 1..Session, "status" \in DOMAIN r,
         sessions' = [sessions EXCEPT ![s] = r]
  PROVE  /\ IsSeq(sessions') /\ Len(sessions') = Session
         /\ \A x \in 1..Session : "status" \in DOMAIN sessions'[x]
         /\ \A x \in (1..Session) \ {s} : sessions'[x] = sessions[x]
         /\ sessions'[s] = r
<1>1. Session \in Nat /\ sessions = [i \in 1..Session |-> sessions[i]]
  BY SeqParts DEF SessionsShape, Session
<1>2. sessions' = [i \in 1..Session |-> sessions'[i]]
  BY <1>1
<1>3. IsSeq(sessions') /\ Len(sessions') = Session
  BY <1>1, <1>2, SeqMade
<1>. QED BY <1>1, <1>3 DEF SessionsShape

LEMMA WorldSteps ==
  ASSUME Shape, Tick \/ MihomoMoves \/ Rest \/ UNCHANGED vars
  PROVE  WorldStep
<1>1. CASE UNCHANGED <<engineVars, storeVars>>
  BY <1>1 DEF WorldStep, Shape, SessionsShape, storeVars, Session
<1>2. CASE /\ Tick /\ Heartbeat(clock') /\ ~Down
  <2>1. UNCHANGED <<engineVars, journal, store>>
    BY <1>2 DEF Tick, Quiet, Heartbeat
  <2>2. Session \in 1..Session
    BY <1>2, SeqParts DEF Shape, SessionsShape, Down, Session
  <2>3. CASE sessions' = sessions
    BY <2>1, <2>3 DEF WorldStep, Shape, SessionsShape, Session
  <2>4. CASE sessions' = [sessions EXCEPT ![Session].heartbeatAt = clock']
    <3>. DEFINE r == [sessions[Session] EXCEPT !.heartbeatAt = clock']
    <3>1. "status" \in DOMAIN r /\ r.status = sessions[Session].status
      BY <2>2 DEF Shape, SessionsShape
    <3>2. sessions' = [sessions EXCEPT ![Session] = r]
      BY <2>4
    <3>. HIDE DEF r
    <3>3. /\ IsSeq(sessions') /\ Len(sessions') = Session
          /\ \A x \in 1..Session : "status" \in DOMAIN sessions'[x]
          /\ \A x \in (1..Session) \ {Session} : sessions'[x] = sessions[x]
          /\ sessions'[Session] = r
      BY <2>2, <3>1, <3>2, ExceptSessions DEF Shape
    <3>. QED BY <2>1, <3>1, <3>3 DEF WorldStep
  <2>. QED BY <1>2, <2>3, <2>4 DEF Heartbeat
<1>3. Tick => UNCHANGED <<engineVars, storeVars>> \/ (Tick /\ Heartbeat(clock') /\ ~Down)
  BY DEF Tick, Quiet
<1>4. MihomoMoves \/ Rest \/ UNCHANGED vars => UNCHANGED <<engineVars, storeVars>>
  BY DEF MihomoMoves, Quiet, Rest, vars
<1>. QED BY <1>1, <1>2, <1>3, <1>4

LEMMA SectionSteps ==
  ASSUME Shape, StopRun \/ StreamLost \/ Health \/ FrameArrives \/ FrameContinues
  PROVE  SectionStep
<1>0. eventSequence \in Nat
  BY DEF Shape, EngineShape
<1>1. CASE StopRun
  BY <1>0, <1>1, QuietItems DEF StopRun, SectionStep
<1>2. CASE StreamLost
  BY <1>0, <1>2, QuietItems DEF StreamLost, SectionStep
<1>3. CASE Health
  BY <1>0, <1>3, QuietItems DEF Health, SectionStep
<1>4. CASE FrameArrives
  <2>1. PICK f : ProcessFrame(f)
    BY <1>4 DEF FrameArrives
  <2>2. UNCHANGED storeVars
    BY <1>4 DEF FrameArrives
  <2>. QED BY <2>1, <2>2, FrameBegins DEF SectionStep
<1>5. CASE FrameContinues
  <2>0. UNCHANGED storeVars
    BY <1>5 DEF FrameContinues
  <2>1. CASE ProcessConn
    BY <2>0, <2>1, ProcessConnStep DEF SectionStep
  <2>2. CASE \E id \in DOMAIN activeMap : Disappear(id)
    BY <2>0, <2>2, DisappearStep DEF SectionStep
  <2>3. CASE EndSteady \/ EndRecovery \/ EndBootstrap
    BY <2>0, <2>3, FrameEnds DEF SectionStep
  <2>4. CASE EndBootstrapLoop
    BY <1>0, <2>0, <2>4, QuietItems DEF SectionStep
  <2>. QED BY <1>5, <2>1, <2>2, <2>3, <2>4 DEF FrameContinues
<1>. QED BY <1>1, <1>2, <1>3, <1>4, <1>5

LEMMA Steps ==
  ASSUME Shape, [Next]_vars
  PROVE  \/ WorldStep \/ SectionStep
         \/ BeginRun \/ EndRun \/ Killed \/ EmitSucceeds \/ EmitFails
BY WorldSteps, SectionSteps DEF Next

\* What the three transactions do to the sessions.
LEMMA SessionCount ==
  ASSUME Shape
  PROVE  Session \in Nat /\ DOMAIN sessions = 1..Session
BY SeqParts DEF Shape, SessionsShape, Session

LEMMA RecordSessions ==
  ASSUME Shape, EmitSucceeds
  PROVE  /\ pc # "down" /\ Session \in 1..Session
         /\ IsSeq(sessions') /\ Session' = Session
         /\ \A s \in 1..Session : /\ "status" \in DOMAIN sessions'[s]
                                  /\ sessions'[s].status = sessions[s].status
<1>1. pc # "down" /\ Session \in 1..Session
  BY SessionCount DEF EmitSucceeds, SinkTakes, Shape, EngineShape, SessionsShape
<1>. DEFINE r == [sessions[Session] EXCEPT !.lastEventAt = Offered.ev.ts,
                                           !.heartbeatAt = clock]
<1>2. "status" \in DOMAIN r /\ r.status = sessions[Session].status
  BY <1>1 DEF Shape, SessionsShape
<1>3. sessions' = [sessions EXCEPT ![Session] = r]
  BY <1>1, SessionCount DEF EmitSucceeds, Record, Offered
<1>. HIDE DEF r
<1>4. /\ IsSeq(sessions') /\ Len(sessions') = Session
      /\ \A x \in 1..Session : "status" \in DOMAIN sessions'[x]
      /\ \A x \in (1..Session) \ {Session} : sessions'[x] = sessions[x]
      /\ sessions'[Session] = r
  BY <1>1, <1>2, <1>3, ExceptSessions DEF Shape
<1>. QED BY <1>1, <1>2, <1>4 DEF Session

LEMMA EndSessions ==
  ASSUME Shape, EndRun
  PROVE  /\ Session \in 1..Session
         /\ IsSeq(sessions') /\ Session' = Session
         /\ \A s \in 1..Session : "status" \in DOMAIN sessions'[s]
         /\ sessions'[Session].status # "running"
         /\ \A s \in 1..(Session - 1) : sessions'[s] = sessions[s]
<1>. DEFINE status == IF fatal THEN "interrupted" ELSE "closed_clean"
            r == [sessions[Session] EXCEPT !.status = status, !.endedAt = clock,
                                           !.heartbeatAt = clock]
<1>1. Session \in 1..Session
  BY SessionCount DEF EndRun, Shape, EngineShape, SessionsShape
<1>2. "status" \in DOMAIN r /\ r.status = status
  BY <1>1 DEF Shape, SessionsShape
<1>3. sessions' = [sessions EXCEPT ![Session] = r]
  BY <1>1, SessionCount DEF EndRun, EndSession
<1>. HIDE DEF r
<1>4. /\ IsSeq(sessions') /\ Len(sessions') = Session
      /\ \A x \in 1..Session : "status" \in DOMAIN sessions'[x]
      /\ \A x \in (1..Session) \ {Session} : sessions'[x] = sessions[x]
      /\ sessions'[Session] = r
  BY <1>1, <1>2, <1>3, ExceptSessions DEF Shape
<1>. QED BY <1>1, <1>2, <1>4, SessionCount DEF Session, Running

LEMMA BeginSessions ==
  ASSUME Shape, BeginRun
  PROVE  /\ IsSeq(sessions') /\ Session' = Session + 1
         /\ \A s \in 1..Session' : "status" \in DOMAIN sessions'[s]
         /\ \A s \in 1..Session : sessions'[s].status # "running"
         /\ sessions'[Session + 1].status = "running"
<1>. DEFINE new == NewSession(clock)
<1>1. "status" \in DOMAIN new /\ new.status = "running"
  BY DEF NewSession
<1>. HIDE DEF new
<1>2. Session \in Nat /\ IsSeq(sessions)
  BY SessionCount DEF Shape, SessionsShape
<1>3. CASE FirstSession(clock)
  <2>1. sessions = << >> /\ sessions' = <<new>>
    BY <1>3 DEF FirstSession, new
  <2>2. Session = 0 /\ IsSeq(sessions') /\ Session' = 1 /\ sessions'[1] = new
    BY <2>1, ShortSeqs DEF Session
  <2>. QED BY <1>1, <2>2 DEF Running
<1>4. CASE NextSession(clock)
  <2>. DEFINE old == IF Last(sessions).status = "running"
                       THEN [sessions EXCEPT ![Session].status = "interrupted",
                                             ![Session].endedAt = clock]
                     ELSE sessions
  <2>1. sessions' = Append(old, new)
    BY <1>4 DEF NextSession, new
  <2>2. Session \in 1..Session /\ Last(sessions) = sessions[Session]
    BY <1>2, <1>4 DEF NextSession, Last, Session, IsSeq
  <2>3. /\ IsSeq(old) /\ Len(old) = Session
        /\ \A s \in 1..Session : /\ "status" \in DOMAIN old[s]
                                 /\ old[s].status # "running"
    <3>1. CASE sessions[Session].status = "running"
      <4>. DEFINE r == [sessions[Session] EXCEPT !.status = "interrupted",
                                                 !.endedAt = clock]
      <4>1. "status" \in DOMAIN r /\ r.status = "interrupted"
        BY <2>2 DEF Shape, SessionsShape
      <4>2. old = [sessions EXCEPT ![Session] = r]
        BY <2>2, <3>1, SessionCount
      <4>. HIDE DEF r, old
      <4>3. Session \in Nat /\ sessions = [i \in 1..Session |-> sessions[i]]
        BY <1>2, SeqParts DEF Session
      <4>4. old = [i \in 1..Session |-> old[i]]
        BY <4>2, <4>3
      <4>5. IsSeq(old) /\ Len(old) = Session
        BY <4>3, <4>4, SeqMade
      <4>6. old[Session] = r /\ \A s \in 1..(Session - 1) : old[s] = sessions[s]
        BY <2>2, <4>2, <4>3
      <4>. QED BY <2>2, <4>1, <4>5, <4>6 DEF Shape, SessionsShape, Running
    <3>2. CASE sessions[Session].status # "running"
      <4>1. old = sessions
        BY <2>2, <3>2
      <4>. QED BY <1>2, <2>2, <3>2, <4>1 DEF Shape, SessionsShape, Running, Session
    <3>. QED BY <3>1, <3>2
  <2>. HIDE DEF old
  <2>4. /\ IsSeq(sessions') /\ Len(sessions') = Session + 1
        /\ sessions'[Session + 1] = new
        /\ \A s \in 1..Session : sessions'[s] = old[s]
    BY <2>1, <2>3, AppendParts
  <2>. QED BY <1>1, <1>2, <2>3, <2>4 DEF Running, Session
<1>. QED BY <1>3, <1>4 DEF BeginRun, BeginSession

-----------------------------------------------------------------------------
(* The shape of the state.                                                 *)

LEMMA InitShape == Init => Shape
<1>. SUFFICES ASSUME Init PROVE Shape
  OBVIOUS
<1>1. SessionsShape /\ JournalShape /\ EngineShape
  BY ShortSeqs DEF Init, StoreInit, EngineInit, SessionsShape, JournalShape, EngineShape,
                   Session
<1>2. StoreShape
  BY DEF Init, StoreInit, EmptyStore, StoreShape
<1>. QED BY <1>1, <1>2 DEF Shape

LEMMA SectionShape ==
  ASSUME Shape, SectionStep
  PROVE  Shape'
<1>1. /\ pc # "down" /\ pc' # "down"
      /\ pc' \in {"down", "idle", "bootstrap", "bootstrapped", "recovery", "steady",
                  "failed", "stopped"}
  BY DEF SectionStep, QuietStep, BeginStep, EndStep, ConnStep, GoneStep, Shape,
         EngineShape, Idle
<1>2. /\ epochID' \in Nat /\ frameSequence' \in Nat
      /\ \/ Emits(epochID, frameSequence', eventSequence)
         \/ Emits(epochID, frameSequence', 0)
  <2>1. CASE BeginStep
    BY <2>1 DEF BeginStep, Shape, EngineShape
  <2>2. CASE ~BeginStep
    <3>1. /\ UNCHANGED <<epochID, frameSequence>>
          /\ Emits(epochID, frameSequence, eventSequence)
      BY <2>2 DEF SectionStep, QuietStep, EndStep, ConnStep, GoneStep
    <3>. QED BY <3>1 DEF Shape, EngineShape
  <2>. QED BY <2>1, <2>2
<1>3. eventSequence' \in Nat /\ IsSeq(outbox')
  BY <1>2, SeqParts DEF Emits, Shape, EngineShape
<1>4. \A k \in 1..Len(outbox') :
        /\ outbox'[k].epoch \in Nat /\ outbox'[k].frame = frameSequence'
        /\ outbox'[k].seq \in Nat
  BY <1>2 DEF Emits, Shape, EngineShape
<1>5. EngineShape'
  BY <1>1, <1>2, <1>3, <1>4 DEF EngineShape
<1>. QED BY <1>1, <1>5 DEF SectionStep, storeVars, Shape, SessionsShape, JournalShape,
                           StoreShape, Session, Running

LEMMA TakenOutbox ==
  ASSUME Shape, EmitSucceeds
  PROVE  /\ Offered = [session |-> Session, epoch |-> outbox[1].epoch,
                       frame |-> outbox[1].frame, seq |-> outbox[1].seq,
                       ev |-> outbox[1].ev]
         /\ Len(outbox) > 0 /\ IsSeq(outbox') /\ Len(outbox') = Len(outbox) - 1
         /\ \A k \in 1..(Len(outbox) - 1) : outbox'[k] = outbox[k + 1]
         /\ IsSeq(journal') /\ Len(journal') = Len(journal) + 1
         /\ journal'[Len(journal) + 1] = Offered
         /\ \A i \in 1..Len(journal) : journal'[i] = journal[i]
<1>1. outbox # << >> /\ outbox' = Tail(outbox) /\ journal' = Append(journal, Offered)
  BY DEF EmitSucceeds, SinkTakes, Record
<1>2. IsSeq(outbox) /\ IsSeq(journal)
  BY DEF Shape, EngineShape, JournalShape
<1>3. /\ Len(outbox) > 0 /\ Head(outbox) = outbox[1]
      /\ IsSeq(Tail(outbox)) /\ Len(Tail(outbox)) = Len(outbox) - 1
      /\ \A k \in 1..(Len(outbox) - 1) : Tail(outbox)[k] = outbox[k + 1]
  BY <1>1, <1>2, TailParts
<1>4. /\ IsSeq(journal') /\ Len(journal') = Len(journal) + 1
      /\ journal'[Len(journal) + 1] = Offered
      /\ \A i \in 1..Len(journal) : journal'[i] = journal[i]
  BY <1>1, <1>2, AppendParts
<1>. QED BY <1>1, <1>3, <1>4 DEF Offered

LEMMA TakenShape ==
  ASSUME Shape, EmitSucceeds
  PROVE  Shape'
<1>1. UNCHANGED <<pc, epochID, frameSequence, eventSequence>>
  BY DEF EmitSucceeds, seqVars, frameVars
<1>2. SessionsShape'
  BY <1>1, RecordSessions DEF Shape, SessionsShape, Running
<1>3. JournalShape'
  <2>1. Len(outbox) \in Nat /\ Len(journal) \in Nat
    BY SeqParts DEF Shape, EngineShape, JournalShape
  <2>2. Offered.session = Session /\ Session \in 1..Session
    BY TakenOutbox, RecordSessions
  <2>3. Offered.epoch \in Nat /\ Offered.frame \in Nat /\ Offered.seq \in Nat
    BY <2>1, TakenOutbox DEF Shape, EngineShape
  <2>4. Session' = Session
    BY RecordSessions
  <2>5. /\ IsSeq(journal') /\ Len(journal') = Len(journal) + 1
        /\ journal'[Len(journal) + 1] = Offered
        /\ \A i \in 1..Len(journal) : journal'[i] = journal[i]
    BY TakenOutbox
  <2>6. ASSUME NEW i \in 1..Len(journal')
        PROVE  /\ journal'[i].session \in 1..Session
               /\ journal'[i].epoch \in Nat /\ journal'[i].frame \in Nat
               /\ journal'[i].seq \in Nat
    <3>1. CASE i = Len(journal) + 1
      BY <2>2, <2>3, <2>5, <3>1
    <3>2. CASE i # Len(journal) + 1
      <4>1. i \in 1..Len(journal)
        BY <2>1, <2>5, <3>2
      <4>. QED BY <2>5, <4>1 DEF Shape, JournalShape
    <3>. QED BY <3>1, <3>2
  <2>. QED BY <2>4, <2>5, <2>6 DEF JournalShape
<1>4. EngineShape'
  <2>1. Len(outbox) \in Nat
    BY SeqParts DEF Shape, EngineShape
  <2>2. pc' # "down"
    BY <1>1, RecordSessions
  <2>3. /\ Len(outbox) > 0 /\ IsSeq(outbox') /\ Len(outbox') = Len(outbox) - 1
        /\ \A k \in 1..(Len(outbox) - 1) : outbox'[k] = outbox[k + 1]
    BY TakenOutbox
  <2>4. ASSUME NEW k \in 1..Len(outbox')
        PROVE  /\ outbox'[k].epoch \in Nat /\ outbox'[k].frame = frameSequence
               /\ outbox'[k].seq \in Nat
    <3>1. k + 1 \in 1..Len(outbox) /\ outbox'[k] = outbox[k + 1]
      BY <2>1, <2>3
    <3>. QED BY <3>1 DEF Shape, EngineShape
  <2>. QED BY <1>1, <2>2, <2>3, <2>4 DEF Shape, EngineShape
<1>5. StoreShape'
  BY DEF EmitSucceeds, Record, Project, StoreShape
<1>. QED BY <1>2, <1>3, <1>4, <1>5 DEF Shape

LEMMA FailShape ==
  ASSUME Shape, EmitFails
  PROVE  Shape'
<1>1. /\ outbox # << >> /\ outbox' = << >>
      /\ pc' \in {"failed", "stopped"} /\ pc # "down"
      /\ eventSequence' = Head(outbox).seq /\ epochID' = Head(outbox).epoch
      /\ frameSequence' = frameSequence /\ UNCHANGED storeVars
  BY DEF EmitFails, SinkFails, Shape, EngineShape
<1>2. Len(outbox) > 0 /\ Head(outbox) = outbox[1] /\ Len(outbox) \in Nat
  BY <1>1, TailParts, SeqParts DEF Shape, EngineShape
<1>3. EngineShape'
  BY <1>1, <1>2, ShortSeqs DEF Shape, EngineShape
<1>. QED BY <1>1, <1>3 DEF storeVars, Shape, SessionsShape, JournalShape,
                           StoreShape, Session, Running

LEMMA ReplacedShape ==
  ASSUME Shape, NEW section \in {"down", "idle"}, NEW now, EngineReplaced(section, now)
  PROVE  EngineShape'
BY ShortSeqs DEF EngineReplaced, EngineShape

LEMMA RunShape ==
  ASSUME Shape, BeginRun \/ EndRun \/ Killed
  PROVE  Shape'
<1>0. Session \in Nat
  BY SessionCount
<1>1. CASE BeginRun
  <2>1. EngineShape' /\ pc' = "idle"
    BY <1>1, ReplacedShape DEF BeginRun, EngineReplaced
  <2>2. SessionsShape'
    BY <1>0, <1>1, BeginSessions DEF SessionsShape, Running
  <2>3. JournalShape'
    <3>1. journal' = journal /\ Session' = Session + 1
      BY <1>1, BeginSessions DEF BeginRun, BeginSession, FirstSession, NextSession
    <3>. QED BY <1>0, <3>1 DEF Shape, JournalShape
  <2>4. StoreShape'
    BY <1>1 DEF BeginRun, BeginSession, FirstSession, NextSession, Shape, StoreShape
  <2>. QED BY <2>1, <2>2, <2>3, <2>4 DEF Shape
<1>2. CASE EndRun
  <2>1. EngineShape' /\ pc' = "down"
    BY <1>2, ReplacedShape DEF EndRun, Exits, EngineReplaced
  <2>2. SessionsShape'
    BY <1>0, <1>2, <2>1, EndSessions DEF Shape, SessionsShape, Running
  <2>3. JournalShape'
    BY <1>2, EndSessions DEF Shape, JournalShape, EndRun, EndSession
  <2>4. StoreShape'
    BY <1>2 DEF EndRun, EndSession, Shape, StoreShape
  <2>. QED BY <2>1, <2>2, <2>3, <2>4 DEF Shape
<1>3. CASE Killed
  <2>1. EngineShape' /\ pc' = "down" /\ UNCHANGED storeVars
    BY <1>3, ReplacedShape DEF Killed, Exits, EngineReplaced
  <2>. QED BY <2>1 DEF storeVars, Shape, SessionsShape, JournalShape, StoreShape,
                       Session, Running
<1>. QED BY <1>1, <1>2, <1>3

LEMMA ShapeNext == Shape /\ [Next]_vars => Shape'
<1>. SUFFICES ASSUME Shape, [Next]_vars PROVE Shape'
  OBVIOUS
<1>1. CASE WorldStep
  <2>1. EngineShape' /\ StoreShape'
    BY <1>1 DEF WorldStep, engineVars, seqVars, connVars, gapVars, seenVars, frameVars,
                Shape, EngineShape, StoreShape
  <2>2. Session' = Session /\ UNCHANGED <<journal, pc>>
    BY <1>1 DEF WorldStep, engineVars, frameVars, Session
  <2>3. JournalShape'
    BY <2>2 DEF Shape, JournalShape
  <2>4. SessionsShape'
    BY <1>1, <2>2, SessionCount DEF WorldStep, Shape, SessionsShape, Running
  <2>. QED BY <2>1, <2>3, <2>4 DEF Shape
<1>. QED BY <1>1, Steps, SectionShape, TakenShape, FailShape, RunShape

-----------------------------------------------------------------------------
(* The stream: the journal, and after it what is on its way there.  An     *)
(* event taken by the sink leaves the stream as it was.                    *)

Size == Len(journal) + Len(outbox)
Entry(i) ==
  IF i <= Len(journal) THEN journal[i]
  ELSE LET queued == outbox[i - Len(journal)]
       IN  [session |-> Session, epoch |-> queued.epoch, frame |-> queued.frame,
            seq |-> queued.seq, ev |-> queued.ev]
Mine(i) == i \in 1..Size /\ Entry(i).session = Session

\* The stream of the same session, or the beginning of it.
Cut ==
  /\ Session' = Session /\ Size' \in Nat /\ Size' <= Size
  /\ \A i \in 1..Size' : Entry(i)' = Entry(i)

\* The stream goes on with a section's events.
Extends ==
  /\ Session' = Session /\ Size' = Size + Len(outbox') /\ Len(outbox') \in Nat
  /\ \A i \in 1..Size : Entry(i)' = Entry(i)
  /\ \A j \in (Size + 1)..Size' :
       /\ j - Size \in 1..Len(outbox')
       /\ Entry(j)'.session = Session
       /\ Entry(j)'.epoch = outbox'[j - Size].epoch
       /\ Entry(j)'.frame = frameSequence'
       /\ Entry(j)'.seq = outbox'[j - Size].seq
       /\ Entry(j)'.ev = outbox'[j - Size].ev

LEMMA StreamParts ==
  ASSUME Shape
  PROVE  /\ Size \in Nat /\ Len(journal) \in Nat /\ Len(outbox) \in Nat
         /\ \A i \in 1..Size : /\ Entry(i).session \in 1..Session
                               /\ Entry(i).epoch \in Nat /\ Entry(i).frame \in Nat
                               /\ Entry(i).seq \in Nat
         /\ outbox # << >> => Len(outbox) > 0
         /\ \A i \in 1..Size : i > Len(journal) =>
              Entry(i).frame = frameSequence /\ Entry(i).session = Session
<1>1. Len(journal) \in Nat /\ Len(outbox) \in Nat /\ Size \in Nat
  BY SeqParts DEF Size, Shape, EngineShape, JournalShape
<1>2. outbox # << >> => Len(outbox) > 0
  BY TailParts DEF Shape, EngineShape
<1>3. ASSUME NEW i \in 1..Size, i > Len(journal)
      PROVE  /\ Entry(i).session \in 1..Session
             /\ Entry(i).epoch \in Nat /\ Entry(i).frame \in Nat
             /\ Entry(i).seq \in Nat
             /\ Entry(i).frame = frameSequence /\ Entry(i).session = Session
  <2>1. i - Len(journal) \in 1..Len(outbox) /\ ~(i <= Len(journal))
    BY <1>1, <1>3 DEF Size
  <2>2. outbox # << >>
    BY <2>1, <1>1, ShortSeqs
  <2>3. Session \in 1..Session
    BY <2>2, SessionCount DEF Shape, EngineShape, SessionsShape
  <2>. QED BY <2>1, <2>3 DEF Entry, Shape, EngineShape
<1>4. ASSUME NEW i \in 1..Size, i <= Len(journal)
      PROVE  /\ Entry(i).session \in 1..Session
             /\ Entry(i).epoch \in Nat /\ Entry(i).frame \in Nat
             /\ Entry(i).seq \in Nat
  <2>1. i \in 1..Len(journal)
    BY <1>1, <1>4
  <2>. QED BY <1>4, <2>1 DEF Entry, Shape, JournalShape
<1>. QED BY <1>1, <1>2, <1>3, <1>4

LEMMA SectionStream ==
  ASSUME Shape, SectionStep
  PROVE  Extends
<1>1. Shape'
  BY SectionShape
<1>2. outbox = << >> /\ UNCHANGED <<journal, sessions>>
  BY DEF SectionStep, QuietStep, BeginStep, EndStep, ConnStep, GoneStep, Idle, Settled,
         storeVars
<1>3. Len(outbox') \in Nat /\ Len(journal) \in Nat /\ Len(outbox) = 0
  BY <1>1, <1>2, SeqParts, ShortSeqs DEF Shape, EngineShape, JournalShape
<1>4. Size = Len(journal) /\ Size' = Size + Len(outbox') /\ Session' = Session
  BY <1>2, <1>3 DEF Size, Session
<1>5. \A i \in 1..Size : Entry(i)' = Entry(i)
  BY <1>2, <1>3, <1>4 DEF Entry
<1>6. ASSUME NEW j \in (Size + 1)..Size'
      PROVE  /\ j - Size \in 1..Len(outbox')
             /\ Entry(j)' = [session |-> Session, epoch |-> outbox'[j - Size].epoch,
                             frame |-> outbox'[j - Size].frame,
                             seq |-> outbox'[j - Size].seq, ev |-> outbox'[j - Size].ev]
  <2>1. j - Size \in 1..Len(outbox') /\ ~(j <= Len(journal))
    BY <1>3, <1>4
  <2>. QED BY <1>2, <1>4, <2>1 DEF Entry
<1>7. \A k \in 1..Len(outbox') : outbox'[k].frame = frameSequence'
  BY <1>1 DEF Shape, EngineShape
<1>. QED BY <1>3, <1>4, <1>5, <1>6, <1>7 DEF Extends

LEMMA TakenStream ==
  ASSUME Shape, EmitSucceeds
  PROVE  Session' = Session /\ Size' = Size /\ \A i \in 1..Size : Entry(i)' = Entry(i)
<1>1. Len(journal) \in Nat /\ Len(outbox) \in Nat
  BY StreamParts
<1>2. Session' = Session
  BY RecordSessions
<1>3. Size' = Size
  <2>1. Len(journal') = Len(journal) + 1 /\ Len(outbox') = Len(outbox) - 1
    BY TakenOutbox
  <2>. QED BY <1>1, <2>1 DEF Size
<1>4. ASSUME NEW i \in 1..Size PROVE Entry(i)' = Entry(i)
  <2>1. CASE i <= Len(journal)
    <3>1. i \in 1..Len(journal) /\ i <= Len(journal) + 1
      BY <1>1, <2>1
    <3>. QED BY <2>1, <3>1, TakenOutbox DEF Entry
  <2>2. CASE i = Len(journal) + 1
    <3>1. ~(i <= Len(journal)) /\ i - Len(journal) = 1 /\ i <= Len(journal)'
      BY <1>1, <2>2, TakenOutbox
    <3>. QED BY <2>2, <3>1, TakenOutbox DEF Entry
  <2>3. CASE i > Len(journal) + 1
    <3>. DEFINE k == i - (Len(journal) + 1)
    <3>1. /\ k \in 1..(Len(outbox) - 1) /\ k + 1 = i - Len(journal)
          /\ ~(i <= Len(journal)) /\ ~(i <= Len(journal)')
      BY <1>1, <2>3, TakenOutbox DEF Size
    <3>2. outbox'[i - Len(journal)'] = outbox[i - Len(journal)]
      <4>1. Len(journal)' = Len(journal) + 1
        BY TakenOutbox
      <4>2. outbox'[k] = outbox[k + 1]
        BY <3>1, TakenOutbox
      <4>. QED BY <3>1, <4>1, <4>2
    <3>. QED BY <1>2, <3>1, <3>2 DEF Entry
  <2>. QED BY <1>1, <2>1, <2>2, <2>3
<1>. QED BY <1>2, <1>3, <1>4

LEMMA CutStream ==
  ASSUME Shape, WorldStep \/ EndRun \/ Killed \/ EmitSucceeds \/ EmitFails
  PROVE  Cut
<1>1. Len(journal) \in Nat /\ Len(outbox) \in Nat /\ Size \in Nat
  BY StreamParts
<1>2. CASE WorldStep
  BY <1>1, <1>2 DEF WorldStep, engineVars, Cut, Size, Entry, Session
<1>3. CASE EmitSucceeds
  BY <1>1, <1>3, TakenStream DEF Cut
<1>4. CASE EndRun \/ Killed \/ EmitFails
  <2>1. journal' = journal /\ outbox' = << >> /\ Session' = Session
    BY <1>4, EndSessions DEF EndRun, EndSession, Killed, Exits, EngineReplaced, EmitFails,
                             SinkFails, storeVars, Session
  <2>2. Size' = Len(journal) /\ Len(journal) <= Size
    BY <1>1, <2>1, ShortSeqs DEF Size
  <2>3. \A i \in 1..Size' : Entry(i)' = Entry(i)
    BY <1>1, <2>1, <2>2 DEF Entry
  <2>. QED BY <1>1, <2>1, <2>2, <2>3 DEF Cut
<1>. QED BY <1>2, <1>3, <1>4

\* A session that begins has no stream yet.
LEMMA NewStream ==
  ASSUME Shape, BeginRun
  PROVE  \A i : ~Mine(i)'
<1>1. /\ journal' = journal /\ outbox' = << >> /\ Session' = Session + 1
      /\ Session \in Nat /\ Len(journal) \in Nat
  BY BeginSessions, SessionCount, StreamParts
     DEF BeginRun, BeginSession, FirstSession, NextSession, EngineReplaced
<1>2. Size' = Len(journal)
  BY <1>1, ShortSeqs DEF Size
<1>3. ASSUME NEW i \in 1..Len(journal) PROVE Entry(i)'.session # Session'
  <2>1. Entry(i)' = journal[i]
    BY <1>1, <1>3 DEF Entry
  <2>. QED BY <1>1, <2>1 DEF Shape, JournalShape
<1>. QED BY <1>2, <1>3 DEF Mine

-----------------------------------------------------------------------------
(* The numbers of the stream.                                              *)

\* Epochs and frames never go back in a session's stream, and the events of a
\* frame are numbered in their order, ...
NumbersRise ==
  \A i \in 1..Size : \A j \in 1..Size :
    (Mine(i) /\ Mine(j) /\ i < j) =>
      /\ Entry(i).epoch <= Entry(j).epoch /\ Entry(i).frame <= Entry(j).frame
      /\ Entry(i).frame = Entry(j).frame => Entry(i).seq < Entry(j).seq

\* ... and none is beyond the engine's own.
EngineLeads ==
  pc # "down" =>
    \A i \in 1..Size : Mine(i) =>
      /\ Entry(i).epoch <= epochID /\ Entry(i).frame <= frameSequence
      /\ Entry(i).frame = frameSequence => Entry(i).seq <= eventSequence

NumberInv == NumbersRise /\ EngineLeads

\* What a section adds is numbered from `first` on.
LEMMA AddedNumbers ==
  ASSUME NEW epoch, NEW number, NEW first \in Nat, Emits(epoch, number, first), Extends
  PROVE  /\ eventSequence' = first + Len(outbox')
         /\ \A j \in (Size + 1)..Size' : /\ Entry(j)'.epoch = epoch
                                         /\ Entry(j)'.frame = frameSequence'
                                         /\ Entry(j)'.seq = first + (j - Size)
<1>1. eventSequence' = first + Len(outbox')
  BY DEF Emits
<1>2. ASSUME NEW j \in (Size + 1)..Size'
      PROVE  /\ Entry(j)'.epoch = epoch
             /\ Entry(j)'.frame = frameSequence'
             /\ Entry(j)'.seq = first + (j - Size)
  <2>1. j - Size \in 1..Len(outbox')
    BY DEF Extends
  <2>2. outbox'[j - Size].epoch = epoch /\ outbox'[j - Size].seq = first + (j - Size)
    BY <2>1 DEF Emits
  <2>. QED BY <2>2 DEF Extends
<1>. QED BY <1>1, <1>2

LEMMA SectionNumbers ==
  ASSUME Shape, SectionStep, NumberInv
  PROVE  NumberInv'
<1>1. Extends /\ pc # "down" /\ Shape'
  BY SectionStream, SectionShape
     DEF SectionStep, QuietStep, BeginStep, EndStep, ConnStep, GoneStep, Idle
<1>2. Size \in Nat /\ Size' \in Nat /\ Len(outbox') \in Nat
  BY <1>1, StreamParts DEF Extends
<1>3. PICK first \in Nat :
        /\ Emits(epochID, frameSequence', first)
        /\ epochID' >= epochID
        /\ \/ frameSequence' = frameSequence + 1
           \/ frameSequence' = frameSequence /\ first = eventSequence
  <2>1. CASE BeginStep
    <3>1. Emits(epochID, frameSequence', 0) /\ frameSequence' = frameSequence + 1
      BY <2>1 DEF BeginStep
    <3>2. epochID' >= epochID
      BY <2>1 DEF BeginStep, Shape, EngineShape
    <3>. QED BY <3>1, <3>2
  <2>2. CASE ~BeginStep
    <3>1. /\ UNCHANGED <<epochID, frameSequence>>
          /\ Emits(epochID, frameSequence, eventSequence)
      BY <2>2 DEF SectionStep, QuietStep, EndStep, ConnStep, GoneStep
    <3>. QED BY <3>1 DEF Shape, EngineShape
  <2>. QED BY <2>1, <2>2
<1>4. /\ eventSequence' = first + Len(outbox')
      /\ \A j \in (Size + 1)..Size' : /\ Entry(j)'.epoch = epochID
                                      /\ Entry(j)'.frame = frameSequence'
                                      /\ Entry(j)'.seq = first + (j - Size)
  BY <1>1, <1>3, AddedNumbers
<1>5. /\ epochID \in Nat /\ frameSequence \in Nat /\ eventSequence \in Nat
      /\ epochID' \in Nat
  BY <1>1 DEF Shape, EngineShape
<1>6. ASSUME NEW i \in 1..Size', Mine(i)', i <= Size
      PROVE  /\ i \in 1..Size /\ Mine(i) /\ Entry(i)' = Entry(i)
             /\ Entry(i).epoch <= epochID /\ Entry(i).frame <= frameSequence
             /\ Entry(i).frame = frameSequence => Entry(i).seq <= eventSequence
             /\ Entry(i).epoch \in Nat /\ Entry(i).frame \in Nat /\ Entry(i).seq \in Nat
  <2>1. i \in 1..Size /\ Entry(i)' = Entry(i) /\ Session' = Session
    BY <1>1, <1>2, <1>6 DEF Extends
  <2>2. Mine(i)
    BY <1>6, <2>1 DEF Mine
  <2>. QED BY <1>1, <2>1, <2>2, StreamParts DEF NumberInv, EngineLeads
<1>7. NumbersRise'
  <2>. SUFFICES ASSUME NEW i \in 1..Size', NEW j \in 1..Size', Mine(i)', Mine(j)', i < j
                PROVE  /\ Entry(i)'.epoch <= Entry(j)'.epoch
                       /\ Entry(i)'.frame <= Entry(j)'.frame
                       /\ Entry(i)'.frame = Entry(j)'.frame => Entry(i)'.seq < Entry(j)'.seq
    BY DEF NumbersRise
  <2>1. CASE j <= Size
    BY <1>2, <1>6, <2>1 DEF NumberInv, NumbersRise
  <2>2. CASE i <= Size /\ j > Size
    <3>1. j \in (Size + 1)..Size' /\ j - Size > 0
      BY <1>2, <2>2
    <3>2. /\ Entry(i)'.epoch <= epochID /\ Entry(i)'.frame <= frameSequence
          /\ Entry(i)'.frame = frameSequence => Entry(i)'.seq <= eventSequence
          /\ Entry(i)'.frame \in Nat /\ Entry(i)'.seq \in Nat
      BY <1>6, <2>2
    <3>3. /\ Entry(j)'.epoch = epochID /\ Entry(j)'.frame = frameSequence'
          /\ Entry(j)'.seq = first + (j - Size)
      BY <1>4, <3>1
    <3>4. CASE frameSequence' = frameSequence + 1
      BY <1>5, <3>2, <3>3, <3>4
    <3>5. CASE frameSequence' = frameSequence /\ first = eventSequence
      BY <1>2, <1>5, <3>1, <3>2, <3>3, <3>5
    <3>. QED BY <1>3, <3>4, <3>5
  <2>3. CASE i > Size /\ j > Size
    <3>1. i \in (Size + 1)..Size' /\ j \in (Size + 1)..Size'
      BY <1>2, <2>3
    <3>. QED BY <1>2, <1>4, <1>3, <1>5, <3>1
  <2>. QED BY <1>2, <2>1, <2>2, <2>3
<1>8. EngineLeads'
  <2>. SUFFICES ASSUME NEW i \in 1..Size', Mine(i)'
                PROVE  /\ Entry(i)'.epoch <= epochID' /\ Entry(i)'.frame <= frameSequence'
                       /\ Entry(i)'.frame = frameSequence' => Entry(i)'.seq <= eventSequence'
    BY DEF EngineLeads
  <2>1. CASE i <= Size
    <3>1. /\ Entry(i)' = Entry(i)
          /\ Entry(i).epoch <= epochID /\ Entry(i).frame <= frameSequence
          /\ Entry(i).frame = frameSequence => Entry(i).seq <= eventSequence
          /\ Entry(i).epoch \in Nat /\ Entry(i).frame \in Nat /\ Entry(i).seq \in Nat
      BY <1>6, <2>1
    <3>2. eventSequence' = first + Len(outbox')
      BY <1>4
    <3>. QED BY <1>2, <1>3, <1>5, <3>1, <3>2
  <2>2. CASE i > Size
    <3>1. i \in (Size + 1)..Size' /\ i - Size <= Len(outbox')
      BY <1>1, <1>2, <2>2 DEF Extends
    <3>. QED BY <1>2, <1>3, <1>4, <1>5, <3>1
  <2>. QED BY <1>2, <2>1, <2>2
<1>. QED BY <1>7, <1>8 DEF NumberInv

\* A stream that is cut keeps its order.
LEMMA CutNumbers ==
  ASSUME Shape, NumbersRise, Cut
  PROVE  /\ NumbersRise'
         /\ \A i \in 1..Size' : /\ Mine(i)' => Mine(i)
                                /\ i \in 1..Size /\ Entry(i)' = Entry(i)
<1>1. Size \in Nat
  BY StreamParts
<1>2. \A i \in 1..Size' : /\ Mine(i)' => Mine(i)
                          /\ i \in 1..Size /\ Entry(i)' = Entry(i)
  BY <1>1 DEF Cut, Mine
<1>3. NumbersRise'
  BY <1>2 DEF NumbersRise
<1>. QED BY <1>2, <1>3

\* The sink refuses the first event on its way: it is the last number spent.
LEMMA RefusedNumbers ==
  ASSUME Shape, NumberInv, EmitFails
  PROVE  EngineLeads'
<1>1. Cut /\ Len(journal) \in Nat /\ Size \in Nat /\ Len(outbox) \in Nat
  BY CutStream, StreamParts
<1>2. /\ IsSeq(outbox) /\ outbox # << >> /\ outbox' = << >> /\ journal' = journal
      /\ epochID' = Head(outbox).epoch /\ eventSequence' = Head(outbox).seq
      /\ frameSequence' = frameSequence
  BY DEF EmitFails, SinkFails, storeVars, Shape, EngineShape
<1>3. Len(outbox) > 0 /\ Head(outbox) = outbox[1] /\ Size' = Len(journal)
  BY <1>1, <1>2, TailParts, ShortSeqs DEF Size
<1>. DEFINE j == Len(journal) + 1
<1>4. /\ j \in 1..Size /\ Mine(j)
      /\ Entry(j).epoch = epochID' /\ Entry(j).seq = eventSequence'
      /\ Entry(j).frame = frameSequence
  <2>1. j \in 1..Size /\ ~(j <= Len(journal)) /\ j - Len(journal) = 1
    BY <1>1, <1>3 DEF Size
  <2>2. outbox[1].frame = frameSequence
    BY <1>1, <1>3 DEF Shape, EngineShape
  <2>. QED BY <1>2, <1>3, <2>1, <2>2 DEF Entry, Mine
<1>5. ASSUME NEW i \in 1..Size', Mine(i)'
      PROVE  /\ Entry(i)'.epoch <= epochID' /\ Entry(i)'.frame <= frameSequence'
             /\ Entry(i)'.frame = frameSequence' => Entry(i)'.seq <= eventSequence'
  <2>1. i \in 1..Size /\ Mine(i) /\ i < j /\ Entry(i)' = Entry(i)
    BY <1>1, <1>3, <1>5, CutNumbers DEF NumberInv
  <2>2. /\ Entry(i).epoch <= Entry(j).epoch /\ Entry(i).frame <= Entry(j).frame
        /\ Entry(i).frame = Entry(j).frame => Entry(i).seq < Entry(j).seq
    BY <1>4, <2>1 DEF NumberInv, NumbersRise
  <2>3. Entry(i).seq \in Nat /\ Entry(j).seq \in Nat
    BY <1>4, <2>1, StreamParts
  <2>. QED BY <1>2, <1>4, <2>1, <2>2, <2>3
<1>. QED BY <1>5 DEF EngineLeads

LEMMA NumberNext == Shape /\ NumberInv /\ [Next]_vars => NumberInv'
<1>. SUFFICES ASSUME Shape, NumberInv, [Next]_vars PROVE NumberInv'
  OBVIOUS
<1>1. CASE BeginRun
  BY <1>1, NewStream DEF NumberInv, NumbersRise, EngineLeads
<1>2. CASE WorldStep \/ EmitSucceeds
  <2>1. UNCHANGED <<pc, epochID, frameSequence, eventSequence>>
    BY <1>2 DEF WorldStep, engineVars, seqVars, frameVars, EmitSucceeds
  <2>. QED BY <1>2, <2>1, CutStream, CutNumbers DEF NumberInv, EngineLeads
<1>3. CASE EndRun \/ Killed
  <2>1. pc' = "down"
    BY <1>3 DEF EndRun, Killed, Exits, EngineReplaced
  <2>. QED BY <1>3, <2>1, CutStream, CutNumbers DEF NumberInv, EngineLeads
<1>4. CASE EmitFails
  BY <1>4, CutStream, CutNumbers, RefusedNumbers DEF NumberInv
<1>. QED BY <1>1, <1>2, <1>3, <1>4, Steps, SectionNumbers

-----------------------------------------------------------------------------
(* The frames of the stream.                                               *)

Ends(i, n) == Mine(i) /\ Entry(i).frame = n /\ Entry(i).ev.type = "Residual"
Loses(i, n) == Mine(i) /\ Entry(i).frame = n /\ Entry(i).ev.type = "Disappeared"
HasResidual(n) == \E i \in 1..Size : Ends(i, n)
HasGone(n) == \E i \in 1..Size : Loses(i, n)
What(i) == Kind(Entry(i).ev)

\* Every frame but the one in work has its residual, ...
FramesEnded ==
  pc # "down" =>
    /\ \A n \in 1..(frameSequence - 1) : HasResidual(n)
    /\ (pc = "idle" /\ frameSequence > 0) => HasResidual(frameSequence)

\* ... which has none yet, and has lost connections only once all that are
\* there have been seen to; ...
FrameOpen ==
  InFrame =>
    /\ frameSequence > 0 /\ ~HasResidual(frameSequence)
    /\ HasGone(frameSequence) => todo = {} /\ pc \in {"recovery", "steady"}

\* ... what names a connection belongs to a frame, and comes before its
\* residual, and what is there before what is gone.
FrameOrdered ==
  \A j \in 1..Size : (Mine(j) /\ What(j) # "Other") =>
    /\ Entry(j).frame > 0
    /\ \A i \in 1..(j - 1) : ~Ends(i, Entry(j).frame)
    /\ What(j) \in {"New", "Seen"} => \A i \in 1..(j - 1) : ~Loses(i, Entry(j).frame)

FrameInv == FramesEnded /\ FrameOpen /\ FrameOrdered

LEMMA Kinds ==
  /\ \A e : Kind(e) = "New" <=> e.type \in Starts
  /\ \A e : Kind(e) = "Gone" <=> e.type = "Disappeared"
  /\ \A e : Kind(e) = "Residual" <=> e.type = "Residual"
  /\ \A e : e.type \in {"Health", "GapOpened", "GapClosed", "EpochBreak"} /\ e.conn = NoConn
              => Kind(e) = "Other"
  /\ \A e : Kind(e) = "Other" => e.conn = NoConn
  /\ \A e : Kind(e) \in {"New", "Gone", "Residual", "Other", "Seen"}
BY DEF Kind, Starts

\* What was in the stream before a section stays there.
LEMMA ExtendedFrames ==
  ASSUME Shape, Extends
  PROVE  /\ \A i \in 1..Size : \A n : /\ Mine(i)' <=> Mine(i)
                                      /\ Ends(i, n)' <=> Ends(i, n)
                                      /\ Loses(i, n)' <=> Loses(i, n)
         /\ \A n : HasResidual(n) => HasResidual(n)'
         /\ Size \in Nat /\ Size' \in Nat
<1>1. Size \in Nat /\ Size' \in Nat /\ 1..Size \subseteq 1..Size'
  BY StreamParts DEF Extends
<1>2. \A i \in 1..Size : Mine(i)' <=> Mine(i)
  BY <1>1 DEF Extends, Mine
<1>3. ASSUME NEW i \in 1..Size, NEW n
      PROVE  (Ends(i, n)' <=> Ends(i, n)) /\ (Loses(i, n)' <=> Loses(i, n))
  BY <1>2 DEF Extends, Ends, Loses
<1>4. ASSUME NEW n, HasResidual(n) PROVE HasResidual(n)'
  <2>1. PICK i \in 1..Size : Ends(i, n)
    BY <1>4 DEF HasResidual
  <2>2. i \in 1..Size' /\ Ends(i, n)'
    BY <1>1, <1>3, <2>1
  <2>. QED BY <2>2 DEF HasResidual
<1>. QED BY <1>1, <1>2, <1>3, <1>4

\* A section keeps the frames in order if what it adds to a frame is in order.
LEMMA AddedInOrder ==
  ASSUME Shape, Extends, FrameOrdered, NEW n, n = frameSequence',
         \A j \in (Size + 1)..Size' : What(j)' # "Other" =>
           /\ n > 0 /\ ~HasResidual(n)
           /\ What(j)' \in {"New", "Seen"} => ~HasGone(n)
           /\ \A i \in (Size + 1)..(j - 1) :
                /\ Entry(i)'.ev.type # "Residual"
                /\ What(j)' \in {"New", "Seen"} => Entry(i)'.ev.type # "Disappeared"
  PROVE  FrameOrdered'
<1>1. /\ Size \in Nat /\ Size' \in Nat
      /\ \A i \in 1..Size : /\ Mine(i)' <=> Mine(i)
                            /\ \A m : Ends(i, m)' <=> Ends(i, m)
                            /\ \A m : Loses(i, m)' <=> Loses(i, m)
  BY ExtendedFrames
<1>. SUFFICES ASSUME NEW j \in 1..Size', Mine(j)', What(j)' # "Other"
              PROVE  /\ Entry(j)'.frame > 0
                     /\ \A i \in 1..(j - 1) : ~Ends(i, Entry(j).frame)'
                     /\ What(j)' \in {"New", "Seen"} =>
                          \A i \in 1..(j - 1) : ~Loses(i, Entry(j).frame)'
  BY DEF FrameOrdered
<1>2. CASE j <= Size
  <2>1. j \in 1..Size /\ Mine(j) /\ Entry(j)' = Entry(j) /\ What(j)' = What(j)
    BY <1>1, <1>2 DEF Extends, What
  <2>2. \A i \in 1..(j - 1) : i \in 1..Size
    BY <1>1, <1>2
  <2>. QED BY <1>1, <2>1, <2>2 DEF FrameOrdered
<1>3. CASE j > Size
  <2>1. j \in (Size + 1)..Size' /\ Entry(j)'.frame = n
    BY <1>1, <1>3 DEF Extends
  <2>2. ASSUME NEW i \in 1..(j - 1)
        PROVE  /\ ~Ends(i, n)'
               /\ What(j)' \in {"New", "Seen"} => ~Loses(i, n)'
    <3>1. CASE i \in 1..Size
      BY <1>1, <2>1, <3>1 DEF HasResidual, HasGone
    <3>2. CASE i \in (Size + 1)..(j - 1)
      BY <2>1, <3>2 DEF Ends, Loses
    <3>. QED BY <1>1, <3>1, <3>2
  <2>. QED BY <2>1, <2>2
<1>. QED BY <1>1, <1>2, <1>3

\* No event of a frame that has not begun.
LEMMA NothingAhead ==
  ASSUME Shape, NumberInv, pc # "down"
  PROVE  ~HasResidual(frameSequence + 1) /\ ~HasGone(frameSequence + 1)
<1>1. \A i \in 1..Size : Mine(i) => Entry(i).frame <= frameSequence
  BY DEF NumberInv, EngineLeads
<1>. QED BY <1>1 DEF HasResidual, HasGone, Ends, Loses, Shape, EngineShape

LEMMA QuietFrames ==
  ASSUME Shape, NumberInv, FrameInv, SectionStep, QuietStep \/ BeginStep
  PROVE  FrameInv'
<1>1. Extends /\ pc # "down" /\ frameSequence \in Nat
  BY SectionStream DEF QuietStep, BeginStep, Idle, Shape, EngineShape
<1>2. /\ Size \in Nat /\ Size' \in Nat
      /\ \A i \in 1..Size : /\ \A m : Ends(i, m)' <=> Ends(i, m)
                            /\ \A m : Loses(i, m)' <=> Loses(i, m)
      /\ \A m : HasResidual(m) => HasResidual(m)'
  BY <1>1, ExtendedFrames
<1>3. ASSUME NEW j \in (Size + 1)..Size'
      PROVE  /\ What(j)' = "Other"
             /\ Entry(j)'.ev.type \notin {"Residual", "Disappeared"}
  <2>1. j - Size \in 1..Len(outbox') /\ Entry(j)'.ev = outbox'[j - Size].ev
    BY <1>1 DEF Extends
  <2>2. /\ outbox'[j - Size].ev.conn = NoConn
        /\ outbox'[j - Size].ev.type \in {"Health", "GapOpened", "GapClosed", "EpochBreak"}
    BY <2>1 DEF QuietStep, BeginStep, Aside
  <2>. QED BY <2>1, <2>2, Kinds DEF What
<1>4. FrameOrdered'
  <2>1. PICK n : n = frameSequence'
    OBVIOUS
  <2>. QED BY <1>1, <1>3, <2>1, AddedInOrder DEF FrameInv
<1>5. \A m : (HasResidual(m)' => HasResidual(m)) /\ (HasGone(m)' => HasGone(m))
  <2>1. \A i \in 1..Size' : i \in 1..Size \/ i \in (Size + 1)..Size'
    BY <1>2
  <2>2. \A i \in (Size + 1)..Size' : \A m : ~Ends(i, m)' /\ ~Loses(i, m)'
    BY <1>3 DEF Ends, Loses
  <2>. QED BY <1>2, <2>1, <2>2 DEF HasResidual, HasGone
<1>6. CASE BeginStep
  <2>1. /\ pc = "idle" /\ frameSequence' = frameSequence + 1
        /\ pc' \in {"recovery", "steady", "bootstrap"}
    BY <1>6 DEF BeginStep, Idle
  <2>2. \A n \in 1..frameSequence : HasResidual(n)
    BY <1>1, <2>1 DEF FrameInv, FramesEnded
  <2>3. FramesEnded'
    BY <1>1, <1>2, <2>1, <2>2 DEF FramesEnded
  <2>4. FrameOpen'
    <3>1. PICK n : n = frameSequence'
      OBVIOUS
    <3>2. ~HasResidual(n)' /\ ~HasGone(n)'
      BY <1>1, <1>5, <2>1, <3>1, NothingAhead
    <3>. QED BY <1>1, <2>1, <3>1, <3>2 DEF FrameOpen
  <2>. QED BY <1>4, <2>3, <2>4 DEF FrameInv
<1>7. CASE QuietStep
  <2>1. frameSequence' = frameSequence
    BY <1>7 DEF QuietStep
  <2>2. FramesEnded'
    <3>1. pc' = "idle" => pc = "idle"
      BY <1>7 DEF QuietStep
    <3>. QED BY <1>1, <1>2, <2>1, <3>1 DEF FrameInv, FramesEnded
  <2>3. FrameOpen'
    <3>1. CASE InFrame'
      <4>1. pc = "bootstrap" /\ InFrame
        BY <1>7, <3>1 DEF QuietStep, InFrame
      <4>2. /\ frameSequence > 0 /\ ~HasResidual(frameSequence)
            /\ ~HasGone(frameSequence)
        BY <4>1 DEF FrameInv, FrameOpen
      <4>3. PICK n : n = frameSequence
        OBVIOUS
      <4>4. ~HasResidual(n)' /\ ~HasGone(n)'
        BY <1>5, <4>2, <4>3
      <4>. QED BY <2>1, <4>2, <4>3, <4>4 DEF FrameOpen
    <3>. QED BY <3>1 DEF FrameOpen
  <2>. QED BY <1>4, <2>2, <2>3 DEF FrameInv
<1>. QED BY <1>6, <1>7

LEMMA ConnFrames ==
  ASSUME Shape, NumberInv, FrameInv, SectionStep, NEW id \in todo, ConnStep(id)
  PROVE  FrameInv'
<1>1. /\ Extends /\ pc # "down" /\ frameSequence \in Nat /\ InFrame
      /\ frameSequence' = frameSequence /\ pc' = pc
  BY SectionStream DEF ConnStep, InFrame, Shape, EngineShape
<1>2. /\ Size \in Nat /\ Size' \in Nat
      /\ \A i \in 1..Size : /\ \A m : Ends(i, m)' <=> Ends(i, m)
                            /\ \A m : Loses(i, m)' <=> Loses(i, m)
      /\ \A m : HasResidual(m) => HasResidual(m)'
  BY <1>1, ExtendedFrames
<1>3. PICK n : n = frameSequence
  OBVIOUS
<1>4. n > 0 /\ ~HasResidual(n) /\ ~HasGone(n)
  BY <1>1, <1>3 DEF FrameInv, FrameOpen, ConnStep
<1>5. ASSUME NEW j \in (Size + 1)..Size'
      PROVE  Entry(j)'.ev.type \notin {"Residual", "Disappeared"}
  <2>1. j - Size \in 1..Len(outbox') /\ Entry(j)'.ev = outbox'[j - Size].ev
    BY <1>1 DEF Extends
  <2>2. outbox'[j - Size].ev.type \in Touches \cup Starts
    BY <1>1, <2>1 DEF ConnStep, Touched, Begun, Extends, Touches, Starts
  <2>. QED BY <2>1, <2>2 DEF Touches, Starts
<1>6. FrameOrdered'
  BY <1>1, <1>2, <1>3, <1>4, <1>5, AddedInOrder DEF FrameInv
<1>7. ~HasResidual(n)' /\ ~HasGone(n)'
  <2>1. \A i \in 1..Size' : i \in 1..Size \/ i \in (Size + 1)..Size'
    BY <1>2
  <2>. QED BY <1>2, <1>4, <1>5, <2>1 DEF HasResidual, HasGone, Ends, Loses
<1>8. FrameOpen'
  BY <1>1, <1>3, <1>4, <1>7 DEF FrameOpen
<1>9. FramesEnded'
  BY <1>1, <1>2 DEF FrameInv, FramesEnded
<1>. QED BY <1>6, <1>8, <1>9 DEF FrameInv

LEMMA GoneFrames ==
  ASSUME Shape, NumberInv, FrameInv, SectionStep, NEW id \in DOMAIN activeMap, GoneStep(id)
  PROVE  FrameInv'
<1>1. /\ Extends /\ pc # "down" /\ frameSequence \in Nat /\ InFrame
      /\ frameSequence' = frameSequence /\ pc' = pc /\ todo' = todo
      /\ Len(outbox') = 1
  BY SectionStream DEF GoneStep, InFrame, Shape, EngineShape
<1>2. /\ Size \in Nat /\ Size' \in Nat
      /\ \A i \in 1..Size : /\ \A m : Ends(i, m)' <=> Ends(i, m)
                            /\ \A m : Loses(i, m)' <=> Loses(i, m)
      /\ \A m : HasResidual(m) => HasResidual(m)'
  BY <1>1, ExtendedFrames
<1>3. PICK n : n = frameSequence
  OBVIOUS
<1>4. n > 0 /\ ~HasResidual(n)
  BY <1>1, <1>3 DEF FrameInv, FrameOpen
<1>5. ASSUME NEW j \in (Size + 1)..Size'
      PROVE  j = Size + 1 /\ Entry(j)'.ev.type = "Disappeared" /\ What(j)' = "Gone"
  <2>1. /\ j - Size \in 1..Len(outbox') /\ Entry(j)'.ev = outbox'[j - Size].ev
        /\ j = Size + 1
    BY <1>1, <1>2 DEF Extends
  <2>2. outbox'[j - Size].ev.type = "Disappeared"
    BY <1>1, <2>1 DEF GoneStep
  <2>. QED BY <2>1, <2>2, Kinds DEF What
<1>6. FrameOrdered'
  BY <1>1, <1>2, <1>3, <1>4, <1>5, AddedInOrder DEF FrameInv
<1>7. ~HasResidual(n)'
  <2>1. \A i \in 1..Size' : i \in 1..Size \/ i \in (Size + 1)..Size'
    BY <1>2
  <2>. QED BY <1>2, <1>4, <1>5, <2>1 DEF HasResidual, Ends
<1>8. FrameOpen'
  BY <1>1, <1>3, <1>4, <1>7 DEF FrameOpen, GoneStep
<1>9. FramesEnded'
  BY <1>1, <1>2 DEF FrameInv, FramesEnded
<1>. QED BY <1>6, <1>8, <1>9 DEF FrameInv

LEMMA EndFrames ==
  ASSUME Shape, NumberInv, FrameInv, SectionStep, EndStep
  PROVE  FrameInv'
<1>1. /\ Extends /\ pc # "down" /\ frameSequence \in Nat /\ InFrame
      /\ frameSequence' = frameSequence /\ pc' = "idle"
      /\ Len(outbox') = 1
  BY SectionStream DEF EndStep, InFrame, Shape, EngineShape
<1>2. /\ Size \in Nat /\ Size' \in Nat
      /\ \A m : HasResidual(m) => HasResidual(m)'
  BY <1>1, ExtendedFrames
<1>3. PICK n : n = frameSequence
  OBVIOUS
<1>4. n > 0 /\ ~HasResidual(n)
  BY <1>1, <1>3 DEF FrameInv, FrameOpen
<1>5. ASSUME NEW j \in (Size + 1)..Size'
      PROVE  j = Size + 1 /\ Entry(j)'.ev.type = "Residual" /\ What(j)' = "Residual"
  <2>1. /\ j - Size \in 1..Len(outbox') /\ Entry(j)'.ev = outbox'[j - Size].ev
        /\ j = Size + 1
    BY <1>1, <1>2 DEF Extends
  <2>2. outbox'[j - Size].ev.type = "Residual"
    BY <1>1, <2>1 DEF EndStep
  <2>. QED BY <2>1, <2>2, Kinds DEF What
<1>6. FrameOrdered'
  BY <1>1, <1>2, <1>3, <1>4, <1>5, AddedInOrder DEF FrameInv
<1>7. HasResidual(n)'
  <2>. DEFINE j == Size + 1
  <2>1. PICK i : i = Size + 1
    OBVIOUS
  <2>2. i \in (Size + 1)..Size' /\ i \in 1..Size'
    BY <1>1, <1>2, <2>1 DEF Extends
  <2>3. Ends(i, n)'
    BY <1>1, <1>3, <1>5, <2>2 DEF Ends, Mine, Extends
  <2>. QED BY <2>2, <2>3 DEF HasResidual
<1>8. FrameOpen'
  BY <1>1 DEF FrameOpen, InFrame
<1>9. FramesEnded'
  BY <1>1, <1>2, <1>3, <1>7 DEF FrameInv, FramesEnded
<1>. QED BY <1>6, <1>8, <1>9 DEF FrameInv

LEMMA CutFrames ==
  ASSUME Shape, NumberInv, FrameInv,
         WorldStep \/ EndRun \/ Killed \/ EmitSucceeds \/ EmitFails
  PROVE  FrameInv'
<1>1. /\ Cut /\ Size \in Nat /\ Len(journal) \in Nat
      /\ \A i \in 1..Size' : /\ Mine(i)' => Mine(i)
                             /\ i \in 1..Size /\ Entry(i)' = Entry(i)
  BY CutStream, CutNumbers, StreamParts DEF NumberInv
<1>2. \A i \in 1..Size' : /\ \A m : Ends(i, m)' => Ends(i, m)
                          /\ \A m : Loses(i, m)' => Loses(i, m)
  BY <1>1 DEF Ends, Loses
<1>3. FrameOrdered'
  <2>. SUFFICES ASSUME NEW j \in 1..Size', Mine(j)', What(j)' # "Other"
                PROVE  /\ Entry(j)'.frame > 0
                       /\ \A i \in 1..(j - 1) : ~Ends(i, Entry(j).frame)'
                       /\ What(j)' \in {"New", "Seen"} =>
                            \A i \in 1..(j - 1) : ~Loses(i, Entry(j).frame)'
    BY DEF FrameOrdered
  <2>1. j \in 1..Size /\ Mine(j) /\ Entry(j)' = Entry(j) /\ What(j)' = What(j)
    BY <1>1 DEF What
  <2>2. \A i \in 1..(j - 1) : i \in 1..Size'
    BY <1>1, <2>1 DEF Cut
  <2>. QED BY <1>2, <2>1, <2>2 DEF FrameInv, FrameOrdered
<1>4. CASE EndRun \/ Killed
  <2>1. pc' = "down"
    BY <1>4 DEF EndRun, Killed, Exits, EngineReplaced
  <2>. QED BY <1>3, <2>1 DEF FrameInv, FramesEnded, FrameOpen, InFrame
<1>5. CASE WorldStep \/ EmitSucceeds
  <2>1. UNCHANGED <<pc, frameSequence, todo>>
    BY <1>5 DEF WorldStep, engineVars, seqVars, frameVars, EmitSucceeds
  <2>2. Size' = Size
    BY <1>5, TakenStream DEF WorldStep, engineVars, Size
  <2>3. \A m : HasResidual(m) => HasResidual(m)'
    <3>. SUFFICES ASSUME NEW m, NEW i \in 1..Size, Ends(i, m)
                  PROVE  HasResidual(m)'
      BY DEF HasResidual
    <3>1. i \in 1..Size' /\ Ends(i, m)'
      BY <1>1, <2>2 DEF Ends, Mine, Cut
    <3>. QED BY <3>1 DEF HasResidual
  <2>4. \A m : (HasResidual(m)' => HasResidual(m)) /\ (HasGone(m)' => HasGone(m))
    BY <1>1, <1>2 DEF HasResidual, HasGone
  <2>. QED BY <1>3, <2>1, <2>3, <2>4 DEF FrameInv, FramesEnded, FrameOpen, InFrame
<1>6. CASE EmitFails
  <2>1. /\ pc' \in {"failed", "stopped"} /\ frameSequence' = frameSequence
        /\ pc # "down" /\ Size' = Len(journal)
    BY <1>1, <1>6, ShortSeqs
       DEF EmitFails, SinkFails, Shape, EngineShape, storeVars, Size
  <2>2. ASSUME NEW m \in 1..(frameSequence - 1) PROVE HasResidual(m)'
    <3>1. PICK i \in 1..Size : Ends(i, m)
      BY <2>1, <2>2 DEF FrameInv, FramesEnded, HasResidual
    <3>2. i <= Len(journal)
      <4>1. i > Len(journal) => Entry(i).frame = frameSequence
        BY <3>1, StreamParts
      <4>2. Entry(i).frame = m /\ m < frameSequence /\ i \in Nat
        BY <2>2, <3>1 DEF Ends, Shape, EngineShape
      <4>. QED BY <1>1, <4>1, <4>2
    <3>3. i \in 1..Size' /\ Ends(i, m)'
      BY <1>1, <2>1, <3>1, <3>2 DEF Ends, Mine, Cut
    <3>. QED BY <3>3 DEF HasResidual
  <2>. QED BY <1>3, <2>1, <2>2 DEF FrameInv, FramesEnded, FrameOpen, InFrame
<1>. QED BY <1>4, <1>5, <1>6

LEMMA FrameNext == Shape /\ NumberInv /\ FrameInv /\ [Next]_vars => FrameInv'
<1>. SUFFICES ASSUME Shape, NumberInv, FrameInv, [Next]_vars PROVE FrameInv'
  OBVIOUS
<1>1. CASE BeginRun
  <2>1. pc' = "idle" /\ frameSequence' = 0
    BY <1>1 DEF BeginRun, EngineReplaced
  <2>. QED BY <1>1, <2>1, NewStream
           DEF FrameInv, FramesEnded, FrameOpen, FrameOrdered, InFrame
<1>2. CASE SectionStep
  BY <1>2, QuietFrames, ConnFrames, GoneFrames, EndFrames DEF SectionStep
<1>. QED BY <1>1, <1>2, Steps, CutFrames

-----------------------------------------------------------------------------
(* The connections of the stream.                                          *)

Turns(i, epoch, id) ==
  /\ Mine(i) /\ Entry(i).epoch = epoch /\ Entry(i).ev.conn = id
  /\ What(i) \in {"New", "Gone"}
Comes(i, epoch, id) == Turns(i, epoch, id) /\ What(i) = "New"
KnownTo(n, epoch, id) == \E i \in 1..n : Comes(i, epoch, id)
LiveTo(n, epoch, id) ==
  \E i \in 1..n : Comes(i, epoch, id) /\ \A k \in (i + 1)..n : ~Turns(k, epoch, id)

LifeOrderedAt(j, epoch, id) ==
  /\ What(j) = "New" => ~LiveTo(j - 1, epoch, id)
  /\ What(j) = "Gone" => LiveTo(j - 1, epoch, id)
  /\ What(j) = "Seen" => KnownTo(j - 1, epoch, id)

LifeOrdered ==
  \A j \in 1..Size : \A epoch, id :
    (Mine(j) /\ epoch = Entry(j).epoch /\ id = Entry(j).ev.conn)
      => LifeOrderedAt(j, epoch, id)

\* While the engine works its active connections are those that live in the
\* stream, and it buries none the stream does not know.
EngineFollows ==
  (pc = "idle" \/ InFrame) =>
    /\ \A id : LiveTo(Size, epochID, id) <=> id \in DOMAIN activeMap
    /\ \A id \in DOMAIN tombstones : KnownTo(Size, epochID, id)

\* A bootstrap is a frame without a past.
BootstrapState ==
  /\ pc = "idle" =>
       /\ isBootstrapFrame => DOMAIN activeMap = {} /\ ~hasEverBeenHealthy
       /\ gapIsOpen => hasEverBeenHealthy
  /\ pc \in {"bootstrap", "bootstrapped"} => isBootstrapFrame /\ ~gapIsOpen
  /\ pc = "bootstrap" => DOMAIN activeMap \cap todo = {}
  /\ pc \in {"recovery", "steady"} => ~isBootstrapFrame
  /\ pc = "steady" => ~gapIsOpen

LifeInv == LifeOrdered /\ EngineFollows /\ BootstrapState

LEMMA BootstrapNext == Shape /\ BootstrapState /\ [Next]_vars => BootstrapState'
<1>. SUFFICES ASSUME Shape, BootstrapState, [Next]_vars PROVE BootstrapState'
  OBVIOUS
<1>1. CASE WorldStep
  BY <1>1 DEF WorldStep, engineVars, frameVars, connVars, gapVars, seenVars,
              BootstrapState
<1>2. CASE EmitSucceeds
  BY <1>2 DEF EmitSucceeds, frameVars, connVars, gapVars, seenVars, BootstrapState
<1>3. CASE EmitFails
  <2>1. pc' \in {"failed", "stopped"}
    BY <1>3 DEF EmitFails, SinkFails
  <2>. QED BY <2>1 DEF BootstrapState
<1>4. CASE BeginRun \/ EndRun \/ Killed
  <2>1. DOMAIN << >> = {}
    OBVIOUS
  <2>2. /\ pc' \in {"idle", "down"} /\ DOMAIN activeMap' = {}
        /\ ~hasEverBeenHealthy' /\ ~gapIsOpen'
    BY <1>4, <2>1 DEF BeginRun, EndRun, Killed, Exits, EngineReplaced
  <2>. QED BY <2>2 DEF BootstrapState
<1>5. CASE SectionStep
  <2>1. CASE QuietStep
    BY <2>1 DEF QuietStep, BootstrapState
  <2>2. CASE BeginStep
    BY <2>2 DEF BeginStep, BootstrapState, Idle
  <2>3. CASE EndStep
    BY <2>3 DEF EndStep, BootstrapState
  <2>4. ASSUME NEW id \in todo, ConnStep(id) PROVE BootstrapState'
    BY <2>4 DEF ConnStep, Touched, Begun, BootstrapState, gapVars, seenVars
  <2>5. ASSUME NEW id \in DOMAIN activeMap, GoneStep(id) PROVE BootstrapState'
    BY <2>5 DEF GoneStep, BootstrapState, gapVars, seenVars
  <2>. QED BY <1>5, <2>1, <2>2, <2>3, <2>4, <2>5 DEF SectionStep
<1>. QED BY <1>1, <1>2, <1>3, <1>4, <1>5, Steps

\* The past of a stream that is cut or goes on is what it was.
LEMMA SamePast ==
  ASSUME Shape, NEW m \in Nat, m <= Size, m <= Size', Size' \in Nat,
         Session' = Session,
         \A i \in 1..m : Entry(i)' = Entry(i)
  PROVE  /\ \A i \in 1..m : /\ Mine(i)' <=> Mine(i)
                            /\ What(i)' = What(i)
         /\ \A n \in 0..m : \A epoch, id :
              /\ LiveTo(n, epoch, id)' <=> LiveTo(n, epoch, id)
              /\ KnownTo(n, epoch, id)' <=> KnownTo(n, epoch, id)
<1>1. \A i \in 1..m : (Mine(i)' <=> Mine(i)) /\ What(i)' = What(i)
  <2>1. Size \in Nat
    BY StreamParts
  <2>2. \A i \in 1..m : i \in 1..Size /\ i \in 1..Size'
    BY <2>1
  <2>. QED BY <2>2 DEF Mine, What
<1>2. ASSUME NEW i \in 1..m, NEW epoch, NEW id
      PROVE  /\ Turns(i, epoch, id)' <=> Turns(i, epoch, id)
             /\ Comes(i, epoch, id)' <=> Comes(i, epoch, id)
  BY <1>1 DEF Turns, Comes
<1>3. ASSUME NEW n \in 0..m, NEW epoch, NEW id
      PROVE  /\ LiveTo(n, epoch, id)' <=> LiveTo(n, epoch, id)
             /\ KnownTo(n, epoch, id)' <=> KnownTo(n, epoch, id)
  <2>1. 1..n \subseteq 1..m /\ \A i \in 1..n : (i + 1)..n \subseteq 1..m
    OBVIOUS
  <2>. QED BY <1>2, <2>1 DEF LiveTo, KnownTo
<1>. QED BY <1>1, <1>3

LEMMA ExtendedPast ==
  ASSUME Shape, Extends
  PROVE  /\ \A i \in 1..Size : /\ Mine(i)' <=> Mine(i)
                               /\ What(i)' = What(i)
         /\ \A n \in 0..Size : \A epoch, id :
              /\ LiveTo(n, epoch, id)' <=> LiveTo(n, epoch, id)
              /\ KnownTo(n, epoch, id)' <=> KnownTo(n, epoch, id)
<1>1. PICK m : m = Size
  OBVIOUS
<1>2. /\ m \in Nat /\ m <= Size /\ m <= Size' /\ Size' \in Nat /\ Session' = Session
      /\ \A i \in 1..m : Entry(i)' = Entry(i)
  BY <1>1, StreamParts DEF Extends
<1>3. /\ \A i \in 1..m : /\ Mine(i)' <=> Mine(i)
                         /\ What(i)' = What(i)
      /\ \A n \in 0..m : \A epoch, id :
           /\ LiveTo(n, epoch, id)' <=> LiveTo(n, epoch, id)
           /\ KnownTo(n, epoch, id)' <=> KnownTo(n, epoch, id)
  BY <1>2, SamePast
<1>4. ASSUME NEW i \in 1..Size PROVE (Mine(i)' <=> Mine(i)) /\ What(i)' = What(i)
  <2>1. i \in 1..m
    BY <1>1
  <2>. QED BY <1>3, <2>1
<1>5. ASSUME NEW n \in 0..Size, NEW epoch, NEW id
      PROVE  /\ LiveTo(n, epoch, id)' <=> LiveTo(n, epoch, id)
             /\ KnownTo(n, epoch, id)' <=> KnownTo(n, epoch, id)
  <2>1. n \in 0..m
    BY <1>1
  <2>. QED BY <1>3, <2>1
<1>. QED BY <1>4, <1>5

\* Events that are no turn in a connection's life leave it as it was.
LEMMA LifeGoesOn ==
  ASSUME Shape, Extends, NEW n \in Nat, Size <= n, NEW epoch, NEW id
  PROVE  /\ KnownTo(Size, epoch, id) => KnownTo(n, epoch, id)'
         /\ (\A j \in (Size + 1)..n : ~Turns(j, epoch, id)')
              => (LiveTo(n, epoch, id)' <=> LiveTo(Size, epoch, id))
<1>1. PICK m : m = Size
  OBVIOUS
<1>2. m \in Nat /\ m <= n /\ m \in 0..Size
  BY <1>1, StreamParts
<1>3. /\ KnownTo(m, epoch, id)' <=> KnownTo(m, epoch, id)
      /\ LiveTo(m, epoch, id)' <=> LiveTo(m, epoch, id)
  BY <1>2, ExtendedPast
<1>4. ASSUME KnownTo(m, epoch, id)' PROVE KnownTo(n, epoch, id)'
  BY <1>2, <1>4 DEF KnownTo
<1>5. ASSUME \A j \in (m + 1)..n : ~Turns(j, epoch, id)'
      PROVE  LiveTo(n, epoch, id)' <=> LiveTo(m, epoch, id)'
  <2>1. \A i \in 1..n : i \in 1..m \/ i \in (m + 1)..n
    BY <1>2
  <2>2. ASSUME LiveTo(n, epoch, id)' PROVE LiveTo(m, epoch, id)'
    <3>1. PICK i \in 1..n : /\ Comes(i, epoch, id)'
                            /\ \A k \in (i + 1)..n : ~Turns(k, epoch, id)'
      BY <2>2 DEF LiveTo
    <3>2. i \in 1..m /\ \A k \in (i + 1)..m : k \in (i + 1)..n
      BY <1>2, <1>5, <2>1, <3>1 DEF Comes
    <3>. QED BY <3>1, <3>2 DEF LiveTo
  <2>3. ASSUME LiveTo(m, epoch, id)' PROVE LiveTo(n, epoch, id)'
    <3>1. PICK i \in 1..m : /\ Comes(i, epoch, id)'
                            /\ \A k \in (i + 1)..m : ~Turns(k, epoch, id)'
      BY <2>3 DEF LiveTo
    <3>2. i \in 1..n /\ \A k \in (i + 1)..n : k \in (i + 1)..m \/ k \in (m + 1)..n
      BY <1>2
    <3>. QED BY <1>5, <3>1, <3>2 DEF LiveTo
  <2>. QED BY <2>2, <2>3
<1>. QED BY <1>1, <1>3, <1>4, <1>5

LEMMA LiveIsKnown ==
  ASSUME NEW n, NEW epoch, NEW id, LiveTo(n, epoch, id)
  PROVE  KnownTo(n, epoch, id)
BY DEF LiveTo, KnownTo

\* A section keeps the lives in order if it adds to them in order.
LEMMA AddedInLife ==
  ASSUME Shape, Extends, LifeOrdered,
         \A j \in (Size + 1)..Size' : \A epoch, id :
           (epoch = Entry(j)'.epoch /\ id = Entry(j)'.ev.conn)
             => LifeOrderedAt(j, epoch, id)'
  PROVE  LifeOrdered'
<1>1. Size \in Nat /\ Size' \in Nat /\ Size <= Size'
  BY StreamParts DEF Extends
<1>. SUFFICES ASSUME NEW j \in 1..Size', NEW epoch, NEW id, Mine(j)',
                     epoch = Entry(j)'.epoch, id = Entry(j)'.ev.conn
              PROVE  LifeOrderedAt(j, epoch, id)'
  BY DEF LifeOrdered
<1>2. CASE j > Size
  BY <1>1, <1>2
<1>3. CASE j <= Size
  <2>1. /\ \A i \in 1..Size : /\ Mine(i)' <=> Mine(i)
                              /\ What(i)' = What(i)
        /\ \A n \in 0..Size : \A e, c :
             /\ LiveTo(n, e, c)' <=> LiveTo(n, e, c)
             /\ KnownTo(n, e, c)' <=> KnownTo(n, e, c)
    BY ExtendedPast
  <2>2. j \in 1..Size /\ j - 1 \in 0..Size /\ Entry(j)' = Entry(j)
    BY <1>1, <1>3 DEF Extends
  <2>3. LifeOrderedAt(j, epoch, id)
    BY <2>1, <2>2 DEF LifeOrdered
  <2>. QED BY <2>1, <2>2, <2>3 DEF LifeOrderedAt
<1>. QED BY <1>1, <1>2, <1>3

LEMMA CutLife ==
  ASSUME Shape, LifeOrdered, Cut
  PROVE  LifeOrdered'
<1>1. Size \in Nat /\ Size' \in Nat /\ Size' <= Size
  BY StreamParts DEF Cut
<1>2. /\ \A i \in 1..Size' : /\ Mine(i)' <=> Mine(i)
                             /\ What(i)' = What(i)
      /\ \A n \in 0..Size' : \A e, c :
           /\ LiveTo(n, e, c)' <=> LiveTo(n, e, c)
           /\ KnownTo(n, e, c)' <=> KnownTo(n, e, c)
  <2>1. PICK m \in Nat : m = Size'
    BY <1>1
  <2>2. m <= Size /\ m <= Size' /\ Session' = Session /\ \A i \in 1..m : Entry(i)' = Entry(i)
    BY <1>1, <2>1 DEF Cut
  <2>. QED BY <1>1, <2>1, <2>2, SamePast
<1>. SUFFICES ASSUME NEW j \in 1..Size', NEW epoch, NEW id, Mine(j)',
                     epoch = Entry(j)'.epoch, id = Entry(j)'.ev.conn
              PROVE  LifeOrderedAt(j, epoch, id)'
  BY DEF LifeOrdered
<1>3. j \in 1..Size /\ j - 1 \in 0..Size' /\ Entry(j)' = Entry(j)
  BY <1>1 DEF Cut
<1>4. LifeOrderedAt(j, epoch, id)
  BY <1>2, <1>3 DEF LifeOrdered
<1>. QED BY <1>2, <1>3, <1>4 DEF LifeOrderedAt

\* The section of a connection: what it adds is of the current epoch.
LEMMA SectionEntries ==
  ASSUME Shape, Extends, NEW epoch, NEW number, NEW first, Emits(epoch, number, first)
  PROVE  \A j \in (Size + 1)..Size' :
           /\ j - Size \in 1..Len(outbox') /\ Mine(j)'
           /\ Entry(j)'.epoch = epoch
           /\ Entry(j)'.ev = outbox'[j - Size].ev
           /\ What(j)' = Kind(outbox'[j - Size].ev)
<1>1. Size \in Nat /\ Size' \in Nat
  BY StreamParts DEF Extends
<1>. QED BY <1>1 DEF Extends, Emits, Mine, What

\* What turns nobody's life leaves every life as it was.
LEMMA NobodyTurns ==
  ASSUME Shape, Extends,
         \A j \in (Size + 1)..Size' : What(j)' \in {"Other", "Residual"}
  PROVE  /\ LifeOrdered => LifeOrdered'
         /\ \A epoch, id : /\ LiveTo(Size, epoch, id)' <=> LiveTo(Size, epoch, id)
                           /\ KnownTo(Size, epoch, id) => KnownTo(Size, epoch, id)'
<1>1. PICK n : n = Size'
  OBVIOUS
<1>2. n \in Nat /\ Size <= n
  BY <1>1, StreamParts DEF Extends
<1>3. ASSUME NEW epoch, NEW id
      PROVE  /\ LiveTo(n, epoch, id)' <=> LiveTo(Size, epoch, id)
             /\ KnownTo(Size, epoch, id) => KnownTo(n, epoch, id)'
  <2>1. \A j \in (Size + 1)..n : ~Turns(j, epoch, id)'
    BY <1>1 DEF Turns
  <2>. QED BY <1>2, <2>1, LifeGoesOn
<1>4. ASSUME LifeOrdered PROVE LifeOrdered'
  <2>1. \A j \in (Size + 1)..Size' : \A epoch, id : LifeOrderedAt(j, epoch, id)'
    BY DEF LifeOrderedAt
  <2>. QED BY <1>4, <2>1, AddedInLife
<1>5. ASSUME NEW epoch, NEW id
      PROVE  /\ LiveTo(Size, epoch, id)' <=> LiveTo(Size, epoch, id)
             /\ KnownTo(Size, epoch, id) => KnownTo(Size, epoch, id)'
  BY <1>1, <1>3 DEF LiveTo, KnownTo
<1>. QED BY <1>4, <1>5

LEMMA QuietLife ==
  ASSUME Shape, NumberInv, LifeInv, SectionStep, QuietStep \/ BeginStep \/ EndStep
  PROVE  LifeOrdered' /\ EngineFollows'
<1>1. Extends
  BY SectionStream
<1>2. \A j \in (Size + 1)..Size' : What(j)' \in {"Other", "Residual"}
  <2>. SUFFICES ASSUME NEW j \in (Size + 1)..Size' PROVE What(j)' \in {"Other", "Residual"}
    OBVIOUS
  <2>1. j - Size \in 1..Len(outbox') /\ What(j)' = Kind(outbox'[j - Size].ev)
    BY <1>1 DEF Extends, What
  <2>2. \/ outbox'[j - Size].ev.type = "Residual"
        \/ /\ outbox'[j - Size].ev.conn = NoConn
           /\ outbox'[j - Size].ev.type \in {"Health", "GapOpened", "GapClosed", "EpochBreak"}
    <3>1. CASE QuietStep
      BY <2>1, <3>1 DEF QuietStep, Aside
    <3>2. CASE BeginStep
      BY <2>1, <3>2 DEF BeginStep
    <3>3. CASE EndStep
      BY <2>1, <3>3 DEF EndStep
    <3>. QED BY <3>1, <3>2, <3>3
  <2>. QED BY <2>1, <2>2, Kinds
<1>3. /\ LifeOrdered'
      /\ \A epoch, id : /\ LiveTo(Size, epoch, id)' <=> LiveTo(Size, epoch, id)
                        /\ KnownTo(Size, epoch, id) => KnownTo(Size, epoch, id)'
  BY <1>1, <1>2, NobodyTurns DEF LifeInv
<1>4. PICK e : e = epochID'
  OBVIOUS
<1>5. CASE UNCHANGED <<epochID, activeMap, tombstones>> /\ (pc = "idle" \/ InFrame \/ ~(pc = "idle" \/ InFrame)')
  BY <1>3, <1>4, <1>5 DEF LifeInv, EngineFollows
<1>6. CASE BeginStep /\ pc' = "bootstrap"
  <2>1. DOMAIN activeMap' = {} /\ DOMAIN tombstones' = {}
    BY <1>6 DEF BeginStep
  <2>2. ASSUME NEW id PROVE ~LiveTo(Size, e, id)
    <3>1. CASE epochID' = epochID + 1
      <4>1. \A i \in 1..Size : Mine(i) => Entry(i).epoch <= epochID
        BY <1>6 DEF NumberInv, EngineLeads, BeginStep, Idle
      <4>. QED BY <1>4, <3>1, <4>1 DEF LiveTo, Comes, Turns, Shape, EngineShape
    <3>2. CASE epochID' = epochID /\ isBootstrapFrame
      BY <1>4, <1>6, <3>2 DEF LifeInv, BootstrapState, EngineFollows, BeginStep, Idle
    <3>. QED BY <1>6, <3>1, <3>2 DEF BeginStep
  <2>. QED BY <1>3, <1>4, <2>1, <2>2 DEF EngineFollows
<1>7. QuietStep => /\ UNCHANGED <<epochID, activeMap, tombstones>>
                   /\ (pc = "idle" \/ InFrame \/ ~(pc = "idle" \/ InFrame)')
  BY DEF QuietStep, InFrame
<1>8. EndStep => UNCHANGED <<epochID, activeMap, tombstones>> /\ InFrame
  BY DEF EndStep, InFrame
<1>9. BeginStep => \/ pc' = "bootstrap"
                   \/ UNCHANGED <<epochID, activeMap, tombstones>> /\ pc = "idle"
  BY DEF BeginStep, Idle
<1>. QED BY <1>3, <1>5, <1>6, <1>7, <1>8, <1>9

LEMMA TouchedLife ==
  ASSUME Shape, LifeInv, SectionStep, NEW id \in todo, ConnStep(id), Touched(id)
  PROVE  LifeOrdered' /\ EngineFollows'
<1>1. /\ Extends /\ InFrame /\ pc' = pc /\ epochID' = epochID
      /\ Emits(epochID, frameSequence, eventSequence)
      /\ DOMAIN activeMap' = DOMAIN activeMap /\ DOMAIN tombstones' \subseteq DOMAIN tombstones
  BY SectionStream DEF ConnStep, Touched, InFrame
<1>2. PICK e, n, m : e = epochID /\ n = Size' /\ m = Size
  OBVIOUS
<1>3. n \in Nat /\ m \in Nat /\ m <= n
  BY <1>1, <1>2, StreamParts DEF Extends
<1>4. ASSUME NEW j \in (Size + 1)..Size'
      PROVE  /\ Entry(j)'.epoch = e /\ Entry(j)'.ev.conn = id
             /\ What(j)' \in {"Seen", "Other"}
  <2>1. /\ j - Size \in 1..Len(outbox') /\ Entry(j)'.epoch = e
        /\ Entry(j)'.ev = outbox'[j - Size].ev
        /\ What(j)' = Kind(outbox'[j - Size].ev)
    BY <1>1, <1>2, SectionEntries
  <2>2. /\ outbox'[j - Size].ev.conn = id
        /\ outbox'[j - Size].ev.type \in Touches
    BY <2>1 DEF ConnStep, Touched
  <2>. QED BY <2>1, <2>2 DEF Kind, Touches
<1>5. KnownTo(m, e, id)
  BY <1>1, <1>2, LiveIsKnown DEF Touched, LifeInv, EngineFollows
<1>6. LifeOrdered'
  <2>1. ASSUME NEW j \in (Size + 1)..Size', NEW epoch, NEW c,
               epoch = Entry(j)'.epoch, c = Entry(j)'.ev.conn
        PROVE  LifeOrderedAt(j, epoch, c)'
    <3>1. epoch = e /\ c = id
      BY <1>4, <2>1
    <3>2. j - 1 \in Nat /\ Size <= j - 1
      BY <1>2, <1>3
    <3>3. KnownTo(j - 1, e, id)'
      BY <1>1, <1>2, <1>5, <3>2, LifeGoesOn
    <3>. QED BY <1>4, <3>1, <3>3 DEF LifeOrderedAt
  <2>. QED BY <1>1, <2>1, AddedInLife DEF LifeInv
<1>7. ASSUME NEW c PROVE /\ LiveTo(n, e, c)' <=> LiveTo(Size, e, c)
                         /\ KnownTo(Size, e, c) => KnownTo(n, e, c)'
  <2>1. \A j \in (Size + 1)..n : ~Turns(j, e, c)'
    BY <1>2, <1>4 DEF Turns
  <2>. QED BY <1>1, <1>2, <1>3, <2>1, LifeGoesOn
<1>8. EngineFollows'
  <2>1. \A c : /\ LiveTo(Size, epochID, c)' <=> LiveTo(Size, epochID, c)
               /\ KnownTo(Size, epochID, c) => KnownTo(Size, epochID, c)'
    BY <1>1, <1>2, <1>7 DEF LiveTo, KnownTo
  <2>. QED BY <1>1, <2>1 DEF LifeInv, EngineFollows, InFrame
<1>. QED BY <1>6, <1>8

LEMMA BegunLife ==
  ASSUME Shape, LifeInv, SectionStep, NEW id \in todo, ConnStep(id), Begun(id)
  PROVE  LifeOrdered' /\ EngineFollows'
<1>1. /\ Extends /\ InFrame /\ pc' = pc /\ epochID' = epochID
      /\ Emits(epochID, frameSequence, eventSequence)
      /\ DOMAIN activeMap' = DOMAIN activeMap \cup {id}
      /\ DOMAIN tombstones' \subseteq DOMAIN tombstones
  BY SectionStream DEF ConnStep, Begun, InFrame
<1>2. PICK e, n, m : e = epochID /\ n = Size' /\ m = Size
  OBVIOUS
<1>3. n \in Nat /\ m \in Nat /\ m < n /\ n = m + Len(outbox') /\ Len(outbox') \in Nat
  BY <1>1, <1>2, StreamParts DEF Extends, Begun
<1>4. ASSUME NEW j \in (Size + 1)..Size'
      PROVE  /\ Mine(j)' /\ Entry(j)'.epoch = e /\ Entry(j)'.ev.conn = id
             /\ j < n => /\ What(j)' \in {"Seen", "Other"}
                         /\ id \in DOMAIN tombstones
             /\ j = n => What(j)' = "New"
  <2>1. /\ j - Size \in 1..Len(outbox') /\ Entry(j)'.epoch = e /\ Mine(j)'
        /\ Entry(j)'.ev = outbox'[j - Size].ev
        /\ What(j)' = Kind(outbox'[j - Size].ev)
    BY <1>1, <1>2, SectionEntries
  <2>2. outbox'[j - Size].ev.conn = id
    BY <2>1 DEF ConnStep
  <2>3. CASE j < n
    <3>1. j - Size \in 1..(Len(outbox') - 1) /\ Len(outbox') > 1
      BY <1>2, <1>3, <2>1, <2>3
    <3>2. outbox'[j - Size].ev.type = "Health" /\ id \in DOMAIN tombstones
      BY <3>1 DEF Begun
    <3>. QED BY <2>1, <2>2, <2>3, <3>2 DEF Kind
  <2>4. CASE j = n
    <3>1. j - Size = Len(outbox')
      BY <1>2, <1>3, <2>4
    <3>. QED BY <2>1, <2>2, <2>4, <3>1, Kinds DEF Begun
  <2>. QED BY <1>2, <1>3, <2>1, <2>2, <2>3, <2>4
<1>5. id \notin DOMAIN activeMap /\ ~LiveTo(m, e, id)
  BY <1>1, <1>2 DEF Begun, LifeInv, BootstrapState, EngineFollows
<1>6. id \in DOMAIN tombstones => KnownTo(m, e, id)
  BY <1>1, <1>2 DEF LifeInv, EngineFollows
<1>7. LifeOrdered'
  <2>1. ASSUME NEW j \in (Size + 1)..Size', NEW epoch, NEW c,
               epoch = Entry(j)'.epoch, c = Entry(j)'.ev.conn
        PROVE  LifeOrderedAt(j, epoch, c)'
    <3>1. epoch = e /\ c = id
      BY <1>4, <2>1
    <3>2. j - 1 \in Nat /\ Size <= j - 1
      BY <1>2, <1>3
    <3>3. CASE j < n
      <4>1. KnownTo(j - 1, e, id)'
        BY <1>1, <1>2, <1>4, <1>6, <3>2, <3>3, LifeGoesOn
      <4>. QED BY <1>4, <3>1, <3>3, <4>1 DEF LifeOrderedAt
    <3>4. CASE j = n
      <4>1. \A k \in (Size + 1)..(j - 1) : ~Turns(k, e, id)'
        BY <1>2, <1>3, <1>4, <3>4 DEF Turns
      <4>2. ~LiveTo(j - 1, e, id)'
        BY <1>1, <1>2, <1>5, <3>2, <4>1, LifeGoesOn
      <4>. QED BY <1>4, <3>1, <3>4, <4>2 DEF LifeOrderedAt
    <3>. QED BY <1>2, <1>3, <3>3, <3>4
  <2>. QED BY <1>1, <2>1, AddedInLife DEF LifeInv
<1>8. LiveTo(n, e, id)'
  <2>1. n \in (Size + 1)..Size' /\ n \in 1..n
    BY <1>2, <1>3
  <2>2. Comes(n, e, id)'
    BY <1>4, <2>1 DEF Comes, Turns
  <2>. QED BY <1>3, <2>1, <2>2 DEF LiveTo
<1>9. ASSUME NEW c, c # id PROVE LiveTo(n, e, c)' <=> LiveTo(Size, e, c)
  <2>1. \A j \in (Size + 1)..n : ~Turns(j, e, c)'
    BY <1>2, <1>4, <1>9 DEF Turns
  <2>. QED BY <1>1, <1>2, <1>3, <2>1, LifeGoesOn
<1>10. ASSUME NEW c, KnownTo(Size, e, c) PROVE KnownTo(n, e, c)'
  BY <1>1, <1>2, <1>3, <1>10, LifeGoesOn
<1>11. EngineFollows'
  <2>1. /\ LiveTo(Size, epochID, id)'
        /\ \A c : c # id => (LiveTo(Size, epochID, c)' <=> LiveTo(Size, epochID, c))
        /\ \A c : KnownTo(Size, epochID, c) => KnownTo(Size, epochID, c)'
    BY <1>1, <1>2, <1>8, <1>9, <1>10 DEF LiveTo, KnownTo
  <2>. QED BY <1>1, <2>1 DEF LifeInv, EngineFollows, InFrame
<1>. QED BY <1>7, <1>11

LEMMA GoneLife ==
  ASSUME Shape, LifeInv, SectionStep, NEW id \in DOMAIN activeMap, GoneStep(id)
  PROVE  LifeOrdered' /\ EngineFollows'
<1>1. /\ Extends /\ InFrame /\ pc' = pc /\ epochID' = epochID
      /\ Emits(epochID, frameSequence, eventSequence) /\ Len(outbox') = 1
      /\ DOMAIN activeMap' = DOMAIN activeMap \ {id}
      /\ DOMAIN tombstones' \subseteq DOMAIN tombstones \cup {id}
  BY SectionStream DEF GoneStep, InFrame
<1>2. PICK e, n, m : e = epochID /\ n = Size' /\ m = Size
  OBVIOUS
<1>3. n \in Nat /\ m \in Nat /\ n = m + 1
  <2>1. Size \in Nat /\ Size' = Size + Len(outbox') /\ Len(outbox') = 1
    BY <1>1, StreamParts DEF Extends
  <2>. QED BY <1>2, <2>1
<1>4. /\ Mine(n)' /\ Entry(n)'.epoch = e /\ Entry(n)'.ev.conn = id
      /\ What(n)' = "Gone"
  <2>0. n \in (Size + 1)..Size' /\ n - Size = 1
    BY <1>2, <1>3
  <2>1. /\ Entry(n)'.epoch = e /\ Mine(n)' /\ Entry(n)'.ev = outbox'[1].ev
        /\ What(n)' = Kind(outbox'[1].ev)
    BY <1>1, <1>2, <2>0, SectionEntries
  <2>. QED BY <2>1, Kinds DEF GoneStep
<1>5. LiveTo(m, e, id) /\ KnownTo(m, e, id)
  BY <1>1, <1>2, LiveIsKnown DEF LifeInv, EngineFollows
<1>6. \A j : j \in (Size + 1)..Size' => j = n
  BY <1>2, <1>3
<1>7. LifeOrdered'
  <2>1. ASSUME NEW j \in (Size + 1)..Size', NEW epoch, NEW c,
               epoch = Entry(j)'.epoch, c = Entry(j)'.ev.conn
        PROVE  LifeOrderedAt(j, epoch, c)'
    <3>1. epoch = e /\ c = id /\ j = n /\ j - 1 = m
      BY <1>3, <1>4, <1>6, <2>1
    <3>2. m \in Nat /\ Size <= m /\ \A k \in (Size + 1)..m : FALSE
      BY <1>2, <1>3
    <3>3. LiveTo(m, e, id)'
      BY <1>1, <1>2, <1>5, <3>2, LifeGoesOn
    <3>. QED BY <1>4, <3>1, <3>3 DEF LifeOrderedAt
  <2>. QED BY <1>1, <2>1, AddedInLife DEF LifeInv
<1>8. ~LiveTo(n, e, id)'
  <2>1. Turns(n, e, id)' /\ ~Comes(n, e, id)'
    BY <1>4 DEF Turns, Comes
  <2>2. \A i \in 1..n : i = n \/ n \in (i + 1)..n
    BY <1>3
  <2>. QED BY <2>1, <2>2 DEF LiveTo
<1>9. ASSUME NEW c, c # id PROVE LiveTo(n, e, c)' <=> LiveTo(Size, e, c)
  <2>1. \A j \in (Size + 1)..n : ~Turns(j, e, c)'
    BY <1>2, <1>4, <1>6, <1>9 DEF Turns
  <2>. QED BY <1>1, <1>2, <1>3, <2>1, LifeGoesOn
<1>10. ASSUME NEW c, KnownTo(Size, e, c) PROVE KnownTo(n, e, c)'
  BY <1>1, <1>2, <1>3, <1>10, LifeGoesOn
<1>11. EngineFollows'
  <2>1. /\ ~LiveTo(Size, epochID, id)'
        /\ \A c : c # id => (LiveTo(Size, epochID, c)' <=> LiveTo(Size, epochID, c))
        /\ \A c : KnownTo(Size, epochID, c) => KnownTo(Size, epochID, c)'
        /\ KnownTo(Size, epochID, id)
    BY <1>1, <1>2, <1>5, <1>8, <1>9, <1>10 DEF LiveTo, KnownTo
  <2>. QED BY <1>1, <2>1 DEF LifeInv, EngineFollows, InFrame
<1>. QED BY <1>7, <1>11

LEMMA LifeNext == Shape /\ NumberInv /\ LifeInv /\ [Next]_vars => LifeInv'
<1>. SUFFICES ASSUME Shape, NumberInv, LifeInv, [Next]_vars
              PROVE  LifeOrdered' /\ EngineFollows'
  BY BootstrapNext DEF LifeInv
<1>1. CASE BeginRun
  <2>1. /\ epochID' = 1 /\ pc' = "idle"
        /\ DOMAIN activeMap' = {} /\ DOMAIN tombstones' = {}
    <3>1. DOMAIN << >> = {}
      OBVIOUS
    <3>. QED BY <1>1, <3>1 DEF BeginRun, EngineReplaced
  <2>2. \A id : ~LiveTo(Size, epochID, id)'
    BY <1>1, NewStream DEF LiveTo, Comes, Turns
  <2>3. LifeOrdered'
    BY <1>1, NewStream DEF LifeOrdered
  <2>. QED BY <2>1, <2>2, <2>3 DEF EngineFollows
<1>2. CASE EndRun \/ Killed \/ EmitFails
  <2>1. pc' \in {"down", "failed", "stopped"}
    BY <1>2 DEF EndRun, Killed, Exits, EngineReplaced, EmitFails, SinkFails
  <2>. QED BY <1>2, <2>1, CutStream, CutLife DEF LifeInv, EngineFollows, InFrame
<1>3. CASE WorldStep \/ EmitSucceeds
  <2>1. UNCHANGED <<pc, epochID, activeMap, tombstones>>
    BY <1>3 DEF WorldStep, engineVars, seqVars, frameVars, connVars, EmitSucceeds
  <2>2. Cut /\ Size' = Size
    BY <1>3, CutStream, TakenStream DEF WorldStep, engineVars, Size
  <2>3. PICK m, e : m = Size /\ e = epochID
    OBVIOUS
  <2>4. \A id : /\ LiveTo(m, e, id)' <=> LiveTo(m, e, id)
                /\ KnownTo(m, e, id)' <=> KnownTo(m, e, id)
    <3>1. /\ m \in Nat /\ m <= Size /\ m <= Size' /\ Size' \in Nat /\ Session' = Session
          /\ \A i \in 1..m : Entry(i)' = Entry(i)
      BY <2>2, <2>3, StreamParts DEF Cut
    <3>2. m \in 0..m
      BY <3>1
    <3>. QED BY <3>1, <3>2, SamePast
  <2>5. \A id : /\ LiveTo(Size, epochID, id)' <=> LiveTo(Size, epochID, id)
                /\ KnownTo(Size, epochID, id)' <=> KnownTo(Size, epochID, id)
    BY <2>1, <2>2, <2>3, <2>4 DEF LiveTo, KnownTo
  <2>6. LifeOrdered'
    BY <2>2, CutLife DEF LifeInv
  <2>. QED BY <2>1, <2>5, <2>6 DEF LifeInv, EngineFollows, InFrame
<1>4. CASE SectionStep
  <2>1. ASSUME NEW id \in todo, ConnStep(id) PROVE LifeOrdered' /\ EngineFollows'
    BY <1>4, <2>1, TouchedLife, BegunLife DEF ConnStep
  <2>. QED BY <1>4, <2>1, QuietLife, GoneLife DEF SectionStep
<1>. QED BY <1>1, <1>2, <1>3, <1>4, Steps

-----------------------------------------------------------------------------
(* What the projector asks of the stream: rows and gaps.                   *)

\* Connections in work are connections.
TodoShape == todo \subseteq Conn

LEMMA TodoNext == Shape /\ TodoShape /\ [Next]_vars => TodoShape'
<1>. SUFFICES ASSUME Shape, TodoShape, [Next]_vars PROVE TodoShape'
  OBVIOUS
<1>1. CASE FrameArrives
  <2>1. PICK missing \in SUBSET LiveConns : \E R :
          ProcessFrame([ts |-> clock, conns |-> Snapshot(missing),
                        total |-> total, relays |-> R])
    BY <1>1 DEF FrameArrives
  <2>2. todo' = DOMAIN Snapshot(missing)
    BY <2>1 DEF ProcessFrame, StartRecovery, StartEpochBreakAcrossGap, StartEpochBreak,
                StartBootstrap, StartSteady, BeginFrame
  <2>. QED BY <2>2 DEF Snapshot, LiveConns, TodoShape
<1>2. CASE FrameContinues
  <2>1. todo' \subseteq todo
    <3>1. \A section, id : InLoop(section, id) => todo' \subseteq todo
      BY DEF InLoop
    <3>2. ProcessConn => \E section, id : InLoop(section, id)
      BY DEF ProcessConn, BootstrapConn, RecoverBaseline, RecoverKnown, SteadyKnown,
             SteadyRegressed, SteadyReobserved, SteadyNew
    <3>3. CASE ~ProcessConn
      BY <1>2, <3>3 DEF FrameContinues, Disappear, frameVars, EndSteady, EndRecovery,
                        EndBootstrap, EndFrame, EndBootstrapLoop
    <3>. QED BY <3>1, <3>2, <3>3
  <2>. QED BY <2>1 DEF TodoShape
<1>3. CASE BeginRun \/ EndRun \/ Killed \/ EmitFails
  BY <1>3 DEF BeginRun, EndRun, Killed, Exits, EngineReplaced, EmitFails, SinkFails,
              TodoShape
<1>4. CASE StopRun \/ StreamLost \/ Health \/ EmitSucceeds
  BY <1>4 DEF StopRun, Shutdown, StreamLost, GapOpened, Health, CollectorHealth,
              EmitSucceeds, frameVars, TodoShape
<1>5. CASE WorldStep
  BY <1>5 DEF WorldStep, engineVars, frameVars, TodoShape
<1>6. Tick \/ MihomoMoves \/ Rest \/ UNCHANGED vars => WorldStep
  BY WorldSteps
<1>. QED BY <1>1, <1>2, <1>3, <1>4, <1>5, <1>6 DEF Next

\* What updates a row names a connection; and every event of a frame is
\* numbered, from one on.
Updates == {"Delta", "Presence", "MetadataUpdated", "RelayClassificationChanged"}
NamedAt(i) == /\ Entry(i).seq > 0
              /\ Entry(i).ev.type \in Updates => Entry(i).ev.conn # NoConn
Named == \A i \in 1..Size : Mine(i) => NamedAt(i)

LEMMA NamedNext == Shape /\ TodoShape /\ Named /\ [Next]_vars => Named'
<1>. SUFFICES ASSUME Shape, TodoShape, Named, [Next]_vars PROVE Named'
  OBVIOUS
<1>1. CASE BeginRun
  BY <1>1, NewStream DEF Named
<1>2. CASE WorldStep \/ EndRun \/ Killed \/ EmitSucceeds \/ EmitFails
  <2>1. Cut /\ Size \in Nat
    BY <1>2, CutStream, StreamParts
  <2>2. \A i \in 1..Size' : i \in 1..Size /\ (Mine(i)' => Mine(i)) /\ Entry(i)' = Entry(i)
    BY <2>1 DEF Cut, Mine
  <2>. QED BY <2>2 DEF Named, NamedAt
<1>3. CASE SectionStep
  <2>1. Extends /\ Size \in Nat /\ Size' \in Nat
    BY <1>3, SectionStream, StreamParts DEF Extends
  <2>2. PICK first, number : first \in Nat /\ Emits(epochID, number, first)
    <3>1. CASE BeginStep
      <4>1. 0 \in Nat /\ Emits(epochID, frameSequence + 1, 0)
        BY <3>1 DEF BeginStep
      <4>. QED BY <4>1
    <3>2. CASE ~BeginStep
      <4>1. Emits(epochID, frameSequence, eventSequence) /\ eventSequence \in Nat
        BY <1>3, <3>2 DEF SectionStep, QuietStep, EndStep, ConnStep, GoneStep,
                          Shape, EngineShape
      <4>. QED BY <4>1
    <3>. QED BY <3>1, <3>2
  <2>3. \A k \in 1..Len(outbox') :
          outbox'[k].ev.type \in Updates => outbox'[k].ev.conn # NoConn
    <3>1. CASE QuietStep \/ BeginStep \/ EndStep
      BY <3>1 DEF QuietStep, Aside, BeginStep, EndStep, Updates
    <3>2. ASSUME NEW id \in todo, ConnStep(id)
          PROVE  \A k \in 1..Len(outbox') : outbox'[k].ev.conn # NoConn
      <4>1. id \in Nat \ {0}
        BY ConnAssumption DEF TodoShape
      <4>. QED BY <3>2, <4>1 DEF ConnStep, NoConn
    <3>3. CASE \E id \in DOMAIN activeMap : GoneStep(id)
      BY <3>3 DEF GoneStep, Updates
    <3>. QED BY <1>3, <3>1, <3>2, <3>3 DEF SectionStep
  <2>4. ASSUME NEW j \in (Size + 1)..Size' PROVE NamedAt(j)'
    <3>1. /\ j - Size \in 1..Len(outbox') /\ Entry(j)'.ev = outbox'[j - Size].ev
          /\ Entry(j)'.seq = outbox'[j - Size].seq
      BY <2>1 DEF Extends
    <3>2. outbox'[j - Size].seq = first + (j - Size)
      BY <2>2, <3>1 DEF Emits
    <3>3. Entry(j)'.seq > 0
      BY <2>1, <2>2, <3>1, <3>2
    <3>. QED BY <2>3, <3>1, <3>3 DEF NamedAt
  <2>5. ASSUME NEW i \in 1..Size, Mine(i)' PROVE NamedAt(i)'
    <3>1. Entry(i)' = Entry(i) /\ Mine(i)
      BY <2>1, <2>5 DEF Extends, Mine
    <3>. QED BY <3>1 DEF Named, NamedAt
  <2>6. \A i \in 1..Size' : i \in 1..Size \/ i \in (Size + 1)..Size'
    BY <2>1
  <2>. QED BY <2>4, <2>5, <2>6 DEF Named
<1>. QED BY <1>1, <1>2, <1>3, Steps

\* The running session has a gap that a GapClosed may close.
StreamGapOpen == OpenStreamGaps(store.gaps, Session) # {}
Opens(k) == outbox[k].ev.type = "GapOpened"
Closes(k) == outbox[k].ev.type = "GapClosed"

\* A gap the engine has open is open in the store, or about to be; what closes
\* one finds it there, and nothing closes it twice.
GapInv ==
  /\ (pc = "idle" /\ gapIsOpen) => StreamGapOpen \/ \E k \in 1..Len(outbox) : Opens(k)
  /\ \A k \in 1..Len(outbox) : Closes(k) =>
       /\ pc # "idle"
       /\ StreamGapOpen \/ \E m \in 1..(k - 1) : Opens(m)
       /\ \A m \in (1..Len(outbox)) \ {k} : ~Closes(m)

LEMMA SectionGaps ==
  ASSUME Shape, BootstrapState, GapInv, SectionStep
  PROVE  GapInv'
<1>1. outbox = << >> /\ UNCHANGED <<store, sessions>>
  BY DEF SectionStep, QuietStep, BeginStep, EndStep, ConnStep, GoneStep, Idle, Settled,
         storeVars
<1>2. /\ Len(outbox) = 0 /\ Len(outbox') \in Nat
      /\ StreamGapOpen' = StreamGapOpen
  <2>1. Shape'
    BY SectionShape
  <2>. QED BY <1>1, <2>1, ShortSeqs, SeqParts
           DEF Shape, EngineShape, StreamGapOpen, Session
<1>3. (pc = "idle" /\ gapIsOpen) => StreamGapOpen
  BY <1>2 DEF GapInv
<1>4. CASE QuietStep
  <2>1. (pc = "idle" /\ gapIsOpen)' => StreamGapOpen' \/ \E k \in 1..Len(outbox') : Opens(k)'
    <3>1. CASE pc' = "idle" /\ gapIsOpen' /\ ~gapIsOpen
      <4>1. 1 \in 1..Len(outbox') /\ outbox'[1].ev.type = "GapOpened"
        BY <1>4, <3>1 DEF QuietStep
      <4>. QED BY <4>1 DEF Opens
    <3>2. pc' = "idle" => pc = "idle"
      BY <1>4 DEF QuietStep
    <3>. QED BY <1>2, <1>3, <3>1, <3>2
  <2>2. ASSUME NEW k \in 1..Len(outbox'), Closes(k)'
        PROVE  /\ pc' # "idle" /\ k = 2 /\ Opens(1)'
    BY <1>4, <2>2 DEF QuietStep, Aside, Closes, Opens
  <2>. QED BY <2>1, <2>2 DEF GapInv
<1>5. CASE BeginStep
  <2>1. pc = "idle" /\ pc' # "idle"
    BY <1>5 DEF BeginStep, Idle
  <2>2. ASSUME NEW k \in 1..Len(outbox'), Closes(k)' PROVE k = 1 /\ gapIsOpen
    BY <1>5, <2>2 DEF BeginStep, Closes
  <2>. QED BY <1>2, <1>3, <2>1, <2>2 DEF GapInv
<1>6. CASE EndStep
  <2>1. ~gapIsOpen'
    BY <1>6 DEF EndStep, BootstrapState
  <2>2. \A k \in 1..Len(outbox') : ~Closes(k)'
    BY <1>6 DEF EndStep, Closes
  <2>. QED BY <2>1, <2>2 DEF GapInv
<1>7. ASSUME \/ \E id \in todo : ConnStep(id)
             \/ \E id \in DOMAIN activeMap : GoneStep(id)
      PROVE  GapInv'
  <2>1. pc' # "idle"
    BY <1>7 DEF ConnStep, GoneStep
  <2>2. \A k \in 1..Len(outbox') : ~Closes(k)'
    <3>1. ASSUME NEW id \in todo, ConnStep(id)
          PROVE  \A k \in 1..Len(outbox') : outbox'[k].ev.type \in Touches \cup Starts
      BY <1>2, <3>1 DEF ConnStep, Touched, Begun, Touches, Starts
    <3>2. ASSUME NEW id \in DOMAIN activeMap, GoneStep(id)
          PROVE  \A k \in 1..Len(outbox') : outbox'[k].ev.type = "Disappeared"
      BY <3>2 DEF GoneStep
    <3>. QED BY <1>7, <3>1, <3>2 DEF Closes, Touches, Starts
  <2>. QED BY <2>1, <2>2 DEF GapInv
<1>. QED BY <1>4, <1>5, <1>6, <1>7 DEF SectionStep

LEMMA TakenGaps ==
  ASSUME Shape, GapInv, EmitSucceeds
  PROVE  GapInv'
<1>1. UNCHANGED <<pc, gapIsOpen>> /\ Session' = Session
  BY RecordSessions DEF EmitSucceeds, frameVars, gapVars
<1>2. /\ Len(outbox) \in Nat /\ Len(outbox) > 0 /\ Len(outbox') = Len(outbox) - 1
      /\ \A k \in 1..(Len(outbox) - 1) : outbox'[k] = outbox[k + 1]
  BY TakenOutbox, StreamParts
<1>3. /\ Offered.session = Session /\ Offered.ev = outbox[1].ev
      /\ store'.gaps = ProjectGaps(store.gaps, Offered)
  BY TakenOutbox DEF EmitSucceeds, Record, Project
<1>4. \A k \in 1..Len(outbox') :
        /\ k + 1 \in 1..Len(outbox) /\ Opens(k)' = Opens(k + 1) /\ Closes(k)' = Closes(k + 1)
  BY <1>2 DEF Opens, Closes
<1>5. CASE Opens(1)
  <2>1. StreamGap(Offered) \in OpenStreamGaps(store'.gaps, Session)
    BY <1>3, <1>5 DEF Opens, ProjectGaps, StreamGap, OpenStreamGaps
  <2>2. StreamGapOpen'
    BY <1>1, <2>1 DEF StreamGapOpen
  <2>3. ASSUME NEW k \in 1..Len(outbox'), Closes(k)'
        PROVE  /\ pc # "idle"
               /\ \A m \in (1..Len(outbox')) \ {k} : ~Closes(m)'
    <3>1. k + 1 \in 1..Len(outbox) /\ Closes(k + 1)
      BY <1>4, <2>3
    <3>2. \A m \in (1..Len(outbox')) \ {k} : m + 1 \in (1..Len(outbox)) \ {k + 1}
      BY <1>2
    <3>. QED BY <1>4, <3>1, <3>2 DEF GapInv
  <2>. QED BY <1>1, <2>2, <2>3 DEF GapInv
<1>6. CASE Closes(1)
  <2>1. 1 \in 1..Len(outbox)
    BY <1>2
  <2>2. pc # "idle" /\ \A k \in 1..Len(outbox') : ~Closes(k)'
    BY <1>2, <1>4, <1>6, <2>1 DEF GapInv
  <2>. QED BY <1>1, <2>2 DEF GapInv
<1>7. CASE ~Opens(1) /\ ~Closes(1)
  <2>1. StreamGapOpen' = StreamGapOpen
    BY <1>1, <1>3, <1>7 DEF Opens, Closes, ProjectGaps, StreamGapOpen
  <2>2. ASSUME NEW n \in Nat, n <= Len(outbox), NEW m \in 1..n, Opens(m)
        PROVE  \E k \in 1..(n - 1) : Opens(k)'
    <3>1. m - 1 \in 1..Len(outbox') /\ m - 1 \in 1..(n - 1) /\ (m - 1) + 1 = m
      BY <1>2, <1>7, <2>2
    <3>2. Opens(m - 1)'
      BY <1>4, <2>2, <3>1
    <3>. QED BY <3>1, <3>2
  <2>3. (pc = "idle" /\ gapIsOpen)' => StreamGapOpen' \/ \E k \in 1..Len(outbox') : Opens(k)'
    BY <1>1, <1>2, <2>1, <2>2 DEF GapInv
  <2>4. ASSUME NEW k \in 1..Len(outbox'), Closes(k)'
        PROVE  /\ pc # "idle"
               /\ StreamGapOpen' \/ \E m \in 1..(k - 1) : Opens(m)'
               /\ \A m \in (1..Len(outbox')) \ {k} : ~Closes(m)'
    <3>1. /\ k + 1 \in 1..Len(outbox) /\ Closes(k + 1)
          /\ k \in Nat /\ k <= Len(outbox) /\ (k + 1) - 1 = k
      BY <1>2, <1>4, <2>4
    <3>2. \A m \in (1..Len(outbox')) \ {k} : m + 1 \in (1..Len(outbox)) \ {k + 1}
      BY <1>2
    <3>3. StreamGapOpen \/ \E m \in 1..k : Opens(m)
      BY <3>1 DEF GapInv
    <3>. QED BY <1>4, <2>1, <2>2, <3>1, <3>2, <3>3 DEF GapInv
  <2>. QED BY <1>1, <2>3, <2>4 DEF GapInv
<1>. QED BY <1>5, <1>6, <1>7

LEMMA GapNext == Shape /\ BootstrapState /\ GapInv /\ [Next]_vars => GapInv'
<1>. SUFFICES ASSUME Shape, BootstrapState, GapInv, [Next]_vars PROVE GapInv'
  OBVIOUS
<1>1. CASE WorldStep
  BY <1>1 DEF WorldStep, engineVars, frameVars, gapVars, GapInv, StreamGapOpen, Opens,
              Closes, Session
<1>2. CASE BeginRun \/ EndRun \/ Killed \/ EmitFails
  <2>1. Len(outbox') = 0 /\ (pc' # "idle" \/ ~gapIsOpen')
    BY <1>2, ShortSeqs
       DEF BeginRun, EndRun, Killed, Exits, EngineReplaced, EmitFails, SinkFails
  <2>. QED BY <2>1 DEF GapInv
<1>. QED BY <1>1, <1>2, Steps, SectionGaps, TakenGaps

\* What began in the journal has its row in the store.
StartsHaveRows ==
  \A i \in 1..Len(journal) :
    journal[i].ev.type \in Starts => Key(journal[i]) \in DOMAIN store.rows

LEMMA RowsNext == Shape /\ StartsHaveRows /\ [Next]_vars => StartsHaveRows'
<1>. SUFFICES ASSUME Shape, StartsHaveRows, [Next]_vars PROVE StartsHaveRows'
  OBVIOUS
<1>1. CASE UNCHANGED <<journal, store>>
  BY <1>1 DEF StartsHaveRows, Key
<1>2. CASE EmitSucceeds
  <2>1. /\ Len(journal) \in Nat /\ Len(journal') = Len(journal) + 1
        /\ journal'[Len(journal) + 1] = Offered
        /\ \A i \in 1..Len(journal) : journal'[i] = journal[i]
    BY <1>2, TakenOutbox, StreamParts
  <2>2. store'.rows = ProjectRows(store.rows, Offered)
    BY <1>2 DEF EmitSucceeds, Record, Project
  <2>3. /\ DOMAIN store.rows \subseteq DOMAIN store'.rows
        /\ Offered.ev.type \in Starts => Key(Offered) \in DOMAIN store'.rows
    BY <2>2 DEF ProjectRows, BootstrapRow, With, EndObservations, Starts
  <2>. QED BY <2>1, <2>3 DEF StartsHaveRows, Key
<1>3. CASE BeginRun \/ EndRun
  <2>1. journal' = journal
    BY <1>3 DEF BeginRun, BeginSession, FirstSession, NextSession, EndRun, EndSession
  <2>2. DOMAIN store'.rows = DOMAIN store.rows
    <3>1. CASE EndRun
      BY <3>1 DEF EndRun, EndSession, EndObservations, Shape, StoreShape
    <3>2. CASE BeginRun
      <4>1. CASE FirstSession(clock)
        BY <4>1 DEF FirstSession
      <4>2. CASE NextSession(clock)
        <5>1. \A at : DOMAIN EndObservations(store.rows, OfSession(store.rows, Session), at,
                                            "collector_session_interrupted")
                       = DOMAIN store.rows
          BY DEF EndObservations
        <5>2. \/ store'.rows = store.rows
              \/ \E at : store'.rows =
                   EndObservations(store.rows, OfSession(store.rows, Session), at,
                                   "collector_session_interrupted")
          BY <4>2 DEF NextSession
        <5>. QED BY <5>1, <5>2
      <4>. QED BY <3>2, <4>1, <4>2 DEF BeginRun, BeginSession
    <3>. QED BY <1>3, <3>1, <3>2
  <2>. QED BY <2>1, <2>2 DEF StartsHaveRows, Key
<1>4. WorldStep \/ SectionStep \/ Killed \/ EmitFails => UNCHANGED <<journal, store>>
  BY DEF WorldStep, SectionStep, Killed, EmitFails, storeVars
<1>. QED BY <1>1, <1>2, <1>3, <1>4, Steps

-----------------------------------------------------------------------------
(* The inductive invariant.                                                *)

StoreInv == TodoShape /\ Named /\ GapInv /\ StartsHaveRows
IInv == Shape /\ NumberInv /\ FrameInv /\ LifeInv /\ StoreInv

LEMMA InitInv == Init => IInv
<1>. SUFFICES ASSUME Init PROVE IInv
  OBVIOUS
<1>1. /\ Shape /\ pc = "down" /\ journal = << >> /\ outbox = << >> /\ todo = {}
  BY InitShape DEF Init, StoreInit, EngineInit
<1>2. Len(journal) = 0 /\ Len(outbox) = 0 /\ Size = 0
  BY <1>1, ShortSeqs DEF Size
<1>3. NumberInv
  BY <1>1, <1>2 DEF NumberInv, NumbersRise, EngineLeads
<1>4. FrameInv
  BY <1>1, <1>2 DEF FrameInv, FramesEnded, FrameOpen, FrameOrdered, InFrame
<1>5. LifeInv
  BY <1>1, <1>2 DEF LifeInv, LifeOrdered, EngineFollows, BootstrapState, InFrame
<1>6. StoreInv
  BY <1>1, <1>2 DEF StoreInv, TodoShape, Named, GapInv, StartsHaveRows
<1>. QED BY <1>1, <1>3, <1>4, <1>5, <1>6 DEF IInv

LEMMA NextInv == IInv /\ [Next]_vars => IInv'
<1>. SUFFICES ASSUME IInv, [Next]_vars PROVE IInv'
  OBVIOUS
<1>1. Shape' /\ NumberInv' /\ FrameInv' /\ LifeInv'
  BY ShapeNext, NumberNext, FrameNext, LifeNext DEF IInv
<1>2. StoreInv'
  BY TodoNext, NamedNext, GapNext, RowsNext DEF IInv, StoreInv, LifeInv
<1>. QED BY <1>1, <1>2 DEF IInv

THEOREM StreamInOrder == Spec => []IInv
<1>1. Init => IInv
  BY InitInv
<1>2. IInv /\ [Next]_vars => IInv'
  BY NextInv
<1>. QED BY <1>1, <1>2, PTL DEF Spec

-----------------------------------------------------------------------------
(* The store refuses nothing.                                              *)

LEMMA LastOf ==
  ASSUME NEW n \in Nat, NEW T \in SUBSET (1..n), T # {}
  PROVE  \E i \in T : \A j \in T : j <= i
<1>. DEFINE S == {n - i : i \in T}
<1>1. IsWellFoundedOn(OpToRel(<, Nat), Nat)
  BY NatLessThanWellFounded
<1>2. S \in SUBSET Nat /\ S # {}
  <2>1. \A i \in T : n - i \in Nat
    OBVIOUS
  <2>. QED BY <2>1
<1>3. PICK m \in S : \A k \in S : ~(<<k, m>> \in OpToRel(<, Nat))
  BY <1>1, <1>2, WFMin
<1>4. PICK i \in T : m = n - i
  BY <1>3
<1>5. ASSUME NEW j \in T PROVE j <= i
  <2>1. n - j \in S /\ n - j \in Nat /\ m \in Nat
    BY <1>2, <1>4
  <2>2. ~(n - j < m)
    BY <1>3, <2>1 DEF OpToRel
  <2>. QED BY <1>4, <2>2
<1>. QED BY <1>5

\* The event offered is the first of the stream that is not in the journal.
LEMMA OfferedEntry ==
  ASSUME Shape, outbox # << >>, NEW j, j = Len(journal) + 1
  PROVE  /\ j \in 1..Size /\ Mine(j) /\ j \in Nat
         /\ Entry(j) = Offered /\ Offered.session = Session /\ pc # "down"
         /\ Session \in 1..Session /\ Offered.frame = frameSequence
         /\ Offered.epoch \in Nat /\ Offered.seq \in Nat /\ frameSequence \in Nat
         /\ \A i \in 1..Len(journal) : /\ i \in 1..Size /\ i < j /\ Entry(i) = journal[i]
                                       /\ Mine(i) <=> journal[i].session = Session
<1>1. Len(journal) \in Nat /\ Len(outbox) \in Nat /\ Len(outbox) > 0 /\ Size \in Nat
  BY StreamParts
<1>2. Head(outbox) = outbox[1]
  BY TailParts DEF Shape, EngineShape
<1>3. j \in 1..Size /\ ~(j <= Len(journal)) /\ j - Len(journal) = 1
  BY <1>1 DEF Size
<1>4. Entry(j) = Offered /\ Offered.session = Session
  BY <1>2, <1>3 DEF Entry, Offered
<1>5. pc # "down" /\ Session \in 1..Session
  BY SessionCount DEF Shape, EngineShape, SessionsShape
<1>6. /\ Entry(j).frame = frameSequence /\ frameSequence \in Nat
      /\ Entry(j).epoch \in Nat /\ Entry(j).seq \in Nat
  BY <1>1, <1>3, StreamParts DEF Shape, EngineShape
<1>7. ASSUME NEW i \in 1..Len(journal)
      PROVE  /\ i \in 1..Size /\ i < j /\ Entry(i) = journal[i]
             /\ Mine(i) <=> journal[i].session = Session
  <2>1. i \in 1..Size /\ i < j /\ i <= Len(journal)
    BY <1>1 DEF Size
  <2>. QED BY <2>1 DEF Entry, Mine
<1>. QED BY <1>3, <1>4, <1>5, <1>6, <1>7 DEF Mine

LEMMA OffersForward ==
  ASSUME IInv, outbox # << >>
  PROVE  Forward(Offered)
<1>. DEFINE j == Len(journal) + 1
            mine == {i \in DOMAIN journal : journal[i].session = Offered.session}
            last == CHOOSE i \in mine : \A k \in mine : k <= i
<1>1. /\ j \in 1..Size /\ Mine(j) /\ Entry(j) = Offered /\ Offered.session = Session
      /\ Offered.epoch \in Nat /\ Offered.frame \in Nat /\ Offered.seq \in Nat
      /\ \A i \in 1..Len(journal) : /\ i \in 1..Size /\ i < j /\ Entry(i) = journal[i]
                                    /\ Mine(i) <=> journal[i].session = Session
  BY OfferedEntry DEF IInv
<1>2. Len(journal) \in Nat /\ DOMAIN journal = 1..Len(journal)
  BY SeqParts DEF IInv, Shape, JournalShape
<1>3. CASE mine = {}
  <2>1. Offered.seq > 0
    BY <1>1 DEF IInv, StoreInv, Named, NamedAt
  <2>2. Cursor(Offered.session) = <<0, 0, 0>>
    BY <1>3 DEF Cursor
  <2>. QED BY <1>1, <2>1, <2>2 DEF Forward
<1>4. CASE mine # {}
  <2>1. last \in mine
    <3>1. \E i \in mine : \A k \in mine : k <= i
      BY <1>2, <1>4, LastOf
    <3>. QED BY <3>1
  <2>2. Cursor(Offered.session) = <<journal[last].epoch, journal[last].frame, journal[last].seq>>
    BY <1>4 DEF Cursor
  <2>3. last \in 1..Size /\ Mine(last) /\ last < j /\ Entry(last) = journal[last]
    BY <1>1, <1>2, <2>1
  <2>. HIDE DEF last, j
  <2>4. /\ journal[last].epoch <= Offered.epoch /\ journal[last].frame <= Offered.frame
        /\ journal[last].frame = Offered.frame => journal[last].seq < Offered.seq
    BY <1>1, <2>3 DEF IInv, NumberInv, NumbersRise
  <2>5. /\ journal[last].epoch \in Nat /\ journal[last].frame \in Nat
        /\ journal[last].seq \in Nat
    BY <2>3, StreamParts DEF IInv
  <2>. QED BY <1>1, <2>2, <2>4, <2>5 DEF Forward
<1>. QED BY <1>3, <1>4

\* What was known of a connection in the journal has its row.
LEMMA KnownHasRow ==
  ASSUME IInv, NEW n \in Nat, n <= Len(journal), NEW epoch, NEW id,
         KnownTo(n, epoch, id)
  PROVE  <<Session, epoch, id>> \in DOMAIN store.rows
<1>1. Len(journal) \in Nat /\ Len(outbox) \in Nat
  BY StreamParts DEF IInv
<1>2. PICK i \in 1..n : Comes(i, epoch, id)
  BY DEF KnownTo
<1>3. i \in 1..Len(journal) /\ Entry(i) = journal[i]
  BY <1>1 DEF Entry
<1>4. /\ journal[i].session = Session /\ journal[i].epoch = epoch
      /\ journal[i].ev.conn = id /\ journal[i].ev.type \in Starts
  BY <1>2, <1>3, Kinds DEF Comes, Turns, Mine, What
<1>. QED BY <1>3, <1>4 DEF IInv, StoreInv, StartsHaveRows, Key

LEMMA OffersProjectable ==
  ASSUME IInv, outbox # << >>
  PROVE  Projectable(store, Offered)
<1>1. PICK n \in Nat : n = Len(journal)
  BY StreamParts DEF IInv
<1>2. /\ n + 1 \in 1..Size /\ Mine(n + 1) /\ Entry(n + 1) = Offered
      /\ Offered.session = Session
  BY <1>1, OfferedEntry DEF IInv
<1>3. What(n + 1) \in {"Seen", "Gone"} => KnownTo(n, Offered.epoch, Offered.ev.conn)
  <2>1. LifeOrderedAt(n + 1, Offered.epoch, Offered.ev.conn)
    BY <1>2 DEF IInv, LifeInv, LifeOrdered
  <2>2. (n + 1) - 1 = n
    BY <1>1
  <2>. QED BY <2>1, <2>2, LiveIsKnown DEF LifeOrderedAt
<1>4. ASSUME Offered.ev.type \in Updates \cup {"Disappeared"}
      PROVE  Key(Offered) \in DOMAIN store.rows
  <2>1. Offered.ev.type \in Updates => Offered.ev.conn # NoConn
    BY <1>2 DEF IInv, StoreInv, Named, NamedAt
  <2>2. What(n + 1) \in {"Seen", "Gone"}
    BY <1>2, <1>4, <2>1 DEF What, Kind, Updates
  <2>. QED BY <1>1, <1>2, <1>3, <2>2, KnownHasRow DEF Key
<1>5. ASSUME Offered.ev.type = "GapClosed"
      PROVE  OpenStreamGaps(store.gaps, Offered.session) # {}
  <2>1. Len(outbox) > 0 /\ Len(outbox) \in Nat /\ Offered.ev = outbox[1].ev
    BY StreamParts, TailParts DEF IInv, Shape, EngineShape, Offered
  <2>2. 1 \in 1..Len(outbox) /\ Closes(1)
    BY <1>5, <2>1 DEF Closes
  <2>. QED BY <1>2, <2>2 DEF IInv, StoreInv, GapInv, StreamGapOpen
<1>. QED BY <1>4, <1>5 DEF Projectable, Updates

\* NoContractViolation: the engine never offers the store an event it must
\* refuse, whatever was lost, killed or refused before (journal.go 53-75,
\* projector.go 284-523).
THEOREM NothingRefused == Spec => []NoContractViolation
<1>1. IInv => NoContractViolation
  BY OffersForward, OffersProjectable DEF NoContractViolation, Acceptable
<1>. QED BY <1>1, StreamInOrder, PTL

-----------------------------------------------------------------------------
(* Completed frames are on record whole.                                   *)

\* FrameComplete: between two frames the journal holds every frame the session
\* completed, each with one residual that follows all its connections'
\* events (engine.go 676, 797, 1199).
THEOREM FramesAreWhole == Spec => []FrameComplete
<1>1. ASSUME IInv PROVE FrameComplete
  <2>. SUFFICES ASSUME Idle, NEW n \in 1..frameSequence
                PROVE  LET mine == {i \in DOMAIN journal : journal[i].session = Session
                                                            /\ journal[i].frame = n}
                       IN  \E r \in mine :
                             /\ journal[r].ev.type = "Residual"
                             /\ \A i \in mine \ {r} :
                                  /\ journal[i].ev.type # "Residual"
                                  /\ journal[i].ev.conn # NoConn => i < r
    BY DEF FrameComplete
  <2>. DEFINE mine == {i \in DOMAIN journal : journal[i].session = Session
                                               /\ journal[i].frame = n}
  <2>1. /\ Len(journal) \in Nat /\ DOMAIN journal = 1..Len(journal)
        /\ Size = Len(journal) /\ frameSequence \in Nat
    BY <1>1, SeqParts, ShortSeqs
       DEF IInv, Shape, JournalShape, EngineShape, Idle, Settled, Size
  <2>2. \A i \in DOMAIN journal : i \in 1..Size /\ Entry(i) = journal[i]
    BY <2>1 DEF Entry
  <2>3. HasResidual(n)
    BY <1>1, <2>1 DEF IInv, FrameInv, FramesEnded, Idle
  <2>4. PICK r \in 1..Size : Ends(r, n)
    BY <2>3 DEF HasResidual
  <2>5. r \in mine /\ journal[r].ev.type = "Residual"
    BY <2>1, <2>2, <2>4 DEF Ends, Mine
  <2>6. \A i \in mine : i \in 1..Size /\ Mine(i) /\ Entry(i).frame = n /\ Entry(i) = journal[i]
    BY <2>2 DEF Mine
  <2>7. ASSUME NEW i \in mine, What(i) # "Other" PROVE i <= r
    <3>1. \A k \in 1..(i - 1) : ~Ends(k, n)
      BY <1>1, <2>6, <2>7 DEF IInv, FrameInv, FrameOrdered
    <3>. QED BY <2>1, <2>4, <2>6, <3>1
  <2>8. ASSUME NEW i \in mine, i # r, journal[i].ev.type = "Residual" PROVE FALSE
    <3>1. What(i) # "Other" /\ What(r) # "Other" /\ Ends(i, n)
      BY <2>4, <2>6, <2>8, Kinds DEF What, Ends
    <3>2. i <= r
      BY <2>7, <3>1
    <3>3. \A k \in 1..(r - 1) : ~Ends(k, n)
      BY <1>1, <2>4, <3>1 DEF IInv, FrameInv, FrameOrdered, Ends
    <3>. QED BY <2>1, <2>6, <2>8, <3>1, <3>2, <3>3
  <2>9. ASSUME NEW i \in mine, i # r, journal[i].ev.conn # NoConn PROVE i < r
    <3>1. What(i) # "Other"
      BY <2>6, <2>9, Kinds DEF What
    <3>. QED BY <2>1, <2>6, <2>7, <2>9, <3>1
  <2>. QED BY <2>5, <2>8, <2>9
<1>. QED BY <1>1, StreamInOrder, PTL

-----------------------------------------------------------------------------
(* The journal as its readers see it.                                      *)

Log == [i \in DOMAIN journal |-> Told(journal[i])]
Runs == [s \in DOMAIN sessions |-> sessions[s].status = "running"]

LEMMA SameSeq ==
  ASSUME NEW s, NEW t, IsSeq(s), IsSeq(t), Len(s) = Len(t),
         \A i \in 1..Len(s) : s[i] = t[i]
  PROVE  s = t
<1>1. s = [i \in 1..Len(s) |-> s[i]] /\ t = [i \in 1..Len(t) |-> t[i]]
  BY SeqParts
<1>. QED BY <1>1

LEMMA LogParts ==
  ASSUME Shape
  PROVE  /\ IsSeq(Log) /\ Len(Log) = Len(journal) /\ DOMAIN Log = 1..Len(journal)
         /\ \A i \in 1..Len(journal) : Log[i] = Told(journal[i])
         /\ Len(journal) \in Nat
<1>1. Len(journal) \in Nat /\ DOMAIN journal = 1..Len(journal)
  BY SeqParts DEF Shape, JournalShape
<1>2. Log = [i \in 1..Len(journal) |-> Log[i]]
  BY <1>1 DEF Log
<1>3. IsSeq(Log) /\ Len(Log) = Len(journal)
  BY <1>1, <1>2, SeqMade
<1>. QED BY <1>1, <1>3 DEF Log

LEMMA RunsParts ==
  ASSUME Shape
  PROVE  /\ IsSeq(Runs) /\ Len(Runs) = Session /\ DOMAIN Runs = 1..Session
         /\ \A s \in 1..Session : Runs[s] = (sessions[s].status = "running")
         /\ Session \in Nat
<1>1. Session \in Nat /\ DOMAIN sessions = 1..Session
  BY SessionCount
<1>2. Runs = [s \in 1..Session |-> Runs[s]]
  BY <1>1 DEF Runs
<1>3. IsSeq(Runs) /\ Len(Runs) = Session
  BY <1>1, <1>2, SeqMade
<1>. QED BY <1>1, <1>3 DEF Runs

\* The fields of an event as it is told.
LEMMA ToldParts ==
  \A e : /\ Told(e).session = e.session /\ Told(e).epoch = e.epoch
         /\ Told(e).frame = e.frame /\ Told(e).conn = e.ev.conn
         /\ Told(e).type = Kind(e.ev)
         /\ Told(e)["epoch"] = e.epoch /\ Told(e)["frame"] = e.frame
BY DEF Told

\* The events of the running session in the journal.
LEMMA LogEvents ==
  ASSUME IInv, outbox # << >>, NEW n, n = Len(journal)
  PROVE  /\ n \in Nat
         /\ Growth!Events(Log, Session) = {i \in 1..n : Mine(i)}
         /\ \A i \in 1..n : /\ i \in 1..Size /\ Entry(i) = journal[i]
                            /\ Log[i] = Told(Entry(i))
                            /\ Log[i].type = What(i) /\ Log[i].frame = Entry(i).frame
                            /\ Log[i].epoch = Entry(i).epoch
                            /\ Log[i].conn = Entry(i).ev.conn
<1>1. Shape
  BY DEF IInv
<1>2. n \in Nat /\ \A i \in 1..n : /\ i \in 1..Size /\ Entry(i) = journal[i]
                                   /\ Mine(i) <=> journal[i].session = Session
  BY <1>1, LogParts, OfferedEntry
<1>3. \A i \in 1..n : Log[i] = Told(Entry(i))
  BY <1>1, <1>2, LogParts
<1>4. \A i \in 1..n : /\ Log[i].type = What(i) /\ Log[i].frame = Entry(i).frame
                      /\ Log[i].epoch = Entry(i).epoch
                      /\ Log[i].conn = Entry(i).ev.conn
                      /\ Log[i].session = Entry(i).session
  BY <1>3, ToldParts DEF What
<1>5. Growth!Events(Log, Session) = {i \in 1..n : Mine(i)}
  <2>1. DOMAIN Log = 1..n
    BY <1>1, LogParts
  <2>. QED BY <1>2, <1>4, <2>1 DEF Growth!Events
<1>. QED BY <1>2, <1>3, <1>4, <1>5

LEMMA LatestIs ==
  ASSUME IInv, outbox # << >>, NEW n, n = Len(journal)
  PROVE  \/ /\ \A i \in 1..n : ~Mine(i)
            /\ Growth!Latest(Log, Session, "frame") = 0
            /\ Growth!Latest(Log, Session, "epoch") = 0
         \/ \E last \in 1..n :
              /\ Mine(last) /\ \A i \in 1..n : Mine(i) => i <= last
              /\ Growth!Latest(Log, Session, "frame") = Entry(last).frame
              /\ Growth!Latest(Log, Session, "epoch") = Entry(last).epoch
<1>. DEFINE mine == {i \in 1..n : Mine(i)}
            last == CHOOSE i \in mine : \A k \in mine : k <= i
<1>1. /\ n \in Nat /\ Growth!Events(Log, Session) = mine
      /\ \A i \in 1..n : Log[i] = Told(Entry(i))
  BY LogEvents
<1>2. CASE mine = {}
  BY <1>1, <1>2 DEF Growth!Latest
<1>3. CASE mine # {}
  <2>1. \E i \in mine : \A k \in mine : k <= i
    BY <1>1, <1>3, LastOf
  <2>2. last \in mine /\ \A k \in mine : k <= last
    BY <2>1
  <2>3. \A field : Growth!Latest(Log, Session, field) = Log[last][field]
    BY <1>1, <1>3 DEF Growth!Latest
  <2>4. /\ Growth!Latest(Log, Session, "frame") = Entry(last).frame
        /\ Growth!Latest(Log, Session, "epoch") = Entry(last).epoch
    <3>1. Log[last] = Told(Entry(last))
      BY <1>1, <2>2
    <3>. QED BY <2>3, <3>1, ToldParts
  <2>. HIDE DEF last
  <2>. QED BY <2>2, <2>4
<1>. QED BY <1>2, <1>3

LEMMA LifeInLog ==
  ASSUME IInv, outbox # << >>, NEW n, n = Len(journal),
         NEW e, e.session = Session
  PROVE  /\ KnownTo(n, e.epoch, e.conn) => Growth!Known(Log, e)
         /\ Growth!Live(Log, e) <=> LiveTo(n, e.epoch, e.conn)
<1>. DEFINE life == Growth!Life(Log, e)
<1>1. n \in Nat
  BY LogEvents
<1>2. life = {i \in 1..n : Turns(i, e.epoch, e.conn)}
  <2>1. Growth!Events(Log, Session) = {i \in 1..n : Mine(i)}
    BY LogEvents
  <2>2. ASSUME NEW i \in 1..n
        PROVE  Turns(i, e.epoch, e.conn) <=>
                 Mine(i) /\ Log[i].epoch = e.epoch /\ Log[i].type \in {"New", "Gone"}
                   /\ Log[i].conn = e.conn
    BY LogEvents DEF Turns
  <2>. QED BY <2>1, <2>2 DEF Growth!Life
<1>3. \A i \in 1..n : Comes(i, e.epoch, e.conn) <=> i \in life /\ Log[i].type = "New"
  BY <1>2, LogEvents DEF Comes
<1>. HIDE DEF life
<1>4. Growth!Live(Log, e) <=> LiveTo(n, e.epoch, e.conn)
  <2>1. ASSUME NEW i \in life, Log[i].type = "New", \A j \in life : j <= i
        PROVE  LiveTo(n, e.epoch, e.conn)
    <3>1. i \in 1..n /\ Comes(i, e.epoch, e.conn)
      BY <1>2, <1>3, <2>1
    <3>2. \A k \in (i + 1)..n : ~Turns(k, e.epoch, e.conn)
      BY <1>1, <1>2, <2>1, <3>1
    <3>. QED BY <3>1, <3>2 DEF LiveTo
  <2>2. ASSUME NEW i \in 1..n, Comes(i, e.epoch, e.conn),
               \A k \in (i + 1)..n : ~Turns(k, e.epoch, e.conn)
        PROVE  Growth!Live(Log, e)
    <3>1. i \in life /\ Log[i].type = "New"
      BY <1>3, <2>2
    <3>2. ASSUME NEW j \in life PROVE j <= i
      BY <1>1, <1>2, <2>2
    <3>. QED BY <3>1, <3>2 DEF Growth!Live, life
  <2>. QED BY <2>1, <2>2 DEF Growth!Live, LiveTo, life
<1>5. KnownTo(n, e.epoch, e.conn) => Growth!Known(Log, e)
  BY <1>3 DEF Growth!Known, KnownTo, life
<1>. QED BY <1>4, <1>5

LEMMA FrameInLog ==
  ASSUME IInv, outbox # << >>, NEW n, n = Len(journal), NEW m
  PROVE  /\ Growth!Finished(Log, Session, m) <=> \E i \in 1..n : Ends(i, m)
         /\ Growth!InFrame(Log, Session, m, "Gone") <=> \E i \in 1..n : Loses(i, m)
<1>1. \A i \in 1..n : /\ i \in Growth!Events(Log, Session) <=> Mine(i)
                      /\ Log[i].type = What(i) /\ Log[i].frame = Entry(i).frame
  BY LogEvents
<1>2. Growth!Events(Log, Session) \subseteq 1..n
  BY LogEvents
<1>3. \A i \in 1..n : /\ What(i) = "Residual" <=> Entry(i).ev.type = "Residual"
                      /\ What(i) = "Gone" <=> Entry(i).ev.type = "Disappeared"
  BY Kinds DEF What
<1>4. Growth!InFrame(Log, Session, m, "Residual") <=> \E i \in 1..n : Ends(i, m)
  BY <1>1, <1>2, <1>3 DEF Growth!InFrame, Ends
<1>5. Growth!InFrame(Log, Session, m, "Gone") <=> \E i \in 1..n : Loses(i, m)
  BY <1>1, <1>2, <1>3 DEF Growth!InFrame, Loses
<1>. QED BY <1>4, <1>5 DEF Growth!Finished

LEMMA OffersInFrame ==
  ASSUME IInv, outbox # << >>
  PROVE  Growth!InFrameOrder(Told(Offered))
<1>. DEFINE e == Told(Offered)
            latest == Growth!Latest(Log, Session, "frame")
<1>1. PICK n, j : n = Len(journal) /\ j = n + 1
  OBVIOUS
<1>2. /\ n \in Nat /\ j \in 1..Size /\ Mine(j) /\ Entry(j) = Offered
      /\ Offered.session = Session /\ pc # "down"
      /\ Offered.frame = frameSequence /\ frameSequence \in Nat
  BY <1>1, OfferedEntry, LogEvents DEF IInv
<1>3. /\ e.session = Session /\ e.frame = frameSequence /\ e.type = What(j)
  BY <1>2, ToldParts DEF What
<1>4. e.type # "Other" =>
        /\ frameSequence > 0
        /\ \A i \in 1..n : ~Ends(i, frameSequence)
        /\ e.type \in {"New", "Seen"} => \A i \in 1..n : ~Loses(i, frameSequence)
  <2>1. 1..n = 1..(j - 1)
    BY <1>1, <1>2
  <2>. QED BY <1>2, <1>3, <2>1 DEF IInv, FrameInv, FrameOrdered
<1>5. ASSUME NEW m \in 1..(frameSequence - 1)
      PROVE  \E i \in 1..n : Ends(i, m)
  <2>1. PICK i \in 1..Size : Ends(i, m)
    BY <1>2, <1>5 DEF IInv, FrameInv, FramesEnded, HasResidual
  <2>2. m # frameSequence
    BY <1>2
  <2>3. i <= n
    <3>1. i > Len(journal) => Entry(i).frame = frameSequence
      BY <2>1, StreamParts DEF IInv
    <3>2. Entry(i).frame = m /\ i \in Nat
      BY <2>1 DEF Ends
    <3>. QED BY <1>1, <1>2, <2>2, <3>1, <3>2
  <2>. QED BY <1>2, <2>1, <2>3
<1>6. \A m : /\ Growth!Finished(Log, Session, m) <=> \E i \in 1..n : Ends(i, m)
             /\ Growth!InFrame(Log, Session, m, "Gone") <=> \E i \in 1..n : Loses(i, m)
  BY <1>1, FrameInLog
<1>7. /\ latest \in Nat /\ latest <= frameSequence
      /\ \A m \in 1..(frameSequence - 1) : m <= latest
  <2>1. CASE (\A i \in 1..n : ~Mine(i)) /\ latest = 0
    <3>1. \A m \in 1..(frameSequence - 1) : FALSE
      BY <1>5, <2>1 DEF Ends
    <3>. QED BY <1>2, <2>1, <3>1
  <2>2. ASSUME NEW last \in 1..n, Mine(last), \A i \in 1..n : Mine(i) => i <= last,
               latest = Entry(last).frame
        PROVE  /\ latest \in Nat /\ latest <= frameSequence
               /\ \A m \in 1..(frameSequence - 1) : m <= latest
    <3>1. last \in 1..Size /\ \A i \in 1..n : i \in 1..Size
      BY <1>1, LogEvents
    <3>2. latest \in Nat /\ latest <= frameSequence
      BY <1>2, <2>2, <3>1, StreamParts DEF IInv, NumberInv, EngineLeads
    <3>3. ASSUME NEW m \in 1..(frameSequence - 1) PROVE m <= latest
      <4>1. PICK i \in 1..n : Ends(i, m)
        BY <1>5
      <4>2. Mine(i) /\ Entry(i).frame = m /\ i <= last /\ i \in 1..Size
        BY <2>2, <3>1, <4>1 DEF Ends
      <4>3. i = last \/ i < last
        BY <4>2
      <4>. QED BY <2>2, <3>1, <3>2, <4>2, <4>3 DEF IInv, NumberInv, NumbersRise
    <3>. QED BY <3>2, <3>3
  <2>. QED BY <1>1, <2>1, <2>2, LatestIs
<1>8. Log = [i \in DOMAIN journal |-> Told(journal[i])]
  BY DEF Log
<1>. HIDE DEF e, latest
<1>9. CASE latest = frameSequence
  BY <1>3, <1>4, <1>6, <1>8, <1>9 DEF Growth!InFrameOrder, e, latest
<1>10. CASE latest # frameSequence
  <2>1. frameSequence = latest + 1
    <3>1. frameSequence - 1 \in 1..(frameSequence - 1) \/ frameSequence = 1
      BY <1>2, <1>7, <1>10
    <3>. QED BY <1>2, <1>7, <1>10, <3>1
  <2>2. latest = 0 \/ Growth!Finished(Log, Session, latest)
    BY <1>2, <1>5, <1>6, <1>7, <2>1
  <2>. QED BY <1>3, <1>8, <2>1, <2>2 DEF Growth!InFrameOrder, e, latest
<1>. QED BY <1>9, <1>10 DEF e

LEMMA OffersInLife ==
  ASSUME IInv, outbox # << >>
  PROVE  Growth!InLifeOrder(Told(Offered))
<1>. DEFINE e == Told(Offered)
<1>1. PICK n, j : n = Len(journal) /\ j = n + 1
  OBVIOUS
<1>2. /\ n \in Nat /\ j \in 1..Size /\ Mine(j) /\ Entry(j) = Offered /\ j - 1 = n
      /\ Offered.session = Session
  BY <1>1, OfferedEntry, LogEvents DEF IInv
<1>3. e.session = Session /\ e.epoch = Offered.epoch /\ e.conn = Offered.ev.conn
      /\ e.type = What(j)
  BY <1>2, ToldParts DEF What
<1>4. LifeOrderedAt(j, e.epoch, e.conn)
  BY <1>2, <1>3 DEF IInv, LifeInv, LifeOrdered
<1>5. /\ KnownTo(n, e.epoch, e.conn) => Growth!Known(Log, e)
      /\ Growth!Live(Log, e) <=> LiveTo(n, e.epoch, e.conn)
  BY <1>1, <1>3, LifeInLog
<1>6. Log = [i \in DOMAIN journal |-> Told(journal[i])]
  BY DEF Log
<1>. HIDE DEF e
<1>7. Growth!InLifeOrder(e)
  <2>1. /\ e.type = "New" => ~Growth!Live(Log, e)
        /\ e.type = "Gone" => Growth!Live(Log, e)
        /\ e.type = "Seen" => Growth!Known(Log, e)
    BY <1>2, <1>3, <1>4, <1>5 DEF LifeOrderedAt
  <2>2. CASE e.type = "New"
    BY <1>6, <2>1, <2>2 DEF Growth!InLifeOrder
  <2>3. CASE e.type = "Gone"
    BY <1>6, <2>1, <2>3 DEF Growth!InLifeOrder
  <2>4. CASE e.type = "Seen"
    BY <1>6, <2>1, <2>4 DEF Growth!InLifeOrder
  <2>5. CASE e.type \notin {"New", "Gone", "Seen"}
    BY <2>5 DEF Growth!InLifeOrder
  <2>. QED BY <2>2, <2>3, <2>4, <2>5
<1>. QED BY <1>7 DEF e

LEMMA OffersMayFollow ==
  ASSUME IInv, outbox # << >>
  PROVE  Growth!MayFollow(Told(Offered))
<1>. DEFINE e == Told(Offered)
<1>1. PICK n : n = Len(journal)
  OBVIOUS
<1>2. /\ n + 1 \in 1..Size /\ Mine(n + 1) /\ Entry(n + 1) = Offered /\ n \in Nat
      /\ Offered.session = Session /\ pc # "down" /\ Session \in 1..Session
      /\ Offered.epoch \in Nat
  BY <1>1, OfferedEntry, LogEvents DEF IInv
<1>3. e.session = Session /\ e.epoch = Offered.epoch
  BY <1>2, ToldParts
<1>4. /\ Len(Runs) = Session /\ Session > 0 /\ Runs[Session] /\ Session \in Nat
  BY <1>2, RunsParts DEF IInv, Shape, SessionsShape, Running
<1>5. e.epoch >= Growth!Latest(Log, Session, "epoch")
  <2>1. ASSUME NEW last \in 1..n, Mine(last) PROVE Entry(last).epoch <= Offered.epoch
    <3>1. last \in 1..Size /\ last < n + 1
      BY <1>1, <1>2, LogEvents
    <3>. QED BY <1>2, <2>1, <3>1 DEF IInv, NumberInv, NumbersRise
  <2>2. ASSUME NEW last \in 1..n PROVE Entry(last).epoch \in Nat
    BY <1>1, LogEvents, StreamParts DEF IInv
  <2>. QED BY <1>1, <1>2, <1>3, <2>1, <2>2, LatestIs
<1>6. Growth!InFrameOrder(e) /\ Growth!InLifeOrder(e)
  BY OffersInFrame, OffersInLife
<1>7. /\ Log = [i \in DOMAIN journal |-> Told(journal[i])]
      /\ Runs = [s \in DOMAIN sessions |-> sessions[s].status = "running"]
  BY DEF Log, Runs
<1>. HIDE DEF e
<1>8. Growth!Current = Session
  BY <1>4, <1>7 DEF Growth!Current
<1>. QED BY <1>3, <1>4, <1>5, <1>6, <1>7, <1>8 DEF Growth!MayFollow, e

-----------------------------------------------------------------------------
(* The journal grows as promised.                                          *)

LEMMA TakenLog ==
  ASSUME IInv, EmitSucceeds
  PROVE  Growth!GrowthNext
<1>. DEFINE e == Told(Offered)
<1>1. Shape /\ Shape' /\ outbox # << >>
  BY TakenShape DEF IInv, EmitSucceeds, SinkTakes
<1>2. /\ Len(journal') = Len(journal) + 1 /\ journal'[Len(journal) + 1] = Offered
      /\ \A i \in 1..Len(journal) : journal'[i] = journal[i]
  BY <1>1, TakenOutbox
<1>3. /\ IsSeq(Log) /\ Len(Log) = Len(journal) /\ Len(journal) \in Nat
      /\ \A i \in 1..Len(journal) : Log[i] = Told(journal[i])
  BY <1>1, LogParts
<1>4. PICK l : l = Log'
  OBVIOUS
<1>5. /\ IsSeq(l) /\ Len(l) = Len(journal') /\ DOMAIN l = 1..Len(journal')
      /\ \A i \in 1..Len(journal') : l[i] = Told(journal'[i])
  <2>1. Log' = [i \in DOMAIN journal' |-> Told(journal'[i])]
    BY DEF Log, Told
  <2>2. IsSeq(journal') /\ DOMAIN journal' = 1..Len(journal') /\ Len(journal') \in Nat
    BY <1>1, SeqParts DEF Shape, JournalShape
  <2>3. l = [i \in 1..Len(journal') |-> l[i]]
    BY <1>4, <2>1, <2>2
  <2>4. IsSeq(l) /\ Len(l) = Len(journal')
    BY <2>2, <2>3, SeqMade
  <2>. QED BY <1>4, <2>1, <2>2, <2>4
<1>6. l[Len(l)] = e
  BY <1>2, <1>3, <1>5
<1>. HIDE DEF e
<1>7. l = Append(Log, e)
  <2>1. /\ IsSeq(Append(Log, e)) /\ Len(Append(Log, e)) = Len(Log) + 1
        /\ Append(Log, e)[Len(Log) + 1] = e
        /\ \A i \in 1..Len(Log) : Append(Log, e)[i] = Log[i]
    BY <1>3, AppendParts
  <2>2. ASSUME NEW i \in 1..Len(l) PROVE l[i] = Append(Log, e)[i]
    <3>1. CASE i = Len(l)
      BY <1>2, <1>3, <1>5, <1>6, <2>1, <3>1
    <3>2. CASE i # Len(l)
      <4>1. i \in 1..Len(journal) /\ i \in 1..Len(journal')
        BY <1>2, <1>3, <1>5, <3>2
      <4>. QED BY <1>2, <1>3, <1>5, <2>1, <4>1
    <3>. QED BY <3>1, <3>2
  <2>. QED BY <1>2, <1>3, <1>5, <2>1, <2>2, SameSeq
<1>8. Runs' = Runs
  <2>1. /\ Len(sessions') = Session /\ IsSeq(sessions')
        /\ \A s \in 1..Session : sessions'[s].status = sessions[s].status
    BY <1>1, RecordSessions DEF Session
  <2>2. DOMAIN sessions' = 1..Session /\ DOMAIN sessions = 1..Session
    BY <1>1, <2>1, SeqParts, SessionCount
  <2>. QED BY <2>1, <2>2 DEF Runs
<1>9. Growth!MayFollow(e)
  BY <1>1, OffersMayFollow DEF e
<1>10. Growth!Last(l) = e /\ Len(l) = Len(Log) + 1
  BY <1>2, <1>3, <1>5, <1>6 DEF Growth!Last
<1>11. /\ Log = [i \in DOMAIN journal |-> Told(journal[i])]
       /\ Log' = [i \in DOMAIN journal |-> Told(journal[i])]'
       /\ Runs = [s \in DOMAIN sessions |-> sessions[s].status = "running"]
       /\ Runs' = [s \in DOMAIN sessions |-> sessions[s].status = "running"]'
  BY DEF Log, Runs
<1>12. Growth!Appends(Growth!Last(l))
  BY <1>4, <1>7, <1>8, <1>9, <1>10, <1>11 DEF Growth!Appends
<1>. QED BY <1>4, <1>10, <1>11, <1>12 DEF Growth!GrowthNext

LEMMA LogUnfolds ==
  /\ Log = [i \in DOMAIN journal |-> Told(journal[i])]
  /\ Runs = [s \in DOMAIN sessions |-> sessions[s].status = "running"]
BY DEF Log, Runs

LEMMA BegunRuns ==
  ASSUME Shape, BeginRun
  PROVE  Growth!GrowthNext
<1>. DEFINE ended == [s \in DOMAIN Runs |-> FALSE]
<1>1. /\ IsSeq(sessions') /\ Session' = Session + 1 /\ Session \in Nat
      /\ \A s \in 1..Session : sessions'[s].status # "running"
      /\ sessions'[Session + 1].status = "running"
  BY BeginSessions, SessionCount
<1>2. DOMAIN sessions' = 1..(Session + 1)
  BY <1>1, SeqParts DEF Session
<1>3. PICK r : r = Runs'
  OBVIOUS
<1>4. /\ IsSeq(r) /\ Len(r) = Session + 1
      /\ \A s \in 1..(Session + 1) : r[s] = (sessions'[s].status = "running")
  <2>1. r = [s \in 1..(Session + 1) |-> sessions'[s].status = "running"]
    BY <1>2, <1>3 DEF Runs
  <2>2. r = [s \in 1..(Session + 1) |-> r[s]]
    BY <2>1
  <2>3. Session + 1 \in Nat
    BY <1>1
  <2>4. IsSeq(r) /\ Len(r) = Session + 1
    BY <2>2, <2>3, SeqMade
  <2>. QED BY <2>1, <2>4
<1>5. DOMAIN Runs = 1..Session
  BY RunsParts
<1>6. IsSeq(ended) /\ Len(ended) = Session /\ \A s \in 1..Session : ended[s] = FALSE
  <2>1. ended = [s \in 1..Session |-> ended[s]]
    BY <1>5
  <2>2. IsSeq(ended) /\ Len(ended) = Session
    BY <1>1, <2>1, SeqMade
  <2>. QED BY <1>5, <2>2
<1>. HIDE DEF ended
<1>7. r = Append(ended, TRUE)
  <2>1. /\ IsSeq(Append(ended, TRUE)) /\ Len(Append(ended, TRUE)) = Session + 1
        /\ Append(ended, TRUE)[Session + 1] = TRUE
        /\ \A s \in 1..Session : Append(ended, TRUE)[s] = ended[s]
    <3>1. PICK t : t = TRUE
      OBVIOUS
    <3>2. /\ IsSeq(Append(ended, t)) /\ Len(Append(ended, t)) = Session + 1
          /\ Append(ended, t)[Session + 1] = t
          /\ \A s \in 1..Session : Append(ended, t)[s] = ended[s]
      BY <1>6, AppendParts
    <3>. QED BY <3>1, <3>2
  <2>2. ASSUME NEW s \in 1..(Session + 1) PROVE r[s] = Append(ended, TRUE)[s]
    <3>1. CASE s = Session + 1
      BY <1>1, <1>4, <2>1, <3>1
    <3>2. CASE s # Session + 1
      <4>1. s \in 1..Session
        BY <1>1, <3>2
      <4>2. r[s] = FALSE
        BY <1>1, <1>4, <4>1
      <4>. QED BY <1>6, <2>1, <4>1, <4>2
    <3>. QED BY <3>1, <3>2
  <2>. QED BY <1>4, <2>1, <2>2, SameSeq
<1>8. Log' = Log
  BY DEF BeginRun, BeginSession, FirstSession, NextSession, Log
<1>9. /\ Log' = [i \in DOMAIN journal |-> Told(journal[i])]'
      /\ Runs' = [s \in DOMAIN sessions |-> sessions[s].status = "running"]'
  BY DEF Log, Runs
<1>. QED BY <1>3, <1>7, <1>8, <1>9, LogUnfolds DEF Growth!GrowthNext, Growth!Begins, ended

LEMMA EndedRuns ==
  ASSUME Shape, EndRun
  PROVE  Growth!GrowthNext
<1>1. /\ Session \in 1..Session /\ IsSeq(sessions') /\ Session' = Session
      /\ sessions'[Session].status # "running"
      /\ \A s \in 1..(Session - 1) : sessions'[s] = sessions[s]
  BY EndSessions
<1>2. /\ DOMAIN sessions' = 1..Session /\ DOMAIN sessions = 1..Session
      /\ Session \in Nat
  BY <1>1, SeqParts, SessionCount DEF Session
<1>3. pc # "down" /\ Running(Session)
  BY DEF EndRun, Shape, SessionsShape
<1>4. PICK r : r = Runs'
  OBVIOUS
<1>5. r = [s \in 1..Session |-> sessions'[s].status = "running"]
  BY <1>2, <1>4 DEF Runs
<1>6. Runs = [s \in 1..Session |-> sessions[s].status = "running"]
  BY <1>2 DEF Runs
<1>7. r = [Runs EXCEPT ![Session] = FALSE]
  <2>1. ASSUME NEW s \in 1..Session
        PROVE  r[s] = [Runs EXCEPT ![Session] = FALSE][s]
    <3>1. CASE s = Session
      <4>1. r[s] = FALSE
        BY <1>1, <1>5, <3>1
      <4>2. [Runs EXCEPT ![Session] = FALSE][s] = FALSE
        BY <1>1, <1>6, <3>1
      <4>. QED BY <4>1, <4>2
    <3>2. CASE s # Session
      <4>1. s \in 1..(Session - 1)
        BY <1>2, <3>2
      <4>2. r[s] = Runs[s]
        BY <1>1, <1>5, <1>6, <4>1
      <4>3. [Runs EXCEPT ![Session] = FALSE][s] = Runs[s]
        BY <1>6, <3>2
      <4>. QED BY <4>2, <4>3
    <3>. QED BY <3>1, <3>2
  <2>. QED BY <1>5, <1>6, <2>1
<1>8. Len(Runs) = Session /\ Runs[Session] /\ Session > 0
  <2>1. Len(Runs) = Session /\ Session > 0
    BY <1>1, <1>2, RunsParts
  <2>2. sessions[Session].status = "running"
    BY <1>3 DEF Running
  <2>3. Runs[Session]
    BY <1>1, <1>6, <2>2
  <2>. QED BY <2>1, <2>3
<1>9. Growth!Current = Session
  BY <1>8, LogUnfolds DEF Growth!Current
<1>10. Log' = Log
  BY DEF EndRun, EndSession, Log
<1>11. /\ Log' = [i \in DOMAIN journal |-> Told(journal[i])]'
       /\ Runs' = [s \in DOMAIN sessions |-> sessions[s].status = "running"]'
  BY DEF Log, Runs
<1>. QED BY <1>4, <1>7, <1>8, <1>9, <1>10, <1>11, LogUnfolds
         DEF Growth!GrowthNext, Growth!Ends

LEMMA QuietLog ==
  ASSUME Shape, WorldStep \/ SectionStep \/ Killed \/ EmitFails
  PROVE  UNCHANGED Growth!growthVars
<1>1. Log' = Log
  BY DEF WorldStep, SectionStep, Killed, EmitFails, storeVars, Log
<1>2. Runs' = Runs
  <2>1. CASE WorldStep
    <3>1. DOMAIN sessions' = 1..Session /\ DOMAIN sessions = 1..Session
      BY <2>1, SeqParts, SessionCount DEF WorldStep
    <3>. QED BY <2>1, <3>1 DEF WorldStep, Runs
  <2>2. CASE SectionStep \/ Killed \/ EmitFails
    BY <2>2 DEF SectionStep, Killed, EmitFails, storeVars, Runs
  <2>. QED BY <2>1, <2>2
<1>3. /\ Log' = [i \in DOMAIN journal |-> Told(journal[i])]'
      /\ Runs' = [s \in DOMAIN sessions |-> sessions[s].status = "running"]'
  BY DEF Log, Runs
<1>. QED BY <1>1, <1>2, <1>3, LogUnfolds DEF Growth!growthVars

\* GrowsAsPromised: the collector, killed, refused and restarted in whatever
\* order, keeps the order of the journal that its readers rely on (engine.go
\* 515-1215, journal.go 53-75; accounting_v2.go 1165-1172 states the premise).
THEOREM JournalGrows == Spec => GrowsAsPromised
<1>1. Init => Growth!GrowthInit
  <2>. SUFFICES ASSUME Init PROVE Growth!GrowthInit
    OBVIOUS
  <2>1. journal = << >> /\ sessions = << >>
    BY DEF Init, StoreInit
  <2>. QED BY <2>1 DEF Growth!GrowthInit
<1>2. IInv /\ [Next]_vars => [Growth!GrowthNext]_(Growth!growthVars)
  BY Steps, TakenLog, BegunRuns, EndedRuns, QuietLog DEF IInv
<1>. QED BY <1>1, <1>2, StreamInOrder, PTL DEF Spec, GrowsAsPromised, Growth!GrowthSpec

-----------------------------------------------------------------------------
(* What the sections of a frame do to the connections they are about, and  *)
(* what their events say of them.                                          *)

ConnState == [start : Nat, meta : Meta, last : Counter, cum : Counter,
              base : Counter, class : Class, observedAt : Nat, evidenceAt : Nat]
FrameConn == [start : Nat, ctr : Counter, meta : Meta]

\* The engine's connections, those of the frame at hand and Mihomo's are of
\* their types.
ConnsTyped ==
  /\ conns \in [Conn -> [live : BOOLEAN, start : Nat, ctr : Counter, meta : Meta]]
  /\ DOMAIN frame.conns \subseteq Conn /\ todo \subseteq DOMAIN frame.conns
  /\ \A id \in DOMAIN frame.conns : frame.conns[id] \in FrameConn
  /\ \A id \in DOMAIN activeMap : activeMap[id] \in ConnState
  /\ \A id \in DOMAIN tombstones : tombstones[id].state \in ConnState

\* An engine works on one frame at a moment, and emits while it does.
Moment ==
  /\ clock \in Nat /\ clock > 0
  /\ InFrame => frame.ts = clock
  /\ \A id \in DOMAIN activeMap : activeMap[id].observedAt <= clock
  /\ \A k \in 1..Len(outbox) :
       /\ outbox[k].ev.ts = clock
       /\ outbox[k].ev.type = "Disappeared" => outbox[k].ev.from \in 0..clock

LEMMA CounterTypes ==
  /\ Zero \in Counter
  /\ \A f, g \in Counter : Plus(f, g) \in Counter /\ Monus(f, g) \in Counter
  /\ \A f, g \in Counter : ~Positive(g) => Plus(f, g) = f
<1>1. /\ Zero \in Counter
      /\ \A f, g \in Counter : Plus(f, g) \in Counter /\ Monus(f, g) \in Counter
  BY DEF Counter, Zero, Plus, Monus
<1>2. ASSUME NEW f \in Counter, NEW g \in Counter, ~Positive(g)
      PROVE  Plus(f, g) = f
  <2>1. \A d \in Dir : g[d] = 0 /\ f[d] \in Nat
    BY <1>2 DEF Positive, Counter
  <2>2. Plus(f, g) = [d \in Dir |-> f[d]]
    BY <2>1 DEF Plus
  <2>. QED BY <2>2 DEF Counter
<1>. QED BY <1>1, <1>2

LEMMA ClassTypes ==
  /\ \A m : InitialClass(m) \in Class
  /\ \A id : ClassInFrame(id) \in Class
BY DEF InitialClass, ClassInFrame, Class, Confirmed

\* What events of a frame say of a connection's bytes and class is so.
Fits(events, cum, class) ==
  \A k \in 1..Len(events) :
    /\ events[k].ts = frame.ts
    /\ events[k].type = "Delta" => events[k].cum = cum
    /\ events[k].type = "RelayClassificationChanged" => events[k].class = class
Has(events, type) == \E k \in 1..Len(events) : events[k].type = type

LEMMA FitsNone ==
  ASSUME NEW cum, NEW class
  PROVE  Fits(<< >>, cum, class)
BY ShortSeqs DEF Fits

LEMMA FitsOne ==
  ASSUME NEW cum, NEW class, NEW e, e.ts = frame.ts,
         e.type = "Delta" => e.cum = cum,
         e.type = "RelayClassificationChanged" => e.class = class
  PROVE  IsSeq(<<e>>) /\ Fits(<<e>>, cum, class) /\ Has(<<e>>, e.type)
BY ShortSeqs DEF Fits, Has

LEMMA FitsConcat ==
  ASSUME NEW cum, NEW class, NEW s, NEW t, IsSeq(s), IsSeq(t)
  PROVE  /\ IsSeq(s \o t)
         /\ Fits(s, cum, class) /\ Fits(t, cum, class) => Fits(s \o t, cum, class)
         /\ \A type : Has(s, type) \/ Has(t, type) => Has(s \o t, type)
<1>1. /\ Len(s) \in Nat /\ Len(t) \in Nat /\ Len(s \o t) = Len(s) + Len(t)
      /\ \A k \in 1..Len(s) : (s \o t)[k] = s[k]
      /\ \A k \in 1..Len(t) : (s \o t)[Len(s) + k] = t[k]
      /\ IsSeq(s \o t)
  <2>1. Len(s) \in Nat /\ Len(t) \in Nat
    BY SeqParts
  <2>. QED BY <2>1, ConcatParts
<1>2. ASSUME Fits(s, cum, class), Fits(t, cum, class), NEW k \in 1..Len(s \o t)
      PROVE  /\ (s \o t)[k].ts = frame.ts
             /\ (s \o t)[k].type = "Delta" => (s \o t)[k].cum = cum
             /\ (s \o t)[k].type = "RelayClassificationChanged"
                  => (s \o t)[k].class = class
  <2>1. CASE k \in 1..Len(s)
    BY <1>1, <1>2, <2>1 DEF Fits
  <2>2. CASE k \notin 1..Len(s)
    <3>1. k - Len(s) \in 1..Len(t) /\ k = Len(s) + (k - Len(s))
      BY <1>1, <2>2
    <3>2. (s \o t)[k] = t[k - Len(s)]
      BY <1>1, <3>1
    <3>. QED BY <1>2, <3>1, <3>2 DEF Fits
  <2>. QED BY <2>1, <2>2
<1>3. ASSUME NEW type, NEW k \in 1..Len(s), s[k].type = type PROVE Has(s \o t, type)
  <2>1. k \in 1..Len(s \o t) /\ (s \o t)[k] = s[k]
    BY <1>1
  <2>. QED BY <1>3, <2>1 DEF Has
<1>4. ASSUME NEW type, NEW k \in 1..Len(t), t[k].type = type PROVE Has(s \o t, type)
  <2>1. Len(s) + k \in 1..Len(s \o t) /\ (s \o t)[Len(s) + k] = t[k]
    BY <1>1
  <2>. QED BY <1>4, <2>1 DEF Has
<1>5. Fits(s, cum, class) /\ Fits(t, cum, class) => Fits(s \o t, cum, class)
  BY <1>2 DEF Fits
<1>6. \A type : Has(s, type) \/ Has(t, type) => Has(s \o t, type)
  BY <1>3, <1>4 DEF Has
<1>. QED BY <1>1, <1>5, <1>6

LEMMA EventValues ==
  ASSUME NEW type, NEW ts, NEW id
  PROVE  /\ HealthEvent(ts, id).ts = ts /\ Event(type, ts).ts = ts
         /\ \A st, delta : /\ ConnEvent(type, ts, id, st, delta).ts = ts
                           /\ ConnEvent(type, ts, id, st, delta).cum = st.cum
                           /\ ConnEvent(type, ts, id, st, delta).base = st.base
                           /\ ConnEvent(type, ts, id, st, delta).class = st.class
BY DEF HealthEvent, Event, ConnEvent

LEMMA MetaEventsFit ==
  ASSUME NEW id, NEW prev, NEW cum, NEW class
  PROVE  IsSeq(MetaEvents(id, prev)) /\ Fits(MetaEvents(id, prev), cum, class)
<1>. DEFINE m == frame.conns[id].meta
            h == HealthEvent(frame.ts, id)
            up == [Event("MetadataUpdated", frame.ts) EXCEPT !.conn = id]
            s == IF m.chains # prev.meta.chains THEN <<h>> ELSE << >>
            t == IF m # prev.meta THEN <<up>> ELSE << >>
<1>1. h.ts = frame.ts /\ h.type = "Health" /\ up.ts = frame.ts /\ up.type = "MetadataUpdated"
  BY DEF HealthEvent, Event
<1>2. MetaEvents(id, prev) = s \o t
  BY DEF MetaEvents
<1>. HIDE DEF h, up
<1>3. Fits(<<h>>, cum, class) /\ Fits(<<up>>, cum, class) /\ Fits(<< >>, cum, class)
  BY <1>1, FitsOne, FitsNone
<1>4. Fits(s, cum, class) /\ IsSeq(s) /\ Fits(t, cum, class) /\ IsSeq(t)
  BY <1>3, ShortSeqs
<1>. HIDE DEF s, t
<1>. QED BY <1>2, <1>4, FitsConcat

LEMMA TrafficFits ==
  ASSUME NEW id, NEW prev, NEW st, NEW delta, NEW from, NEW class
  PROVE  /\ Fits(DeltaOrPresence(prev, id, st, delta, from), st.cum, class)
         /\ Positive(delta) => Has(DeltaOrPresence(prev, id, st, delta, from), "Delta")
<1>. DEFINE d == [ConnEvent("Delta", frame.ts, id, st, delta) EXCEPT
                    !.from = from, !.to = IF from = NoTime THEN NoTime ELSE frame.ts]
            p == [Event("Presence", frame.ts) EXCEPT
                    !.conn = id, !.start = st.start, !.counter = st.last]
<1>1. /\ d.ts = frame.ts /\ d.type = "Delta" /\ d.cum = st.cum
      /\ p.ts = frame.ts /\ p.type = "Presence"
  BY DEF ConnEvent, Event
<1>2. /\ DeltaOrPresence(prev, id, st, delta, from) \in {<<d>>, << >>, <<p>>}
      /\ Positive(delta) => DeltaOrPresence(prev, id, st, delta, from) = <<d>>
  BY DEF DeltaOrPresence
<1>. HIDE DEF d, p
<1>3. Fits(<<d>>, st.cum, class) /\ Fits(<<p>>, st.cum, class) /\ Has(<<d>>, "Delta")
  BY <1>1, FitsOne, FitsNone
<1>. QED BY <1>2, <1>3, FitsOne, FitsNone

\* One connection's section, with what it makes of that connection.
ConnValues(id) ==
  /\ ConnStep(id) /\ UNCHANGED frame
  /\ \A x \in DOMAIN activeMap : x # id => activeMap'[x] = activeMap[x]
  /\ \A x \in DOMAIN tombstones' : x \in DOMAIN tombstones /\ tombstones'[x] = tombstones[x]
  /\ activeMap'[id] \in ConnState /\ activeMap'[id].observedAt <= clock
  /\ \A k \in 1..Len(outbox') :
       LET e  == outbox'[k].ev
           st == activeMap'[id]
       IN  /\ e.ts = clock
           /\ e.type = "Delta" => e.cum = st.cum
           /\ e.type = "RelayClassificationChanged" => e.class = st.class
           /\ e.type \in Starts => e.cum = st.cum /\ e.base = st.base /\ e.class = st.class
           /\ e.type = "Bootstrap" => e.cum = Zero
  /\ Touched(id) =>
       /\ activeMap'[id].base = activeMap[id].base
       /\ activeMap'[id].cum = activeMap[id].cum
            \/ \E k \in 1..Len(outbox') : outbox'[k].ev.type = "Delta"
       /\ activeMap'[id].class = activeMap[id].class
            \/ \E k \in 1..Len(outbox') :
                 outbox'[k].ev.type = "RelayClassificationChanged"

LEMMA TouchValues ==
  ASSUME Moment, NEW id, ConnStep(id), Touched(id), UNCHANGED <<frame, tombstones>>,
         NEW st \in ConnState, st.observedAt <= clock,
         activeMap' = [activeMap EXCEPT ![id] = st],
         NEW events, IsSeq(events), Fits(events, st.cum, st.class), Emit(events),
         st.base = activeMap[id].base,
         st.cum = activeMap[id].cum \/ Has(events, "Delta"),
         st.class = activeMap[id].class \/ Has(events, "RelayClassificationChanged")
  PROVE  ConnValues(id)
<1>1. Len(outbox') = Len(events) /\ \A k \in 1..Len(events) : outbox'[k].ev = events[k]
  BY EmitParts
<1>2. id \in DOMAIN activeMap /\ activeMap'[id] = st
      /\ \A x \in DOMAIN activeMap : x # id => activeMap'[x] = activeMap[x]
  BY DEF Touched
<1>3. frame.ts = clock
  BY DEF ConnStep, Moment, InFrame
<1>4. ASSUME NEW k \in 1..Len(outbox')
      PROVE  LET e == outbox'[k].ev
             IN  /\ e.ts = clock
                 /\ e.type = "Delta" => e.cum = st.cum
                 /\ e.type = "RelayClassificationChanged" => e.class = st.class
                 /\ e.type \notin Starts
  BY <1>1, <1>3 DEF Fits, Touched, Touches, Starts
<1>5. \A type : Has(events, type) => \E k \in 1..Len(outbox') : outbox'[k].ev.type = type
  BY <1>1 DEF Has
<1>6. \A k \in 1..Len(outbox') : outbox'[k].ev.type # "Bootstrap"
  BY <1>4 DEF Starts
<1>. QED BY <1>2, <1>4, <1>5, <1>6 DEF ConnValues

\* The last event of a section that begins a connection names its state, the
\* others are about its health.
LEMMA BeginValues ==
  ASSUME Moment, NEW id, ConnStep(id), UNCHANGED frame,
         \A x \in DOMAIN tombstones' : x \in DOMAIN tombstones /\ tombstones'[x] = tombstones[x],
         pc = "bootstrap" \/ id \notin DOMAIN activeMap,
         NEW st \in ConnState, st.observedAt <= clock,
         activeMap' = With(activeMap, id, st),
         NEW before, IsSeq(before),
         \A k \in 1..Len(before) : before[k].type = "Health" /\ before[k].ts = frame.ts,
         NEW e, e.type \in Starts, e.ts = frame.ts, Emit(before \o <<e>>),
         e.cum = st.cum, e.base = st.base, e.class = st.class,
         e.type = "Bootstrap" => e.cum = Zero
  PROVE  ConnValues(id)
<1>1. /\ Len(outbox') = Len(before) + 1 /\ outbox'[Len(before) + 1].ev = e
      /\ \A k \in 1..Len(before) : outbox'[k].ev = before[k]
      /\ Len(before) \in Nat
  <2>. DEFINE events == before \o <<e>>
  <2>0. Len(before) \in Nat
    BY SeqParts
  <2>1. /\ IsSeq(events) /\ Len(events) = Len(before) + 1
        /\ events[Len(before) + 1] = e
        /\ \A k \in 1..Len(before) : events[k] = before[k]
    <3>1. IsSeq(<<e>>) /\ Len(<<e>>) = 1 /\ <<e>>[1] = e
      BY ShortSeqs
    <3>. QED BY <2>0, <3>1, ConcatParts
  <2>2. Emit(events)
    OBVIOUS
  <2>. HIDE DEF events
  <2>3. Len(outbox') = Len(events) /\ \A k \in 1..Len(events) : outbox'[k].ev = events[k]
    BY <2>1, <2>2, EmitParts
  <2>. QED BY <2>0, <2>1, <2>3
<1>2. /\ activeMap'[id] = st
      /\ \A x \in DOMAIN activeMap : x # id => activeMap'[x] = activeMap[x]
  BY DEF With
<1>3. frame.ts = clock
  BY DEF ConnStep, Moment, InFrame
<1>4. \A k \in 1..Len(outbox') : k \in 1..Len(before) \/ k = Len(before) + 1
  BY <1>1
<1>5. ASSUME NEW k \in 1..Len(outbox')
      PROVE  /\ outbox'[k].ev.ts = clock
             /\ outbox'[k].ev = e \/ outbox'[k].ev.type = "Health"
  BY <1>1, <1>3, <1>4
<1>6. ~Touched(id)
  BY DEF Touched
<1>. QED BY <1>2, <1>5, <1>6 DEF ConnValues, Starts

LEMMA ObservedType ==
  ASSUME ConnsTyped, Moment, InFrame, NEW id \in todo, NEW cum \in Counter,
         NEW base \in Counter, NEW class \in Class
  PROVE  /\ Observed(id, cum, base, class) \in ConnState
         /\ Observed(id, cum, base, class).observedAt <= clock
         /\ Observed(id, cum, base, class).cum = cum
         /\ Observed(id, cum, base, class).base = base
         /\ Observed(id, cum, base, class).class = class
<1>1. frame.conns[id] \in FrameConn /\ frame.ts = clock /\ clock \in Nat
  BY DEF ConnsTyped, Moment
<1>. QED BY <1>1 DEF Observed, ConnState, FrameConn

LEMMA EvidentType ==
  ASSUME Moment, InFrame, NEW st \in ConnState, NEW events
  PROVE  /\ Evident(st, events) \in ConnState
         /\ Evident(st, events).cum = st.cum /\ Evident(st, events).base = st.base
         /\ Evident(st, events).class = st.class /\ Evident(st, events).last = st.last
         /\ Evident(st, events).observedAt = st.observedAt
BY DEF Evident, ConnState, Moment

LEMMA BaselineValues ==
  ASSUME ConnsTyped, Moment, NEW id, NEW section, InLoop(section, id), Baseline(id),
         section \in {"bootstrap", "recovery"},
         section = "bootstrap" \/ id \notin DOMAIN activeMap
  PROVE  ConnValues(id)
<1>. DEFINE st == Observed(id, Zero, frame.conns[id].ctr,
                           InitialClass(frame.conns[id].meta))
            e == ConnEvent("Bootstrap", frame.ts, id, st, Zero)
<1>1. /\ ConnStep(id) /\ id \in todo /\ InFrame /\ UNCHANGED <<frame, tombstones>>
      /\ pc = "bootstrap" \/ id \notin DOMAIN activeMap
  BY BaselineStep DEF InLoop, InFrame, Baseline
<1>2. activeMap' = With(activeMap, id, st) /\ Emit(<<e>>)
  BY DEF Baseline
<1>3. frame.conns[id].ctr \in Counter
  BY <1>1 DEF ConnsTyped, FrameConn
<1>4. /\ st \in ConnState /\ st.observedAt <= clock /\ st.cum = Zero
  BY <1>1, <1>3, ObservedType, CounterTypes, ClassTypes
<1>. HIDE DEF st
<1>5. /\ e.type = "Bootstrap" /\ e.ts = frame.ts /\ e.cum = st.cum /\ e.base = st.base
      /\ e.class = st.class
  BY DEF ConnEvent, Event
<1>. HIDE DEF e
<1>6. Emit(<< >> \o <<e>>) /\ IsSeq(<< >>) /\ e.type \in Starts
  BY <1>2, <1>5, ShortSeqs DEF Starts
<1>7. \A k \in 1..Len(<< >>) : << >>[k].type = "Health" /\ << >>[k].ts = frame.ts
  BY ShortSeqs
<1>8. \A x \in DOMAIN tombstones' : x \in DOMAIN tombstones /\ tombstones'[x] = tombstones[x]
  BY <1>1
<1>. QED BY <1>1, <1>2, <1>4, <1>5, <1>6, <1>7, <1>8, BeginValues

LEMMA RecoverKnownValues ==
  ASSUME ConnsTyped, Moment, NEW id, RecoverKnown(id)
  PROVE  ConnValues(id)
<1>. DEFINE prev      == activeMap[id]
            ctr       == frame.conns[id].ctr
            regressed == Below(ctr, prev.last)
            delta     == IF regressed THEN Zero ELSE Monus(ctr, prev.last)
            h         == HealthEvent(frame.ts, id)
            health    == IF regressed THEN <<h>> ELSE << >>
            was       == Evident(prev, health)
            st        == [was EXCEPT !.last = ctr, !.observedAt = frame.ts,
                                     !.cum = Plus(@, delta)]
            traffic   == DeltaOrPresence(st, id, st, delta, gapStart)
            new       == Evident(st, traffic)
<1>1. /\ ConnStep(id) /\ id \in todo /\ InFrame /\ UNCHANGED <<frame, tombstones>>
      /\ pc = "recovery" /\ id \in DOMAIN activeMap
  BY RecoverKnownStep DEF RecoverKnown, InLoop, InFrame
<1>2. activeMap' = [activeMap EXCEPT ![id] = new] /\ Emit(health \o traffic)
  BY DEF RecoverKnown
<1>3. /\ ctr \in Counter /\ prev \in ConnState /\ prev.last \in Counter
      /\ prev.cum \in Counter /\ frame.ts = clock /\ clock \in Nat
  BY <1>1 DEF ConnsTyped, FrameConn, ConnState, Moment
<1>4. /\ delta \in Counter /\ Plus(prev.cum, delta) \in Counter
      /\ ~Positive(delta) => Plus(prev.cum, delta) = prev.cum
  BY <1>3, CounterTypes
<1>. HIDE DEF delta, health
<1>5. /\ was \in ConnState /\ was.cum = prev.cum /\ was.base = prev.base
      /\ was.class = prev.class /\ Plus(was.cum, delta) \in Counter
  BY <1>1, <1>3, <1>4, EvidentType
<1>. HIDE DEF was
<1>6. /\ st \in ConnState /\ st.cum = Plus(prev.cum, delta) /\ st.base = prev.base
      /\ st.class = prev.class /\ st.observedAt <= clock
  <2>1. st = [was EXCEPT !.last = ctr, !.observedAt = frame.ts, !.cum = Plus(was.cum, delta)]
    BY <1>5 DEF ConnState
  <2>2. was \in ConnState /\ ctr \in Counter /\ Plus(was.cum, delta) \in Counter
        /\ frame.ts \in Nat
    BY <1>3, <1>5
  <2>. HIDE DEF st, ctr
  <2>3. /\ st \in ConnState /\ st.cum = Plus(was.cum, delta) /\ st.base = was.base
        /\ st.class = was.class /\ st.observedAt = frame.ts
    BY <2>1, <2>2 DEF ConnState
  <2>. QED BY <1>3, <1>5, <2>3
<1>. HIDE DEF st
<1>7. /\ new \in ConnState /\ new.cum = st.cum /\ new.base = st.base
      /\ new.class = st.class /\ new.observedAt <= clock
  BY <1>1, <1>6, EvidentType
<1>8. /\ Fits(traffic, new.cum, new.class) /\ IsSeq(traffic)
      /\ Positive(delta) => Has(traffic, "Delta")
  BY <1>7, TrafficFits, TrafficAbout DEF About
<1>. HIDE DEF traffic, new
<1>9. IsSeq(health) /\ Fits(health, new.cum, new.class)
  <2>1. h.ts = frame.ts /\ h.type = "Health"
    BY DEF HealthEvent, Event
  <2>2. health = <<h>> \/ health = << >>
    BY DEF health
  <2>. HIDE DEF h
  <2>. QED BY <2>1, <2>2, FitsOne, FitsNone, ShortSeqs
<1>10. /\ IsSeq(health \o traffic) /\ Fits(health \o traffic, new.cum, new.class)
       /\ Positive(delta) => Has(health \o traffic, "Delta")
  <2>1. PICK cum, class : cum = new.cum /\ class = new.class
    OBVIOUS
  <2>2. IsSeq(health) /\ IsSeq(traffic)
    BY <1>8, <1>9
  <2>3. Fits(health, cum, class) /\ Fits(traffic, cum, class)
    BY <1>8, <1>9, <2>1
  <2>4. IsSeq(health \o traffic) /\ Fits(health \o traffic, cum, class)
    BY <2>2, <2>3, FitsConcat
  <2>5. Has(traffic, "Delta") => Has(health \o traffic, "Delta")
    BY <2>2, FitsConcat
  <2>. QED BY <1>8, <2>1, <2>4, <2>5
<1>11. Touched(id)
  BY <1>1 DEF ConnStep, Begun
<1>12. new.cum = prev.cum \/ Has(health \o traffic, "Delta")
  BY <1>4, <1>6, <1>7, <1>10
<1>. QED BY <1>1, <1>2, <1>6, <1>7, <1>10, <1>11, <1>12, TouchValues

LEMMA SteadyRegressedValues ==
  ASSUME ConnsTyped, Moment, NEW id, SteadyRegressed(id)
  PROVE  ConnValues(id)
<1>. DEFINE prev   == activeMap[id]
            h      == HealthEvent(frame.ts, id)
            meta   == MetaEvents(id, prev)
            events == meta \o <<h>>
            was    == Evident(prev, events)
            st     == [was EXCEPT !.meta = frame.conns[id].meta,
                                  !.last = frame.conns[id].ctr]
<1>1. /\ ConnStep(id) /\ id \in todo /\ InFrame /\ UNCHANGED <<frame, tombstones>>
      /\ pc = "steady" /\ id \in DOMAIN activeMap
  BY SteadyRegressedStep DEF SteadyRegressed, InLoop, InFrame
<1>2. activeMap' = [activeMap EXCEPT ![id] = st] /\ Emit(events)
  BY DEF SteadyRegressed
<1>3. /\ frame.conns[id] \in FrameConn /\ prev \in ConnState /\ prev.observedAt <= clock
  BY <1>1 DEF ConnsTyped, Moment
<1>4. IsSeq(events) /\ Fits(events, prev.cum, prev.class)
  <2>1. h.ts = frame.ts /\ h.type = "Health"
    BY DEF HealthEvent, Event
  <2>. HIDE DEF h
  <2>2. IsSeq(<<h>>) /\ Fits(<<h>>, prev.cum, prev.class)
    BY <2>1, FitsOne
  <2>3. IsSeq(meta) /\ Fits(meta, prev.cum, prev.class)
    BY MetaEventsFit
  <2>. HIDE DEF meta
  <2>. QED BY <2>2, <2>3, FitsConcat
<1>. HIDE DEF events
<1>5. /\ was \in ConnState /\ was.cum = prev.cum /\ was.base = prev.base
      /\ was.class = prev.class /\ was.observedAt = prev.observedAt
  BY <1>1, <1>3, EvidentType
<1>. HIDE DEF was
<1>6. /\ st \in ConnState /\ st.cum = prev.cum /\ st.base = prev.base
      /\ st.class = prev.class /\ st.observedAt <= clock
  BY <1>3, <1>5 DEF ConnState, FrameConn
<1>. HIDE DEF st
<1>7. Touched(id)
  BY <1>1 DEF ConnStep, Begun
<1>8. Fits(events, st.cum, st.class)
  BY <1>4, <1>6
<1>. QED BY <1>1, <1>2, <1>4, <1>6, <1>7, <1>8, TouchValues

LEMMA SteadyKnownValues ==
  ASSUME ConnsTyped, Moment, NEW id, SteadyKnown(id)
  PROVE  ConnValues(id)
<1>. DEFINE prev    == activeMap[id]
            ctr     == frame.conns[id].ctr
            delta   == Monus(ctr, prev.last)
            class   == IF id \in frame.relays THEN Confirmed ELSE prev.class
            meta    == MetaEvents(id, prev)
            c       == [Event("RelayClassificationChanged", frame.ts)
                          EXCEPT !.conn = id, !.class = class]
            changed == IF class # prev.class THEN <<c>> ELSE << >>
            first   == meta \o changed
            was     == Evident(prev, first)
            st      == [was EXCEPT !.meta = frame.conns[id].meta, !.class = class,
                                   !.last = ctr, !.observedAt = frame.ts,
                                   !.cum = Plus(@, delta)]
            traffic == DeltaOrPresence(st, id, st, delta, NoTime)
            new     == Evident(st, traffic)
<1>1. /\ ConnStep(id) /\ id \in todo /\ InFrame /\ UNCHANGED <<frame, tombstones>>
      /\ pc = "steady" /\ id \in DOMAIN activeMap
  BY SteadyKnownStep DEF SteadyKnown, InLoop, InFrame
<1>2. activeMap' = [activeMap EXCEPT ![id] = new] /\ Emit(first \o traffic)
  BY DEF SteadyKnown
<1>3. /\ ctr \in Counter /\ prev \in ConnState /\ prev.last \in Counter
      /\ prev.cum \in Counter /\ prev.class \in Class
      /\ frame.conns[id] \in FrameConn /\ frame.ts = clock /\ clock \in Nat
  BY <1>1 DEF ConnsTyped, FrameConn, ConnState, Moment
<1>4. /\ delta \in Counter /\ Plus(prev.cum, delta) \in Counter
      /\ ~Positive(delta) => Plus(prev.cum, delta) = prev.cum
      /\ class \in Class
  BY <1>3, CounterTypes DEF Class
<1>. HIDE DEF delta
<1>5. /\ was \in ConnState /\ was.cum = prev.cum /\ was.base = prev.base
      /\ Plus(was.cum, delta) \in Counter
  BY <1>1, <1>3, <1>4, EvidentType
<1>6. /\ IsSeq(first) /\ \A cum : Fits(first, cum, class)
      /\ class # prev.class => Has(first, "RelayClassificationChanged")
  <2>1. c.ts = frame.ts /\ c.type = "RelayClassificationChanged" /\ c.class = class
    BY DEF Event
  <2>. HIDE DEF c, class
  <2>2. \A cum : IsSeq(<<c>>) /\ Fits(<<c>>, cum, class) /\ Has(<<c>>, c.type)
    BY <2>1, FitsOne
  <2>3. /\ IsSeq(changed) /\ \A cum : Fits(changed, cum, class)
        /\ class # prev.class => Has(changed, "RelayClassificationChanged")
    BY <2>1, <2>2, FitsNone, ShortSeqs
  <2>4. IsSeq(meta) /\ \A cum : Fits(meta, cum, class)
    BY MetaEventsFit
  <2>. HIDE DEF meta, changed
  <2>. QED BY <2>3, <2>4, FitsConcat
<1>. HIDE DEF was, first, class
<1>7. /\ st \in ConnState /\ st.cum = Plus(prev.cum, delta) /\ st.base = prev.base
      /\ st.class = class /\ st.observedAt <= clock
  <2>. DEFINE label == [was EXCEPT !.meta = frame.conns[id].meta, !.class = class]
  <2>1. st = [label EXCEPT !.last = ctr, !.observedAt = clock,
                           !.cum = Plus(label.cum, delta)]
    BY <1>3, <1>5 DEF ConnState
  <2>2. /\ label \in ConnState /\ label.cum = was.cum /\ label.base = was.base
        /\ label.class = class
    BY <1>3, <1>4, <1>5 DEF FrameConn, ConnState
  <2>3. label \in ConnState /\ ctr \in Counter /\ clock \in Nat
        /\ Plus(label.cum, delta) \in Counter
    BY <1>3, <1>5, <2>2
  <2>. HIDE DEF st, label, ctr
  <2>4. /\ st \in ConnState /\ st.cum = Plus(label.cum, delta) /\ st.base = label.base
        /\ st.class = label.class /\ st.observedAt = clock
    BY <2>1, <2>3 DEF ConnState
  <2>. QED BY <1>3, <1>5, <2>2, <2>4
<1>. HIDE DEF st
<1>8. /\ new \in ConnState /\ new.cum = st.cum /\ new.base = st.base
      /\ new.class = st.class /\ new.observedAt <= clock
  BY <1>1, <1>7, EvidentType
<1>9. /\ Fits(traffic, new.cum, new.class) /\ IsSeq(traffic)
      /\ Positive(delta) => Has(traffic, "Delta")
  BY <1>8, TrafficFits, TrafficAbout DEF About
<1>. HIDE DEF traffic, new
<1>10. /\ IsSeq(first \o traffic) /\ Fits(first \o traffic, new.cum, new.class)
       /\ Positive(delta) => Has(first \o traffic, "Delta")
       /\ class # prev.class => Has(first \o traffic, "RelayClassificationChanged")
  <2>1. Fits(first, new.cum, new.class)
    BY <1>6, <1>7, <1>8
  <2>2. PICK cum, cl : cum = new.cum /\ cl = new.class
    OBVIOUS
  <2>3. IsSeq(first) /\ IsSeq(traffic)
    BY <1>6, <1>9
  <2>4. Fits(first, cum, cl) /\ Fits(traffic, cum, cl)
    BY <1>9, <2>1, <2>2
  <2>5. IsSeq(first \o traffic) /\ Fits(first \o traffic, cum, cl)
    BY <2>3, <2>4, FitsConcat
  <2>6. \A type : Has(first, type) \/ Has(traffic, type) => Has(first \o traffic, type)
    BY <2>3, FitsConcat
  <2>. QED BY <1>6, <1>9, <2>2, <2>5, <2>6
<1>11. Touched(id)
  BY <1>1 DEF ConnStep, Begun
<1>12. /\ new.cum = prev.cum \/ Has(first \o traffic, "Delta")
       /\ new.class = prev.class \/ Has(first \o traffic, "RelayClassificationChanged")
  BY <1>4, <1>7, <1>8, <1>10
<1>. QED BY <1>1, <1>2, <1>7, <1>8, <1>10, <1>11, <1>12, TouchValues

LEMMA SteadyBeginsValues ==
  ASSUME ConnsTyped, Moment, NEW id, SteadyReobserved(id) \/ SteadyNew(id)
  PROVE  ConnValues(id)
<1>1. /\ ConnStep(id) /\ id \in todo /\ InFrame /\ UNCHANGED frame
      /\ id \notin DOMAIN activeMap
  BY SteadyBeginsStep DEF SteadyReobserved, SteadyNew, InLoop, InFrame
<1>2. \A x \in DOMAIN tombstones' : x \in DOMAIN tombstones /\ tombstones'[x] = tombstones[x]
  BY DEF SteadyReobserved, SteadyNew, TakeTombstone, Without
<1>. DEFINE ctr == frame.conns[id].ctr
<1>3. ctr \in Counter /\ Zero \in Counter /\ ClassInFrame(id) \in Class
  BY <1>1, CounterTypes, ClassTypes DEF ConnsTyped, FrameConn
<1>4. CASE SteadyReobserved(id)
  <2>. DEFINE prev   == tombstones[id].state
              delta  == Monus(ctr, prev.last)
              h      == HealthEvent(frame.ts, id)
              health == IF Below(ctr, prev.last) THEN <<h>> ELSE << >>
              st     == Observed(id, Plus(prev.cum, delta), prev.base, ClassInFrame(id))
              e      == [ConnEvent("New", frame.ts, id, st, delta) EXCEPT
                           !.from = IF Positive(delta) THEN prev.observedAt ELSE NoTime,
                           !.to = IF Positive(delta) THEN frame.ts ELSE NoTime]
  <2>1. activeMap' = With(activeMap, id, st) /\ Emit(health \o <<e>>)
    BY <1>4 DEF SteadyReobserved
  <2>2. /\ prev \in ConnState /\ prev.cum \in Counter /\ prev.base \in Counter
        /\ prev.last \in Counter
    BY <1>4 DEF ConnsTyped, ConnState, SteadyReobserved, Continues
  <2>3. Plus(prev.cum, delta) \in Counter
    BY <1>3, <2>2, CounterTypes
  <2>4. st \in ConnState /\ st.observedAt <= clock
    <3>1. PICK cum \in Counter : cum = Plus(prev.cum, delta)
      BY <2>3
    <3>. QED BY <1>1, <1>3, <2>2, <3>1, ObservedType
  <2>. HIDE DEF st, delta
  <2>5. /\ e.type = "New" /\ e.ts = frame.ts /\ e.cum = st.cum /\ e.base = st.base
        /\ e.class = st.class
    BY DEF ConnEvent, Event
  <2>6. h.ts = frame.ts /\ h.type = "Health"
    BY DEF HealthEvent, Event
  <2>. HIDE DEF e, h
  <2>7. IsSeq(health) /\ \A k \in 1..Len(health) :
                           health[k].type = "Health" /\ health[k].ts = frame.ts
    BY <2>6, ShortSeqs
  <2>8. e.type \in Starts /\ e.type # "Bootstrap"
    BY <2>5 DEF Starts
  <2>. HIDE DEF health
  <2>. QED BY <1>1, <1>2, <2>1, <2>4, <2>5, <2>7, <2>8, BeginValues
<1>5. CASE SteadyNew(id)
  <2>. DEFINE st == Observed(id, ctr, Zero, ClassInFrame(id))
              e  == ConnEvent("New", frame.ts, id, st, ctr)
  <2>1. activeMap' = With(activeMap, id, st) /\ Emit(<<e>>)
    BY <1>5 DEF SteadyNew
  <2>2. st \in ConnState /\ st.observedAt <= clock
    BY <1>1, <1>3, ObservedType
  <2>. HIDE DEF st
  <2>3. /\ e.type = "New" /\ e.ts = frame.ts /\ e.cum = st.cum /\ e.base = st.base
        /\ e.class = st.class
    BY DEF ConnEvent, Event
  <2>. HIDE DEF e
  <2>4. PICK none : none = << >>
    OBVIOUS
  <2>5. /\ Emit(none \o <<e>>) /\ IsSeq(none) /\ e.type \in Starts /\ e.type # "Bootstrap"
        /\ \A k \in 1..Len(none) : none[k].type = "Health" /\ none[k].ts = frame.ts
    BY <2>1, <2>3, <2>4, ShortSeqs DEF Starts
  <2>6. e.type = "Bootstrap" => e.cum = Zero
    BY <2>5
  <2>. HIDE DEF ctr
  <2>. QED BY <1>1, <1>2, <2>1, <2>2, <2>3, <2>5, <2>6, BeginValues
<1>. QED BY <1>4, <1>5

LEMMA ProcessConnValues ==
  ASSUME ConnsTyped, Moment, ProcessConn
  PROVE  \E id \in todo : ConnValues(id)
<1>1. PICK id \in todo : \/ BootstrapConn(id)
                         \/ RecoverBaseline(id) \/ RecoverKnown(id)
                         \/ SteadyKnown(id) \/ SteadyRegressed(id)
                         \/ SteadyReobserved(id) \/ SteadyNew(id)
  BY DEF ProcessConn
<1>2. CASE BootstrapConn(id)
  BY <1>2, BaselineValues DEF BootstrapConn
<1>3. CASE RecoverBaseline(id)
  BY <1>3, BaselineValues DEF RecoverBaseline
<1>. QED BY <1>1, <1>2, <1>3, RecoverKnownValues, SteadyKnownValues,
            SteadyRegressedValues, SteadyBeginsValues

\* The other sections of a frame, and what is emitted between frames.
GoneValues(id) ==
  /\ GoneStep(id) /\ UNCHANGED frame
  /\ activeMap' = Without(activeMap, id)
  /\ \A x \in DOMAIN tombstones' :
       \/ x \in DOMAIN tombstones /\ tombstones'[x] = tombstones[x]
       \/ tombstones'[x].state = activeMap[id]
  /\ outbox'[1].ev.ts = clock /\ outbox'[1].ev.from = activeMap[id].observedAt
EndValues ==
  /\ EndStep /\ frame' = NoFrame /\ todo' = {}
  /\ outbox'[1].ev.ts = clock
QuietValues ==
  /\ QuietStep /\ UNCHANGED frame
  /\ \A k \in 1..Len(outbox') : outbox'[k].ev.ts = clock
BegunValues ==
  /\ BeginStep /\ frame'.ts = clock
  /\ todo' = DOMAIN frame'.conns
  /\ \E missing : frame'.conns = Snapshot(missing)
  /\ activeMap' = activeMap \/ activeMap' = << >>
  /\ tombstones' = tombstones \/ tombstones' = << >>
  /\ \A k \in 1..Len(outbox') :
       /\ outbox'[k].ev.ts = clock
       /\ outbox'[k].ev.type = "EpochBreak" => epochID' = epochID + 1
  /\ epochID' # epochID =>
       \E k \in 1..Len(outbox') : outbox'[k].ev.type = "EpochBreak"

LEMMA DisappearValues ==
  ASSUME ConnsTyped, Moment, NEW id, Disappear(id), id \in DOMAIN activeMap
  PROVE  GoneValues(id)
<1>1. GoneStep(id) /\ UNCHANGED frame
  BY DisappearStep DEF Disappear, frameVars
<1>2. activeMap' = Without(activeMap, id)
  BY DEF Disappear
<1>3. ASSUME NEW x \in DOMAIN tombstones'
      PROVE  \/ x \in DOMAIN tombstones /\ tombstones'[x] = tombstones[x]
             \/ tombstones'[x].state = activeMap[id]
  <2>. DEFINE map == With(tombstones, id, [state |-> activeMap[id], at |-> frameSequence])
  <2>1. PICK other : tombstones' \in {Without(map, other), map}
    BY DEF Disappear, RecordTombstone
  <2>2. x \in DOMAIN map /\ tombstones'[x] = map[x]
    BY <1>3, <2>1 DEF Without
  <2>. QED BY <2>2 DEF With
<1>4. outbox'[1].ev.ts = clock /\ outbox'[1].ev.from = activeMap[id].observedAt
  <2>. DEFINE e == [Event("Disappeared", frame.ts) EXCEPT
                      !.conn = id, !.from = activeMap[id].observedAt,
                      !.counter = activeMap[id].last]
  <2>1. e.ts = frame.ts /\ e.from = activeMap[id].observedAt
    BY DEF Event
  <2>2. Emit(<<e>>)
    BY DEF Disappear
  <2>. HIDE DEF e
  <2>3. outbox'[1].ev = e
    BY <2>2, ShortSeqs, EmitParts
  <2>4. frame.ts = clock
    BY DEF Disappear, Moment, InFrame
  <2>. QED BY <2>1, <2>3, <2>4
<1>. QED BY <1>1, <1>2, <1>3, <1>4 DEF GoneValues

LEMMA FrameEndsValues ==
  ASSUME Moment, EndSteady \/ EndRecovery \/ EndBootstrap
  PROVE  EndValues
<1>1. EndStep /\ EndFrame
  BY FrameEnds DEF EndSteady, EndRecovery, EndBootstrap
<1>2. frame' = NoFrame /\ todo' = {}
  BY <1>1 DEF EndFrame
<1>3. outbox'[1].ev.ts = clock
  <2>1. PICK delta : Residual(delta)
    BY DEF EndSteady, EndRecovery, EndBootstrap
  <2>. DEFINE e == [Event("Residual", frame.ts) EXCEPT !.delta = delta, !.counter = unique]
  <2>2. e.ts = frame.ts
    BY DEF Event
  <2>3. Emit(<<e>>)
    BY <2>1 DEF Residual
  <2>. HIDE DEF e
  <2>4. outbox'[1].ev = e
    BY <2>3, ShortSeqs, EmitParts
  <2>5. frame.ts = clock
    BY <1>1 DEF EndStep, Moment, InFrame
  <2>. QED BY <2>2, <2>4, <2>5
<1>. QED BY <1>1, <1>2, <1>3 DEF EndValues

LEMMA UnobservedGapValues ==
  ASSUME NEW end, UnobservedGap(end) \/ UNCHANGED <<outbox, eventSequence>>, Settled
  PROVE  \A k \in 1..Len(outbox') : outbox'[k].ev.ts = end
<1>. DEFINE e == GapOpenedEvent(end, createdAt)
            f == GapClosedEvent(createdAt, end)
<1>1. e.ts = end /\ f.ts = end
  BY DEF GapOpenedEvent, GapClosedEvent, Event
<1>2. Emit(<<e, f>>) \/ UNCHANGED outbox
  BY DEF UnobservedGap
<1>. HIDE DEF e, f
<1>3. CASE Emit(<<e, f>>)
  <2>1. Len(outbox') = 2 /\ outbox'[1].ev = e /\ outbox'[2].ev = f
    BY <1>3, ShortSeqs, EmitParts
  <2>. QED BY <1>1, <2>1
<1>4. CASE UNCHANGED outbox
  BY <1>4, ShortSeqs DEF Settled
<1>. QED BY <1>2, <1>3, <1>4

LEMMA QuietItemsValues ==
  ASSUME Moment, eventSequence \in Nat,
         GapOpened(clock) \/ CollectorHealth(clock) \/ EndBootstrapLoop \/ Shutdown(clock)
  PROVE  QuietValues
<1>1. QuietStep /\ UNCHANGED frame
  BY QuietItems DEF GapOpened, CollectorHealth, EndBootstrapLoop, Shutdown, frameVars
<1>2. \A k \in 1..Len(outbox') : outbox'[k].ev.ts = clock
  <2>1. CASE GapOpened(clock)
    <3>. DEFINE e == GapOpenedEvent(clock, GapFrom(clock))
    <3>1. e.ts = clock
      BY DEF GapOpenedEvent, Event
    <3>2. Emit(<<e>>) \/ (UNCHANGED outbox /\ Settled)
      BY <2>1 DEF GapOpened, Idle
    <3>. HIDE DEF e
    <3>3. CASE Emit(<<e>>)
      <4>1. Len(outbox') = 1 /\ outbox'[1].ev = e
        BY <3>3, ShortSeqs, EmitParts
      <4>. QED BY <3>1, <4>1
    <3>4. CASE UNCHANGED outbox /\ Settled
      BY <3>4, ShortSeqs DEF Settled
    <3>. QED BY <3>2, <3>3, <3>4
  <2>2. CASE CollectorHealth(clock)
    <3>. DEFINE e == HealthEvent(clock, NoConn)
    <3>1. e.ts = clock
      BY DEF HealthEvent, Event
    <3>2. Emit(<<e>>)
      BY <2>2 DEF CollectorHealth
    <3>. HIDE DEF e
    <3>3. Len(outbox') = 1 /\ outbox'[1].ev = e
      BY <3>2, ShortSeqs, EmitParts
    <3>. QED BY <3>1, <3>3
  <2>3. CASE EndBootstrapLoop
    <3>1. frame.ts = clock
      BY <2>3 DEF EndBootstrapLoop, Moment, InFrame
    <3>. QED BY <2>3, <3>1, UnobservedGapValues DEF EndBootstrapLoop
  <2>4. CASE Shutdown(clock)
    BY <2>4, UnobservedGapValues DEF Shutdown
  <2>. QED BY <2>1, <2>2, <2>3, <2>4
<1>. QED BY <1>1, <1>2 DEF QuietValues

LEMMA FrameBeginsValues ==
  ASSUME FrameArrives
  PROVE  BegunValues
<1>1. PICK missing, R : ProcessFrame([ts |-> clock, conns |-> Snapshot(missing),
                                     total |-> total, relays |-> R])
  BY DEF FrameArrives
<1>. DEFINE new == [ts |-> clock, conns |-> Snapshot(missing), total |-> total,
                    relays |-> R]
<1>2. PICK f : f = new
  OBVIOUS
<1>3. ProcessFrame(f) /\ f.ts = clock /\ f.conns = Snapshot(missing)
  BY <1>1, <1>2
<1>4. BeginStep
  BY <1>3, FrameBegins
<1>5. frame' = f /\ todo' = DOMAIN f.conns
  BY <1>3 DEF ProcessFrame, StartRecovery, StartEpochBreakAcrossGap, StartEpochBreak,
              StartBootstrap, StartSteady, BeginFrame
<1>6. /\ activeMap' = activeMap \/ activeMap' = << >>
      /\ tombstones' = tombstones \/ tombstones' = << >>
  BY <1>3 DEF ProcessFrame, StartRecovery, StartEpochBreakAcrossGap, StartEpochBreak,
              StartBootstrap, StartSteady, StartNewEpoch, ResetTombstones, connVars
<1>. DEFINE c == GapClosedEvent(gapStart, f.ts)
            b == Event("EpochBreak", f.ts)
<1>7. /\ c.ts = f.ts /\ c.type = "GapClosed" /\ b.ts = f.ts /\ b.type = "EpochBreak"
  BY DEF GapClosedEvent, Event
<1>8. \/ EmitFirst(<< >>) /\ epochID' = epochID
      \/ EmitFirst(<<c>>) /\ epochID' = epochID
      \/ EmitFirst(<<b>>) /\ epochID' = epochID + 1
      \/ EmitFirst(<<c>> \o <<b>>) /\ epochID' = epochID + 1
  BY <1>3 DEF ProcessFrame, StartRecovery, StartEpochBreakAcrossGap, StartEpochBreak,
              StartBootstrap, StartSteady, BreakEvents, StartNewEpoch
<1>. HIDE DEF c, b
<1>. DEFINE Says(k) ==
              /\ outbox'[k].ev.ts = clock
              /\ outbox'[k].ev.type = "EpochBreak" => epochID' = epochID + 1
            Breaks == epochID' # epochID =>
                        \E k \in 1..Len(outbox') : outbox'[k].ev.type = "EpochBreak"
<1>9. Breaks /\ \A k \in 1..Len(outbox') : Says(k)
  <2>1. CASE EmitFirst(<< >>) /\ epochID' = epochID
    BY <2>1, ShortSeqs, EmitFirstParts
  <2>2. CASE EmitFirst(<<c>>) /\ epochID' = epochID
    <3>1. Len(outbox') = 1 /\ outbox'[1].ev = c
      BY <2>2, ShortSeqs, EmitFirstParts
    <3>. QED BY <1>3, <1>7, <2>2, <3>1
  <2>3. CASE EmitFirst(<<b>>) /\ epochID' = epochID + 1
    <3>1. Len(outbox') = 1 /\ outbox'[1].ev = b
      BY <2>3, ShortSeqs, EmitFirstParts
    <3>. QED BY <1>3, <1>7, <2>3, <3>1
  <2>4. CASE EmitFirst(<<c>> \o <<b>>) /\ epochID' = epochID + 1
    <3>. DEFINE events == <<c>> \o <<b>>
    <3>1. IsSeq(events) /\ Len(events) = 2 /\ events[1] = c /\ events[2] = b
      <4>1. IsSeq(<<c>>) /\ IsSeq(<<b>>) /\ Len(<<c>>) = 1 /\ Len(<<b>>) = 1
        BY ShortSeqs
      <4>2. <<c>>[1] = c /\ <<b>>[1] = b
        OBVIOUS
      <4>. QED BY <4>1, <4>2, ConcatParts
    <3>2. EmitFirst(events)
      BY <2>4
    <3>. HIDE DEF events
    <3>3. Len(outbox') = 2 /\ outbox'[1].ev = c /\ outbox'[2].ev = b
      BY <3>1, <3>2, EmitFirstParts
    <3>. QED BY <1>3, <1>7, <2>4, <3>3
  <2>. QED BY <1>8, <2>1, <2>2, <2>3, <2>4
<1>10. frame'.ts = clock /\ todo' = DOMAIN frame'.conns /\ frame'.conns = Snapshot(missing)
  BY <1>3, <1>5
<1>. QED BY <1>4, <1>6, <1>9, <1>10 DEF BegunValues

\* Sections, with what they say; and what the world and the heartbeat change.
SectionValues ==
  /\ SectionStep /\ UNCHANGED <<conns, clock, rebased>>
  /\ \/ QuietValues \/ BegunValues \/ EndValues
     \/ \E id \in todo : ConnValues(id)
     \/ \E id \in DOMAIN activeMap : GoneValues(id)
WorldValues ==
  /\ WorldStep /\ UNCHANGED rebased
  /\ conns' \in [Conn -> [live : BOOLEAN, start : Nat, ctr : Counter, meta : Meta]]
  /\ \/ clock' = clock
     \/ clock' = clock + 1 /\ Settled /\ pc \in {"down", "idle"}
  /\ \A s \in 1..Session : \/ sessions'[s] = sessions[s]
                           \/ sessions'[s] = [sessions[s] EXCEPT !.heartbeatAt = clock']

LEMMA SectionHasValues ==
  ASSUME Shape, ConnsTyped, Moment,
         StopRun \/ StreamLost \/ Health \/ FrameArrives \/ FrameContinues
  PROVE  SectionValues
<1>0. eventSequence \in Nat
  BY DEF Shape, EngineShape
<1>1. SectionStep
  BY SectionSteps
<1>2. UNCHANGED <<conns, clock, rebased>>
  BY DEF StopRun, StreamLost, Health, FrameArrives, FrameContinues, WorldStays, mihomoVars,
         ghostVars
<1>3. CASE StopRun \/ StreamLost \/ Health
  BY <1>0, <1>1, <1>2, <1>3, QuietItemsValues DEF StopRun, StreamLost, Health, SectionValues
<1>4. CASE FrameArrives
  BY <1>1, <1>2, <1>4, FrameBeginsValues DEF SectionValues
<1>5. CASE FrameContinues
  <2>1. CASE ProcessConn
    BY <1>1, <1>2, <2>1, ProcessConnValues DEF SectionValues
  <2>2. CASE \E id \in DOMAIN activeMap : Disappear(id)
    BY <1>1, <1>2, <2>2, DisappearValues DEF SectionValues
  <2>3. CASE EndSteady \/ EndRecovery \/ EndBootstrap
    BY <1>1, <1>2, <2>3, FrameEndsValues DEF SectionValues
  <2>4. CASE EndBootstrapLoop
    BY <1>0, <1>1, <1>2, <2>4, QuietItemsValues DEF SectionValues
  <2>. QED BY <1>5, <2>1, <2>2, <2>3, <2>4 DEF FrameContinues
<1>. QED BY <1>3, <1>4, <1>5

LEMMA MihomoTypes ==
  ASSUME ConnsTyped, MihomoMoves
  PROVE  conns' \in [Conn -> [live : BOOLEAN, start : Nat, ctr : Counter, meta : Meta]]
<1>. DEFINE C == [live : BOOLEAN, start : Nat, ctr : Counter, meta : Meta]
<1>0. conns \in [Conn -> C]
  BY DEF ConnsTyped
<1>1. ASSUME NEW id \in Conn, NEW m \in Meta, Open(id, m) PROVE conns' \in [Conn -> C]
  <2>1. [d \in Dir |-> 0] \in Counter
    BY DEF Counter
  <2>2. conns[id] \in C
    BY <1>0
  <2>3. PICK c : c = [live |-> TRUE, start |-> conns[id].start + 1,
                      ctr |-> [d \in Dir |-> 0], meta |-> m]
    OBVIOUS
  <2>4. c \in C
    BY <2>1, <2>2, <2>3
  <2>5. conns' = [conns EXCEPT ![id] = c]
    BY <1>1, <2>3 DEF Open
  <2>. QED BY <1>0, <2>4, <2>5
<1>2. ASSUME NEW id \in Conn, NEW d \in Dir, Carry(id, d) PROVE conns' \in [Conn -> C]
  <2>1. conns[id] \in C /\ conns[id].ctr \in Counter
    BY <1>0
  <2>2. PICK ctr : ctr = [conns[id].ctr EXCEPT ![d] = conns[id].ctr[d] + 1]
    OBVIOUS
  <2>3. ctr \in Counter
    BY <2>1, <2>2 DEF Counter
  <2>4. PICK c : c = [conns[id] EXCEPT !.ctr = ctr]
    OBVIOUS
  <2>5. c \in C
    BY <2>1, <2>3, <2>4
  <2>6. conns' = [conns EXCEPT ![id] = c]
    BY <1>2, <2>2, <2>4 DEF Carry
  <2>. QED BY <1>0, <2>5, <2>6
<1>3. ASSUME NEW id \in Conn, Shut(id) PROVE conns' \in [Conn -> C]
  BY <1>0, <1>3 DEF Shut
<1>4. CASE Restart
  BY <1>0, <1>4 DEF Restart
<1>. QED BY <1>1, <1>2, <1>3, <1>4 DEF MihomoMoves

LEMMA WorldHasValues ==
  ASSUME Shape, ConnsTyped, Tick \/ MihomoMoves \/ Rest \/ UNCHANGED vars
  PROVE  WorldValues
<1>1. WorldStep
  BY WorldSteps
<1>2. conns' \in [Conn -> [live : BOOLEAN, start : Nat, ctr : Counter, meta : Meta]]
  BY MihomoTypes DEF ConnsTyped, Tick, Rest, vars, mihomoVars
<1>3. CASE Tick
  <2>1. /\ UNCHANGED rebased /\ clock' = clock + 1
        /\ Settled /\ pc \in {"down", "idle"}
    BY <1>3 DEF Tick, Quiet, ghostVars, Down, Idle, Shape, EngineShape, Settled
  <2>2. ASSUME NEW s \in 1..Session
        PROVE  \/ sessions'[s] = sessions[s]
               \/ sessions'[s] = [sessions[s] EXCEPT !.heartbeatAt = clock']
    <3>1. sessions' = sessions
            \/ sessions' = [sessions EXCEPT ![Session].heartbeatAt = clock']
      BY <1>3 DEF Tick, Heartbeat, storeVars
    <3>2. DOMAIN sessions = 1..Session
      BY SessionCount
    <3>. QED BY <3>1, <3>2
  <2>. QED BY <1>1, <1>2, <2>1, <2>2 DEF WorldValues
<1>4. CASE MihomoMoves \/ Rest \/ UNCHANGED vars
  <2>1. UNCHANGED <<rebased, clock, sessions>>
    BY <1>4 DEF MihomoMoves, Quiet, Rest, vars, storeVars, ghostVars
  <2>. QED BY <1>1, <1>2, <2>1 DEF WorldValues
<1>. QED BY <1>3, <1>4

LEMMA Values ==
  ASSUME Shape, ConnsTyped, Moment, [Next]_vars
  PROVE  \/ WorldValues \/ SectionValues
         \/ BeginRun \/ EndRun \/ Killed \/ EmitSucceeds \/ EmitFails
BY WorldHasValues, SectionHasValues DEF Next

LEMMA SnapshotTyped ==
  ASSUME ConnsTyped, NEW missing
  PROVE  /\ DOMAIN Snapshot(missing) \subseteq Conn
         /\ \A id \in DOMAIN Snapshot(missing) : Snapshot(missing)[id] \in FrameConn
<1>1. DOMAIN Snapshot(missing) \subseteq Conn
  BY DEF Snapshot, LiveConns
<1>2. ASSUME NEW id \in DOMAIN Snapshot(missing)
      PROVE  Snapshot(missing)[id] \in FrameConn
  <2>1. conns[id] \in [live : BOOLEAN, start : Nat, ctr : Counter, meta : Meta]
    BY <1>1, <1>2 DEF ConnsTyped
  <2>2. Snapshot(missing)[id] = [start |-> conns[id].start, ctr |-> conns[id].ctr,
                                 meta |-> conns[id].meta]
    BY <1>2 DEF Snapshot
  <2>. QED BY <2>1, <2>2 DEF FrameConn
<1>. QED BY <1>1, <1>2

LEMMA NoFrameTyped == frame' = NoFrame => DOMAIN frame'.conns = {}
BY DEF NoFrame

LEMMA ConnsTypedNext ==
  ASSUME Shape, ConnsTyped, Moment, [Next]_vars
  PROVE  ConnsTyped'
<1>. DEFINE MapOK == \A x \in DOMAIN activeMap' : activeMap'[x] \in ConnState
            TombsOK == \A x \in DOMAIN tombstones' : tombstones'[x].state \in ConnState
            FrameOK == /\ DOMAIN frame'.conns \subseteq Conn /\ todo' \subseteq DOMAIN frame'.conns
                       /\ \A x \in DOMAIN frame'.conns : frame'.conns[x] \in FrameConn
<1>1. CASE WorldValues
  BY <1>1 DEF WorldValues, WorldStep, engineVars, connVars, frameVars, ConnsTyped
<1>2. CASE SectionValues
  <2>0. UNCHANGED conns
    BY <1>2 DEF SectionValues
  <2>1. CASE QuietValues
    BY <2>0, <2>1 DEF QuietValues, QuietStep, ConnsTyped
  <2>2. CASE BegunValues
    <3>1. FrameOK
      BY <2>2, SnapshotTyped DEF BegunValues
    <3>2. MapOK /\ TombsOK
      BY <2>2 DEF BegunValues, ConnsTyped
    <3>. QED BY <2>0, <3>1, <3>2 DEF ConnsTyped
  <2>3. CASE EndValues
    BY <2>0, <2>3, NoFrameTyped DEF EndValues, EndStep, ConnsTyped
  <2>4. ASSUME NEW id \in todo, ConnValues(id) PROVE ConnsTyped'
    <3>1. FrameOK
      BY <2>4 DEF ConnValues, ConnStep, ConnsTyped
    <3>2. MapOK /\ TombsOK
      BY <2>4 DEF ConnValues, ConnStep, Touched, Begun, ConnsTyped
    <3>. QED BY <2>0, <3>1, <3>2 DEF ConnsTyped
  <2>5. ASSUME NEW id \in DOMAIN activeMap, GoneValues(id) PROVE ConnsTyped'
    <3>1. FrameOK
      BY <2>5 DEF GoneValues, GoneStep, ConnsTyped
    <3>2. MapOK /\ TombsOK
      BY <2>5 DEF GoneValues, Without, ConnsTyped
    <3>. QED BY <2>0, <3>1, <3>2 DEF ConnsTyped
  <2>. QED BY <1>2, <2>1, <2>2, <2>3, <2>4, <2>5 DEF SectionValues
<1>3. CASE BeginRun \/ EndRun \/ Killed
  <2>1. /\ frame' = NoFrame /\ todo' = {} /\ activeMap' = << >> /\ tombstones' = << >>
        /\ UNCHANGED conns
    BY <1>3 DEF BeginRun, EndRun, Killed, Exits, EngineReplaced, WorldStays, mihomoVars
  <2>. QED BY <2>1, NoFrameTyped DEF ConnsTyped
<1>4. CASE EmitSucceeds
  BY <1>4 DEF EmitSucceeds, connVars, frameVars, WorldStays, mihomoVars, ConnsTyped
<1>5. CASE EmitFails
  <2>1. frame' = NoFrame /\ todo' = {} /\ UNCHANGED <<activeMap, tombstones, conns>>
    BY <1>5 DEF EmitFails, SinkFails, connVars, WorldStays, mihomoVars
  <2>. QED BY <2>1, NoFrameTyped DEF ConnsTyped
<1>. QED BY <1>1, <1>2, <1>3, <1>4, <1>5, Values

LEMMA MomentNext ==
  ASSUME Shape, ConnsTyped, Moment, [Next]_vars
  PROVE  Moment'
<1>0. clock \in Nat /\ clock > 0
  BY DEF Moment
<1>. DEFINE Sent == \A k \in 1..Len(outbox') :
                      /\ outbox'[k].ev.ts = clock'
                      /\ outbox'[k].ev.type = "Disappeared" =>
                           outbox'[k].ev.from \in 0..clock'
            Seen == \A x \in DOMAIN activeMap' : activeMap'[x].observedAt <= clock'
<1>1. CASE WorldValues
  <2>1. UNCHANGED <<pc, frame, activeMap, outbox>>
    BY <1>1 DEF WorldValues, WorldStep, engineVars, connVars, frameVars
  <2>2. Seen
    <3>1. \A x \in DOMAIN activeMap : activeMap[x].observedAt \in Nat
      BY DEF ConnsTyped, ConnState
    <3>. QED BY <1>0, <1>1, <2>1, <3>1 DEF WorldValues, Moment
  <2>3. CASE clock' = clock
    BY <2>1, <2>3 DEF Moment, InFrame
  <2>4. CASE clock' = clock + 1 /\ Settled /\ pc \in {"down", "idle"}
    <3>1. Len(outbox) = 0
      BY <2>4, ShortSeqs DEF Settled
    <3>. QED BY <1>0, <2>1, <2>2, <2>4, <3>1 DEF Moment, InFrame
  <2>. QED BY <1>1, <2>3, <2>4 DEF WorldValues
<1>2. CASE SectionValues
  <2>0. clock' = clock
    BY <1>2 DEF SectionValues
  <2>1. CASE QuietValues
    <3>1. /\ UNCHANGED <<frame, activeMap>> /\ (InFrame' => InFrame)
      BY <2>1 DEF QuietValues, QuietStep, InFrame
    <3>2. Sent
      BY <2>0, <2>1 DEF QuietValues, QuietStep, Aside
    <3>. QED BY <2>0, <3>1, <3>2 DEF Moment
  <2>2. CASE BegunValues
    <3>1. Sent
      BY <2>0, <2>2 DEF BegunValues, BeginStep
    <3>2. Seen
      BY <2>0, <2>2 DEF BegunValues, Moment
    <3>3. frame'.ts = clock'
      BY <2>0, <2>2 DEF BegunValues
    <3>. QED BY <1>0, <2>0, <3>1, <3>2, <3>3 DEF Moment
  <2>3. CASE EndValues
    <3>1. Sent
      BY <2>0, <2>3 DEF EndValues, EndStep
    <3>2. UNCHANGED activeMap /\ ~InFrame'
      BY <2>3 DEF EndValues, EndStep, InFrame
    <3>. QED BY <2>0, <3>1, <3>2 DEF Moment
  <2>4. ASSUME NEW id \in todo, ConnValues(id) PROVE Moment'
    <3>1. Sent
      <4>1. \A k \in 1..Len(outbox') :
              outbox'[k].ev.ts = clock' /\ outbox'[k].ev.type # "Disappeared"
        <5>1. CASE Touched(id)
          BY <2>0, <2>4, <5>1 DEF ConnValues, Touched, Touches
        <5>2. CASE Begun(id)
          <6>1. /\ outbox'[Len(outbox')].ev.type \in Starts
                /\ \A k \in 1..(Len(outbox') - 1) : outbox'[k].ev.type = "Health"
                /\ IsSeq(outbox')
            BY <2>4, <5>2 DEF ConnValues, ConnStep, Begun, Emits
          <6>2. Len(outbox') \in Nat
            BY <6>1, SeqParts
          <6>3. \A k \in 1..Len(outbox') : k = Len(outbox') \/ k \in 1..(Len(outbox') - 1)
            BY <6>2
          <6>. QED BY <2>0, <2>4, <6>1, <6>3 DEF ConnValues, Starts
        <5>. QED BY <2>4, <5>1, <5>2 DEF ConnValues, ConnStep
      <4>. QED BY <4>1
    <3>2. Seen
      BY <2>0, <2>4 DEF ConnValues, ConnStep, Touched, Begun, Moment
    <3>3. UNCHANGED <<pc, frame>>
      BY <2>4 DEF ConnValues, ConnStep
    <3>. QED BY <2>0, <3>1, <3>2, <3>3 DEF Moment, InFrame
  <2>5. ASSUME NEW id \in DOMAIN activeMap, GoneValues(id) PROVE Moment'
    <3>1. activeMap[id].observedAt \in 0..clock
      BY <1>0 DEF ConnsTyped, ConnState, Moment
    <3>2. Sent
      BY <2>0, <2>5, <3>1 DEF GoneValues, GoneStep
    <3>3. Seen
      BY <2>0, <2>5 DEF GoneValues, Without, Moment
    <3>4. UNCHANGED <<pc, frame>>
      BY <2>5 DEF GoneValues, GoneStep
    <3>. QED BY <2>0, <3>2, <3>3, <3>4 DEF Moment, InFrame
  <2>. QED BY <1>2, <2>1, <2>2, <2>3, <2>4, <2>5 DEF SectionValues
<1>3. CASE BeginRun \/ EndRun \/ Killed
  <2>1. /\ outbox' = << >> /\ activeMap' = << >> /\ clock' = clock
        /\ pc' \in {"down", "idle"}
    BY <1>3 DEF BeginRun, EndRun, Killed, Exits, EngineReplaced, WorldStays
  <2>. QED BY <1>0, <2>1, ShortSeqs DEF Moment, InFrame
<1>4. CASE EmitSucceeds
  <2>1. UNCHANGED <<pc, frame, activeMap, clock>>
    BY <1>4 DEF EmitSucceeds, connVars, frameVars, WorldStays
  <2>2. /\ Len(outbox') = Len(outbox) - 1 /\ Len(outbox) \in Nat
        /\ \A k \in 1..(Len(outbox) - 1) : outbox'[k] = outbox[k + 1]
    BY <1>4, TakenOutbox, StreamParts
  <2>3. Sent
    BY <2>1, <2>2 DEF Moment
  <2>. QED BY <2>1, <2>3 DEF Moment, InFrame
<1>5. CASE EmitFails
  <2>1. /\ outbox' = << >> /\ pc' \in {"stopped", "failed"} /\ UNCHANGED <<activeMap, clock>>
    BY <1>5 DEF EmitFails, SinkFails, connVars, WorldStays
  <2>. QED BY <2>1, ShortSeqs DEF Moment, InFrame
<1>. QED BY <1>1, <1>2, <1>3, <1>4, <1>5, Values
=============================================================================
