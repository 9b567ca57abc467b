------------------------ MODULE CollectorRowProofs ------------------------
(***************************************************************************)
(* What TLAPS proves of the projections of the collector (module           *)
(* Collector): the rows of the store keep step with the engine's           *)
(* connections and end with their session, its gaps hold no moment that    *)
(* was watched, every moment that was not is on record, the residual of a  *)
(* frame sets off what its connections were seen to carry, and a rebuild   *)
(* from the journal gives what is there.                                   *)
(* CollectorProofs follows the order of the events; here it is what they   *)
(* say.                                                                    *)
(***************************************************************************)
EXTENDS CollectorProofs, FiniteSetTheorems

-----------------------------------------------------------------------------
(* The engine's connections and the rows of the store.                     *)

\* The engine has neither failed nor been stopped.
Works == pc = "idle" \/ InFrame
\* An event of one of the types is on its way for the connection.
Coming(id, types) ==
  \E k \in 1..Len(outbox) : outbox[k].ev.conn = id /\ outbox[k].ev.type \in types
RowKey(id) == <<Session, epochID, id>>
\* A row is about to be closed, alone or with its epoch.
Closing(k) ==
  \E m \in 1..Len(outbox) :
    \/ /\ outbox[m].ev.type = "Disappeared"
       /\ outbox[m].epoch = k[2] /\ outbox[m].ev.conn = k[3]
    \/ outbox[m].ev.type = "EpochBreak" /\ outbox[m].epoch = k[2]

\* What is on its way speaks of the connections as the engine has them.
SaidOf(k) ==
  LET e == outbox[k].ev
  IN  /\ ~Works => e.conn = NoConn /\ e.type \in {"Health", "GapOpened", "GapClosed"}
      /\ e.type \in Starts \cup Updates =>
           outbox[k].epoch = epochID /\ e.conn \in DOMAIN activeMap
      /\ e.type \in Starts =>
           /\ k = Len(outbox)
           /\ e.cum = activeMap[e.conn].cum /\ e.base = activeMap[e.conn].base
           /\ e.class = activeMap[e.conn].class
      /\ e.type = "Bootstrap" => e.cum = Zero
      /\ e.type \in Updates => \A m \in 1..Len(outbox) : outbox[m].ev.type \notin Starts
      /\ e.type = "Delta" => e.cum = activeMap[e.conn].cum
      /\ e.type = "RelayClassificationChanged" => e.class = activeMap[e.conn].class
      /\ e.type = "Disappeared" =>
           outbox[k].epoch = epochID /\ e.conn \notin DOMAIN activeMap
      /\ e.type = "EpochBreak" => outbox[k].epoch < epochID
Sending == \A k \in 1..Len(outbox) : SaidOf(k)

\* An open row agrees with the engine's connection, but for what is on its way.
Holds(id) ==
  LET k == RowKey(id)
  IN  /\ k \in DOMAIN store.rows
      /\ \/ k \in rebased
         \/ /\ store.rows[k].active /\ store.rows[k].endedAt = NoTime
            /\ store.rows[k].base = activeMap[id].base
            /\ store.rows[k].cum = activeMap[id].cum \/ Coming(id, {"Delta"})
            /\ \/ store.rows[k].class = activeMap[id].class
               \/ Coming(id, {"RelayClassificationChanged"})
EngineInRows == Works => \A id \in DOMAIN activeMap : Coming(id, Starts) \/ Holds(id)
RowsInEngine ==
  Works => \A k \in DOMAIN store.rows :
             k[1] = Session /\ store.rows[k].endedAt = NoTime
               => (k[2] = epochID /\ k[3] \in DOMAIN activeMap) \/ Closing(k)

LEMMA NothingSent == outbox' = << >> => Sending'
BY ShortSeqs DEF Sending

LEMMA ConnSending ==
  ASSUME Shape, NEW id \in todo, ConnValues(id)
  PROVE  Sending'
<1>1. /\ Works' /\ IsSeq(outbox') /\ UNCHANGED epochID
      /\ \A k \in 1..Len(outbox') : outbox'[k].epoch = epochID /\ outbox'[k].ev.conn = id
  BY DEF ConnValues, ConnStep, Emits, Works, InFrame
<1>2. id \in DOMAIN activeMap'
  BY DEF ConnValues, ConnStep, Touched, Begun
<1>3. \A k \in 1..Len(outbox') :
        /\ outbox'[k].ev.type \in Starts => k = Len(outbox')
        /\ outbox'[k].ev.type \in Updates =>
             \A m \in 1..Len(outbox') : outbox'[m].ev.type \notin Starts
        /\ outbox'[k].ev.type \notin {"Disappeared", "EpochBreak"}
  <2>1. CASE Touched(id)
    BY <2>1 DEF Touched, Touches, Starts, Updates
  <2>2. CASE Begun(id)
    <3>1. /\ outbox'[Len(outbox')].ev.type \in Starts
          /\ \A k \in 1..(Len(outbox') - 1) : outbox'[k].ev.type = "Health"
      BY <2>2 DEF Begun
    <3>2. \A k \in 1..Len(outbox') : k = Len(outbox') \/ k \in 1..(Len(outbox') - 1)
      BY <1>1, SeqParts
    <3>. QED BY <3>1, <3>2 DEF Starts, Updates
  <2>. QED BY <2>1, <2>2 DEF ConnValues, ConnStep
<1>4. ASSUME NEW k \in 1..Len(outbox') PROVE SaidOf(k)'
  <2>1. /\ outbox'[k].ev.type = "Delta" => outbox'[k].ev.cum = activeMap'[id].cum
        /\ outbox'[k].ev.type = "RelayClassificationChanged"
             => outbox'[k].ev.class = activeMap'[id].class
        /\ outbox'[k].ev.type \in Starts =>
             /\ outbox'[k].ev.cum = activeMap'[id].cum
             /\ outbox'[k].ev.base = activeMap'[id].base
             /\ outbox'[k].ev.class = activeMap'[id].class
        /\ outbox'[k].ev.type = "Bootstrap" => outbox'[k].ev.cum = Zero
    BY DEF ConnValues
  <2>2. outbox'[k].ev.conn = id /\ outbox'[k].epoch = epochID'
    BY <1>1
  <2>. QED BY <1>1, <1>2, <1>3, <2>1, <2>2 DEF SaidOf
<1>. QED BY <1>4 DEF Sending

LEMMA SendingNext ==
  ASSUME Shape, ConnsTyped, Moment, Sending, [Next]_vars
  PROVE  Sending'
<1>1. CASE WorldValues
  BY <1>1 DEF WorldValues, WorldStep, engineVars, connVars, frameVars, seqVars,
              Sending, SaidOf, Works, InFrame
<1>2. CASE SectionValues
  <2>1. CASE QuietValues
    BY <2>1 DEF QuietValues, QuietStep, Aside, Sending, SaidOf, Starts, Updates
  <2>2. CASE BegunValues
    <3>1. Works' /\ epochID \in Nat
      BY <2>2 DEF BegunValues, BeginStep, Works, InFrame, Shape, EngineShape
    <3>2. ASSUME NEW k \in 1..Len(outbox') PROVE SaidOf(k)'
      <4>1. /\ outbox'[k].ev.type \in {"GapClosed", "EpochBreak"}
            /\ outbox'[k].epoch = epochID
            /\ outbox'[k].ev.type = "EpochBreak" => epochID' = epochID + 1
        BY <2>2 DEF BegunValues, BeginStep, Emits
      <4>. QED BY <3>1, <4>1 DEF SaidOf, Starts, Updates
    <3>. QED BY <3>2 DEF Sending
  <2>3. CASE EndValues
    <3>1. Works' /\ Len(outbox') = 1 /\ outbox'[1].ev.type = "Residual"
      BY <2>3 DEF EndValues, EndStep, Works
    <3>. QED BY <3>1 DEF Sending, SaidOf, Starts, Updates
  <2>4. ASSUME NEW id \in todo, ConnValues(id) PROVE Sending'
    BY <2>4, ConnSending
  <2>5. ASSUME NEW id \in DOMAIN activeMap, GoneValues(id) PROVE Sending'
    <3>1. /\ Works' /\ Len(outbox') = 1 /\ outbox'[1].ev.type = "Disappeared"
          /\ outbox'[1].ev.conn = id /\ id \notin DOMAIN activeMap'
          /\ outbox'[1].epoch = epochID'
      BY <2>5 DEF GoneValues, GoneStep, Emits, Works, InFrame
    <3>2. SaidOf(1)'
      BY <3>1 DEF SaidOf, Starts, Updates
    <3>. QED BY <3>1, <3>2 DEF Sending
  <2>. QED BY <1>2, <2>1, <2>2, <2>3, <2>4, <2>5 DEF SectionValues
<1>3. CASE BeginRun \/ EndRun \/ Killed
  BY <1>3, NothingSent DEF BeginRun, EndRun, Killed, Exits, EngineReplaced
<1>4. CASE EmitSucceeds
  <2>1. UNCHANGED <<pc, activeMap, epochID>> /\ Works' = Works
    BY <1>4 DEF EmitSucceeds, connVars, frameVars, seqVars, Works, InFrame
  <2>2. /\ Len(outbox') = Len(outbox) - 1 /\ Len(outbox) \in Nat
        /\ \A k \in 1..(Len(outbox) - 1) : outbox'[k] = outbox[k + 1]
    BY <1>4, TakenOutbox, StreamParts
  <2>3. ASSUME NEW k \in 1..Len(outbox') PROVE SaidOf(k)'
    <3>1. k + 1 \in 1..Len(outbox) /\ outbox'[k] = outbox[k + 1]
      BY <2>2
    <3>2. SaidOf(k + 1)
      BY <3>1 DEF Sending
    <3>3. k + 1 = Len(outbox) => k = Len(outbox')
      BY <2>2
    <3>4. ASSUME \A m \in 1..Len(outbox) : outbox[m].ev.type \notin Starts,
                 NEW m \in 1..Len(outbox')
          PROVE  outbox'[m].ev.type \notin Starts
      BY <2>2, <3>4
    <3>. QED BY <2>1, <3>1, <3>2, <3>3, <3>4 DEF SaidOf
  <2>. QED BY <2>3 DEF Sending
<1>5. CASE EmitFails
  BY <1>5, NothingSent DEF EmitFails, SinkFails
<1>. QED BY <1>1, <1>2, <1>3, <1>4, <1>5, Values

\* Rows are records with the columns the projector writes, keyed by a session
\* that has begun.
Columns == {"active", "tail", "observedAt", "last", "base", "cum", "class", "endedAt",
            "reason"}
RowsKeyed ==
  \A k \in DOMAIN store.rows :
    /\ k = <<k[1], k[2], k[3]>> /\ k[1] \in 1..Session
    /\ Columns \subseteq DOMAIN store.rows[k]

\* The row an event opens, and what an event makes of a row there is.
LEMMA OpenedRow ==
  ASSUME NEW e, NEW cum
  PROVE  LET row == OpenRow(e, cum)
         IN  /\ Columns \subseteq DOMAIN row
             /\ row.active /\ row.endedAt = NoTime /\ row.observedAt = e.ev.ts
             /\ row.base = e.ev.base /\ row.cum = cum /\ row.class = e.ev.class
BY DEF OpenRow, Columns

\* What an update of a row leaves of it.
Changes(e, row, new) ==
  /\ Columns \subseteq DOMAIN new /\ new.base = row.base
  /\ new.cum = IF e.type = "Delta" THEN e.cum ELSE row.cum
  /\ new.class = IF e.type = "RelayClassificationChanged" THEN e.class ELSE row.class
  /\ new.observedAt = IF e.type \in {"Delta", "Presence"} THEN e.ts
                      ELSE IF e.type = "Disappeared" THEN e.from
                      ELSE row.observedAt
  /\ e.type = "Disappeared" => new.endedAt = e.ts
  /\ e.type # "Disappeared" => new.endedAt = row.endedAt /\ new.active = row.active

LEMMA ChangedRow ==
  ASSUME NEW row, Columns \subseteq DOMAIN row, NEW e, NEW new, new = UpdatedRow(row, e)
  PROVE  Changes(e.ev, row, new)
<1>0. /\ "active" \in DOMAIN row /\ "tail" \in DOMAIN row /\ "observedAt" \in DOMAIN row
      /\ "last" \in DOMAIN row /\ "base" \in DOMAIN row /\ "cum" \in DOMAIN row
      /\ "class" \in DOMAIN row /\ "endedAt" \in DOMAIN row /\ "reason" \in DOMAIN row
  BY DEF Columns
<1>1. DOMAIN new = DOMAIN row
  BY DEF UpdatedRow
<1>2. CASE e.ev.type = "Delta"
  BY <1>0, <1>1, <1>2 DEF Changes, UpdatedRow
<1>3. CASE e.ev.type = "Presence"
  BY <1>0, <1>1, <1>3 DEF Changes, UpdatedRow
<1>4. CASE e.ev.type = "Disappeared"
  BY <1>0, <1>1, <1>4 DEF Changes, UpdatedRow
<1>5. CASE e.ev.type = "RelayClassificationChanged"
  BY <1>0, <1>1, <1>5 DEF Changes, UpdatedRow
<1>6. CASE e.ev.type \notin {"Delta", "Presence", "Disappeared", "RelayClassificationChanged"}
  <2>1. new = row
    BY <1>6 DEF UpdatedRow
  <2>. QED BY <1>0, <1>6, <2>1 DEF Changes, Columns
<1>. QED BY <1>2, <1>3, <1>4, <1>5, <1>6

\* The transaction of an event, as the rows see it.
LEMMA TakenRows ==
  ASSUME Shape, EmitSucceeds
  PROVE  /\ store'.rows = ProjectRows(store.rows, Offered)
         /\ Offered.session = Session /\ Session' = Session
         /\ Offered.epoch = outbox[1].epoch /\ Offered.ev = outbox[1].ev
         /\ Key(Offered) = <<Session, outbox[1].epoch, outbox[1].ev.conn>>
         /\ rebased' = IF outbox[1].ev.type = "Bootstrap" /\ Key(Offered) \in DOMAIN store.rows
                         THEN rebased \cup {Key(Offered)}
                       ELSE IF outbox[1].ev.type = "New" THEN rebased \ {Key(Offered)}
                       ELSE rebased
         /\ UNCHANGED <<pc, activeMap, epochID, clock>>
         /\ Len(outbox) > 0 /\ Len(outbox) \in Nat /\ Len(outbox') = Len(outbox) - 1
         /\ \A k \in 1..(Len(outbox) - 1) : outbox'[k] = outbox[k + 1]
<1>1. store' = Project(store, Offered)
  BY DEF EmitSucceeds, Record
<1>2. store'.rows = ProjectRows(store.rows, Offered)
  BY <1>1 DEF Project
<1>3. /\ Offered.session = Session /\ Offered.epoch = outbox[1].epoch
      /\ Offered.ev = outbox[1].ev
  BY TakenOutbox
<1>4. Session' = Session
  BY RecordSessions
<1>5. UNCHANGED <<pc, activeMap, epochID, clock>>
  BY DEF EmitSucceeds, connVars, frameVars, seqVars, WorldStays
<1>6. rebased' = IF outbox[1].ev.type = "Bootstrap" /\ Key(Offered) \in DOMAIN store.rows
                         THEN rebased \cup {Key(Offered)}
                       ELSE IF outbox[1].ev.type = "New" THEN rebased \ {Key(Offered)}
                       ELSE rebased
  BY <1>3 DEF EmitSucceeds
<1>7. Key(Offered) = <<Session, outbox[1].epoch, outbox[1].ev.conn>>
  BY <1>3 DEF Key
<1>. QED BY <1>2, <1>3, <1>4, <1>5, <1>6, <1>7, TakenOutbox, StreamParts

\* What the transaction of the first event on its way makes of a row: the row
\* begins, a bootstrap meets it, its epoch breaks, it changes, or it is kept.
SentKey == <<Session, outbox[1].epoch, outbox[1].ev.conn>>
SameMark(k) == k \in rebased' <=> k \in rebased
RowBegins(k) ==
  LET e   == outbox[1].ev
      new == store'.rows[k]
  IN  /\ e.type \in Starts /\ k = SentKey
      /\ e.type = "New" => k \notin rebased'
      /\ Columns \subseteq DOMAIN new
      /\ new.active /\ new.endedAt = NoTime /\ new.observedAt = e.ts
      /\ new.base = e.base /\ new.class = e.class
      /\ new.cum = IF e.type = "New" THEN e.cum ELSE Zero
RowMet(k) ==
  LET e   == outbox[1].ev
      new == store'.rows[k]
  IN  /\ e.type = "Bootstrap" /\ k = SentKey
      /\ k \in DOMAIN store.rows /\ k \in rebased'
      /\ Columns \subseteq DOMAIN new
      /\ new.endedAt = store.rows[k].endedAt /\ new.observedAt = e.ts
RowBreaks(k) ==
  LET e   == outbox[1].ev
      new == store'.rows[k]
  IN  /\ e.type = "EpochBreak" /\ k[1] = Session /\ k[2] = outbox[1].epoch
      /\ k \in DOMAIN store.rows /\ SameMark(k)
      /\ Columns \subseteq DOMAIN new
      /\ store.rows[k].endedAt = NoTime /\ new.endedAt = e.ts
      /\ new.observedAt = store.rows[k].observedAt
RowChanges(k) ==
  LET e == outbox[1].ev
  IN  /\ e.type \notin Starts \cup {"EpochBreak"} /\ k = SentKey
      /\ k \in DOMAIN store.rows /\ SameMark(k)
      /\ Changes(e, store.rows[k], store'.rows[k])
RowKept(k) ==
  LET e == outbox[1].ev
  IN  /\ k \in DOMAIN store.rows /\ store'.rows[k] = store.rows[k] /\ SameMark(k)
      /\ e.type # "EpochBreak" => k # SentKey
      /\ e.type = "EpochBreak" =>
           ~(k[1] = Session /\ k[2] = outbox[1].epoch /\ store.rows[k].endedAt = NoTime)

LEMMA RowTaken ==
  ASSUME Shape, RowsKeyed, EmitSucceeds
  PROVE  /\ DOMAIN store.rows \subseteq DOMAIN store'.rows
         /\ outbox[1].ev.type \in Starts => SentKey \in DOMAIN store'.rows
         /\ \A k \in DOMAIN store'.rows :
              RowBegins(k) \/ RowMet(k) \/ RowBreaks(k) \/ RowChanges(k) \/ RowKept(k)
<1>. DEFINE e == outbox[1].ev
            rows == store.rows
            new == store'.rows
<1>1. /\ new = ProjectRows(rows, Offered) /\ Offered.session = Session
      /\ Offered.epoch = outbox[1].epoch /\ Offered.ev = e /\ Key(Offered) = SentKey
  BY TakenRows DEF SentKey
<1>2. rebased' = IF e.type = "Bootstrap" /\ SentKey \in DOMAIN rows
                   THEN rebased \cup {SentKey}
                 ELSE IF e.type = "New" THEN rebased \ {SentKey} ELSE rebased
  BY <1>1, TakenRows
<1>3. /\ e.type \in Starts => DOMAIN new = DOMAIN rows \cup {SentKey}
      /\ e.type \notin Starts => DOMAIN new = DOMAIN rows
      /\ e.type # "EpochBreak" => \A k \in DOMAIN rows : k # SentKey => new[k] = rows[k]
      /\ e.type = "New" => new[SentKey] = OpenRow(Offered, e.cum)
      /\ e.type = "Bootstrap" =>
           new[SentKey] = IF SentKey \in DOMAIN rows
                            THEN [rows[SentKey] EXCEPT !.observedAt = e.ts]
                            ELSE OpenRow(Offered, Zero)
      /\ e.type = "EpochBreak" =>
           new = EndObservations(rows, OfEpoch(rows, Session, outbox[1].epoch),
                                 e.ts, "epoch_boundary")
      /\ (e.type \notin Starts \cup {"EpochBreak"} /\ SentKey \in DOMAIN rows)
           => new[SentKey] = UpdatedRow(rows[SentKey], Offered)
  <2>1. PICK o : o = Offered
    OBVIOUS
  <2>2. /\ new = ProjectRows(rows, o) /\ Key(o) = SentKey
        /\ o.session = Session /\ o.epoch = outbox[1].epoch /\ o.ev = e
    BY <1>1, <2>1
  <2>3. CASE e.type = "Bootstrap"
    BY <2>1, <2>2, <2>3 DEF ProjectRows, BootstrapRow, With, Starts
  <2>4. CASE e.type = "New"
    BY <2>1, <2>2, <2>4 DEF ProjectRows, With, Starts
  <2>5. CASE e.type = "EpochBreak"
    <3>1. new = EndObservations(rows, OfEpoch(rows, Session, outbox[1].epoch),
                                e.ts, "epoch_boundary")
      BY <2>2, <2>5 DEF ProjectRows
    <3>2. DOMAIN new = DOMAIN rows
      BY <3>1 DEF EndObservations
    <3>. QED BY <2>5, <3>1, <3>2 DEF Starts
  <2>6. CASE e.type \notin Starts \cup {"EpochBreak"}
    <3>1. new = IF SentKey \in DOMAIN rows
                  THEN [rows EXCEPT ![SentKey] = UpdatedRow(rows[SentKey], o)] ELSE rows
      BY <2>2, <2>6 DEF ProjectRows, Starts
    <3>. QED BY <2>1, <2>6, <3>1 DEF Starts
  <2>. QED BY <2>3, <2>4, <2>5, <2>6 DEF Starts
<1>4. ASSUME NEW k \in DOMAIN new
      PROVE  RowBegins(k) \/ RowMet(k) \/ RowBreaks(k) \/ RowChanges(k) \/ RowKept(k)
  <2>1. CASE e.type = "New" /\ k = SentKey
    <3>1. new[k] = OpenRow(Offered, e.cum) /\ k \notin rebased'
      BY <1>2, <1>3, <2>1
    <3>. QED BY <1>1, <2>1, <3>1, OpenedRow DEF RowBegins, Starts
  <2>2. CASE e.type = "Bootstrap" /\ k = SentKey /\ k \notin DOMAIN rows
    <3>1. new[k] = OpenRow(Offered, Zero)
      BY <1>3, <2>2
    <3>. QED BY <1>1, <2>2, <3>1, OpenedRow DEF RowBegins, Starts
  <2>3. CASE e.type = "Bootstrap" /\ k = SentKey /\ k \in DOMAIN rows
    <3>1. new[k] = [rows[k] EXCEPT !.observedAt = e.ts] /\ k \in rebased'
      BY <1>2, <1>3, <2>3
    <3>2. "observedAt" \in DOMAIN rows[k] /\ Columns \subseteq DOMAIN rows[k]
      BY <2>3 DEF RowsKeyed, Columns
    <3>. QED BY <2>3, <3>1, <3>2 DEF RowMet
  <2>4. CASE e.type = "EpochBreak"
    <3>1. k \in DOMAIN rows /\ SameMark(k)
      BY <1>2, <1>3, <2>4 DEF Starts, SameMark
    <3>2. new[k] = IF k \in OfEpoch(rows, Session, outbox[1].epoch) /\ rows[k].endedAt = NoTime
                     THEN [rows[k] EXCEPT !.endedAt = e.ts, !.reason = "epoch_boundary"]
                     ELSE rows[k]
      BY <1>3, <2>4, <3>1 DEF EndObservations
    <3>3. k \in OfEpoch(rows, Session, outbox[1].epoch)
            <=> k[1] = Session /\ k[2] = outbox[1].epoch
      BY <3>1 DEF OfEpoch, OfSession
    <3>4. "endedAt" \in DOMAIN rows[k] /\ Columns \subseteq DOMAIN rows[k]
      BY <3>1 DEF RowsKeyed, Columns
    <3>. QED BY <2>4, <3>1, <3>2, <3>3, <3>4 DEF RowBreaks, RowKept
  <2>5. CASE e.type \notin Starts \cup {"EpochBreak"} /\ k = SentKey
    <3>1. k \in DOMAIN rows /\ new[k] = UpdatedRow(rows[k], Offered) /\ SameMark(k)
      BY <1>2, <1>3, <2>5 DEF Starts, SameMark
    <3>2. Columns \subseteq DOMAIN rows[k]
      BY <3>1 DEF RowsKeyed
    <3>3. Changes(Offered.ev, rows[k], new[k])
      BY <3>1, <3>2, ChangedRow
    <3>. QED BY <1>1, <2>5, <3>1, <3>3 DEF RowChanges
  <2>6. CASE e.type # "EpochBreak" /\ k # SentKey
    <3>1. k \in DOMAIN rows /\ new[k] = rows[k] /\ SameMark(k)
      BY <1>2, <1>3, <2>6 DEF SameMark
    <3>. QED BY <2>6, <3>1 DEF RowKept
  <2>. QED BY <2>1, <2>2, <2>3, <2>4, <2>5, <2>6 DEF Starts
<1>. QED BY <1>3, <1>4

\* The sessions' columns.
SessionRow ==
  [startedAt : Nat, status : {"running", "closed_clean", "interrupted"},
   endedAt : Nat, lastEventAt : Nat, heartbeatAt : Nat]
SessionsTyped == \A s \in 1..Session : sessions[s] \in SessionRow

\* What an event, the end of a session and the beginning of one write there.
LEMMA TakenSession ==
  ASSUME Shape, SessionsTyped, Moment, EmitSucceeds
  PROVE  /\ Session' = Session /\ Session \in 1..Session
         /\ sessions'[Session] = [sessions[Session] EXCEPT !.lastEventAt = clock,
                                                           !.heartbeatAt = clock]
         /\ \A s \in 1..(Session - 1) : sessions'[s] = sessions[s]
<1>1. Session' = Session /\ Session \in 1..Session /\ DOMAIN sessions = 1..Session
      /\ Session \in Nat
  BY RecordSessions, SessionCount
<1>2. Offered.session = Session /\ Offered.ev.ts = clock
  <2>1. Offered.session = Session /\ Offered.ev = outbox[1].ev /\ 1 \in 1..Len(outbox)
    BY TakenOutbox, StreamParts
  <2>. QED BY <2>1 DEF Moment
<1>3. sessions' = [sessions EXCEPT ![Session].lastEventAt = clock,
                                   ![Session].heartbeatAt = clock]
  BY <1>2 DEF EmitSucceeds, Record
<1>. QED BY <1>1, <1>3

LEMMA EndedSession ==
  ASSUME Shape, EndRun
  PROVE  /\ Session' = Session /\ Session \in 1..Session
         /\ sessions'[Session] = [sessions[Session] EXCEPT
                                    !.status = IF fatal THEN "interrupted" ELSE "closed_clean",
                                    !.endedAt = clock, !.heartbeatAt = clock]
         /\ \A s \in 1..(Session - 1) : sessions'[s] = sessions[s]
<1>1. Session' = Session /\ Session \in 1..Session /\ DOMAIN sessions = 1..Session
      /\ Session \in Nat
  BY EndSessions, SessionCount
<1>. DEFINE status == IF fatal THEN "interrupted" ELSE "closed_clean"
<1>3. sessions' = [sessions EXCEPT ![Session].status = status, ![Session].endedAt = clock,
                                   ![Session].heartbeatAt = clock]
  BY DEF EndRun, EndSession
<1>. HIDE DEF status
<1>4. /\ sessions'[Session] = [sessions[Session] EXCEPT !.status = status,
                                 !.endedAt = clock, !.heartbeatAt = clock]
      /\ \A s \in 1..(Session - 1) : sessions'[s] = sessions[s]
  BY <1>1, <1>3
<1>. QED BY <1>1, <1>4 DEF status

LEMMA BegunSession ==
  ASSUME Shape, SessionsTyped, BeginRun
  PROVE  /\ Session' = Session + 1 /\ Session \in Nat
         /\ sessions'[Session + 1] = NewSession(clock)
         /\ \A s \in 1..(Session - 1) : sessions'[s] = sessions[s]
         /\ Session > 0 =>
              /\ NextSession(clock) /\ Last(sessions) = sessions[Session]
              /\ sessions'[Session] =
                   IF sessions[Session].status = "running"
                     THEN [sessions[Session] EXCEPT !.status = "interrupted",
                                                    !.endedAt = clock]
                   ELSE sessions[Session]
         /\ Session = 0 => FirstSession(clock)
<1>. DEFINE new == NewSession(clock)
<1>1. Session' = Session + 1 /\ Session \in Nat /\ DOMAIN sessions = 1..Session
      /\ IsSeq(sessions)
  BY BeginSessions, SessionCount DEF Shape, SessionsShape
<1>2. CASE FirstSession(clock)
  <2>1. sessions = << >> /\ sessions' = <<new>>
    BY <1>2 DEF FirstSession
  <2>. HIDE DEF new
  <2>2. Session = 0 /\ sessions'[1] = new
    BY <2>1, ShortSeqs DEF Session
  <2>. QED BY <1>1, <1>2, <2>2 DEF new
<1>3. CASE NextSession(clock)
  <2>. DEFINE old == IF Last(sessions).status = "running"
                       THEN [sessions EXCEPT ![Session].status = "interrupted",
                                             ![Session].endedAt = clock]
                     ELSE sessions
  <2>1. sessions' = Append(old, new)
    BY <1>3 DEF NextSession
  <2>2. Session \in 1..Session /\ Last(sessions) = sessions[Session]
    BY <1>1, <1>3 DEF NextSession, Last, Session, IsSeq
  <2>3. /\ DOMAIN old = 1..Session
        /\ \A s \in 1..(Session - 1) : old[s] = sessions[s]
        /\ old[Session] = IF sessions[Session].status = "running"
                            THEN [sessions[Session] EXCEPT !.status = "interrupted",
                                                           !.endedAt = clock]
                          ELSE sessions[Session]
    BY <1>1, <2>2
  <2>4. old = [s \in 1..Session |-> old[s]]
    <3>1. sessions = [s \in 1..Session |-> sessions[s]]
      BY <1>1, SeqParts DEF Session
    <3>2. CASE Last(sessions).status = "running"
      <4>. DEFINE r == [sessions[Session] EXCEPT !.status = "interrupted", !.endedAt = clock]
      <4>1. old = [sessions EXCEPT ![Session] = r]
        BY <1>1, <2>2, <3>2
      <4>. HIDE DEF r, old
      <4>. QED BY <3>1, <4>1
    <3>3. CASE Last(sessions).status # "running"
      BY <3>1, <3>3
    <3>. QED BY <3>2, <3>3
  <2>. HIDE DEF old, new
  <2>5. IsSeq(old) /\ Len(old) = Session
    BY <1>1, <2>4, SeqMade
  <2>6. /\ sessions'[Session + 1] = new
        /\ \A s \in 1..Session : sessions'[s] = old[s]
    BY <2>1, <2>5, AppendParts
  <2>. QED BY <1>1, <1>3, <2>2, <2>3, <2>6 DEF new
<1>. QED BY <1>2, <1>3 DEF BeginRun, BeginSession

LEMMA SessionsTypedNext ==
  ASSUME Shape, ConnsTyped, Moment, SessionsTyped, [Next]_vars
  PROVE  SessionsTyped'
<1>0. clock \in Nat /\ clock' \in Nat
  BY MomentNext DEF Moment
<1>1. CASE WorldValues
  <2>1. Session' = Session
    BY <1>1 DEF WorldValues, WorldStep, Session
  <2>2. ASSUME NEW s \in 1..Session PROVE sessions'[s] \in SessionRow
    BY <1>0, <1>1, <2>2 DEF WorldValues, SessionsTyped, SessionRow
  <2>. QED BY <2>1, <2>2 DEF SessionsTyped
<1>2. CASE SectionValues \/ Killed \/ EmitFails
  BY <1>2 DEF SectionValues, SectionStep, Killed, EmitFails, storeVars, SessionsTyped, Session
<1>3. CASE BeginRun
  <2>1. NewSession(clock) \in SessionRow
    BY <1>0 DEF NewSession, SessionRow, NoTime
  <2>2. ASSUME NEW s \in 1..Session' PROVE sessions'[s] \in SessionRow
    <3>1. CASE s = Session + 1
      BY <1>3, <2>1, <3>1, BegunSession
    <3>2. CASE s = Session
      <4>1. sessions[Session] \in SessionRow /\ Session > 0
        BY <1>3, <2>2, <3>2, BegunSession DEF SessionsTyped
      <4>2. sessions'[Session] \in {sessions[Session],
              [sessions[Session] EXCEPT !.status = "interrupted", !.endedAt = clock]}
        BY <1>3, <4>1, BegunSession
      <4>. QED BY <1>0, <3>2, <4>1, <4>2 DEF SessionRow
    <3>3. CASE s \notin {Session, Session + 1}
      <4>1. s \in 1..(Session - 1) /\ s \in 1..Session
        BY <1>3, <2>2, <3>3, BegunSession
      <4>. QED BY <1>3, <4>1, BegunSession DEF SessionsTyped
    <3>. QED BY <3>1, <3>2, <3>3
  <2>. QED BY <2>2 DEF SessionsTyped
<1>4. CASE EndRun \/ EmitSucceeds
  <2>. DEFINE r == sessions[Session]
  <2>1. /\ Session' = Session /\ Session \in 1..Session
        /\ \A s \in 1..(Session - 1) : sessions'[s] = sessions[s]
        /\ sessions'[Session] \in
             {[r EXCEPT !.lastEventAt = clock, !.heartbeatAt = clock],
              [r EXCEPT !.status = "interrupted", !.endedAt = clock, !.heartbeatAt = clock],
              [r EXCEPT !.status = "closed_clean", !.endedAt = clock, !.heartbeatAt = clock]}
    <3>1. CASE EndRun
      BY <3>1, EndedSession
    <3>2. CASE EmitSucceeds
      BY <3>2, TakenSession
    <3>. QED BY <1>4, <3>1, <3>2
  <2>2. r \in SessionRow
    BY <2>1 DEF SessionsTyped
  <2>. HIDE DEF r
  <2>3. sessions'[Session] \in SessionRow
    BY <1>0, <2>1, <2>2 DEF SessionRow
  <2>4. ASSUME NEW s \in 1..Session PROVE sessions'[s] \in SessionRow
    <3>1. s = Session \/ s \in 1..(Session - 1)
      BY <2>1
    <3>. QED BY <2>1, <2>3, <3>1 DEF SessionsTyped
  <2>. QED BY <2>1, <2>4 DEF SessionsTyped
<1>. QED BY <1>1, <1>2, <1>3, <1>4, Values

\* The rows a session's end, and the beginning of the next, leave behind.
LEMMA ClosedRows ==
  ASSUME Shape, RowsKeyed, NEW at, NEW reason,
         store'.rows = EndObservations(store.rows, OfSession(store.rows, Session), at, reason)
  PROVE  /\ DOMAIN store'.rows = DOMAIN store.rows
         /\ \A k \in DOMAIN store.rows :
              /\ Columns \subseteq DOMAIN store'.rows[k]
              /\ store'.rows[k].observedAt = store.rows[k].observedAt
              /\ store'.rows[k].endedAt =
                   IF k[1] = Session /\ store.rows[k].endedAt = NoTime THEN at
                   ELSE store.rows[k].endedAt
<1>1. DOMAIN store'.rows = DOMAIN store.rows
  BY DEF EndObservations
<1>2. ASSUME NEW k \in DOMAIN store.rows
      PROVE  /\ Columns \subseteq DOMAIN store'.rows[k]
             /\ store'.rows[k].observedAt = store.rows[k].observedAt
             /\ store'.rows[k].endedAt =
                  IF k[1] = Session /\ store.rows[k].endedAt = NoTime THEN at
                  ELSE store.rows[k].endedAt
  <2>. DEFINE old == store.rows[k]
  <2>1. Columns \subseteq DOMAIN old
    BY DEF RowsKeyed
  <2>2. k \in OfSession(store.rows, Session) <=> k[1] = Session
    BY DEF OfSession
  <2>3. store'.rows[k] = IF k \in OfSession(store.rows, Session) /\ old.endedAt = NoTime
                           THEN [old EXCEPT !.endedAt = at, !.reason = reason] ELSE old
    BY DEF EndObservations
  <2>4. CASE k[1] = Session /\ old.endedAt = NoTime
    <3>1. store'.rows[k] = [old EXCEPT !.endedAt = at, !.reason = reason]
      BY <2>2, <2>3, <2>4
    <3>2. "endedAt" \in DOMAIN old
      BY <2>1 DEF Columns
    <3>. HIDE DEF old
    <3>3. /\ DOMAIN store'.rows[k] = DOMAIN old
          /\ store'.rows[k].observedAt = old.observedAt /\ store'.rows[k].endedAt = at
      BY <3>1, <3>2
    <3>. QED BY <2>1, <2>4, <3>3 DEF old
  <2>5. CASE ~(k[1] = Session /\ old.endedAt = NoTime)
    BY <2>1, <2>2, <2>3, <2>5
  <2>. QED BY <2>4, <2>5
<1>. QED BY <1>1, <1>2

\* Where the end of the session, and the next beginning, close its open rows.
EndsAt == IF fatal THEN FirstKnown(sessions[Session].lastEventAt, clock, clock) ELSE clock
CrashedAt == FirstKnown(sessions[Session].lastEventAt, clock, clock)

LEMMA EndedRows ==
  ASSUME Shape, RowsKeyed, EndRun
  PROVE  /\ DOMAIN store'.rows = DOMAIN store.rows
         /\ \A k \in DOMAIN store.rows :
              /\ Columns \subseteq DOMAIN store'.rows[k]
              /\ store'.rows[k].observedAt = store.rows[k].observedAt
              /\ store'.rows[k].endedAt =
                   IF k[1] = Session /\ store.rows[k].endedAt = NoTime THEN EndsAt
                   ELSE store.rows[k].endedAt
<1>1. \E reason : store'.rows =
        EndObservations(store.rows, OfSession(store.rows, Session), EndsAt, reason)
  <2>. DEFINE status == IF fatal THEN "interrupted" ELSE "closed_clean"
              at     == IF status = "interrupted"
                          THEN FirstKnown(sessions[Session].lastEventAt, clock, clock)
                        ELSE clock
  <2>1. store' = [store EXCEPT !.rows =
                    EndObservations(@, OfSession(@, Session), at, EndReason(status))]
    BY DEF EndRun, EndSession
  <2>2. at = EndsAt
    BY DEF EndsAt
  <2>. HIDE DEF at, status
  <2>3. "rows" \in DOMAIN store
    BY DEF Shape, StoreShape
  <2>. QED BY <2>1, <2>2, <2>3
<1>. QED BY <1>1, ClosedRows

LEMMA BegunRows ==
  ASSUME Shape, RowsKeyed, SessionsTyped, BeginRun
  PROVE  /\ DOMAIN store'.rows = DOMAIN store.rows
         /\ \A k \in DOMAIN store.rows :
              /\ Columns \subseteq DOMAIN store'.rows[k]
              /\ store'.rows[k].observedAt = store.rows[k].observedAt
              /\ store'.rows[k].endedAt =
                   IF k[1] = Session /\ Running(Session) /\ store.rows[k].endedAt = NoTime
                     THEN CrashedAt ELSE store.rows[k].endedAt
<1>1. Session \in Nat
  BY SessionCount
<1>2. CASE Session = 0
  <2>1. store' = store
    BY <1>2, BegunSession DEF FirstSession
  <2>2. DOMAIN store.rows = {}
    BY <1>2 DEF RowsKeyed
  <2>. QED BY <2>1, <2>2
<1>3. CASE Session > 0
  <2>1. NextSession(clock) /\ Last(sessions) = sessions[Session]
    BY <1>3, BegunSession
  <2>2. CASE Running(Session)
    <3>1. /\ Last(sessions).status = "running"
          /\ OfflineSince(Last(sessions), clock) = CrashedAt
      BY <2>1, <2>2 DEF Running, OfflineSince, CrashedAt
    <3>2. store'.rows = EndObservations(store.rows, OfSession(store.rows, Session), CrashedAt,
                                        "collector_session_interrupted")
      BY <2>1, <3>1 DEF NextSession
    <3>. QED BY <2>2, <3>2, ClosedRows
  <2>3. CASE ~Running(Session)
    <3>1. Last(sessions).status # "running"
      BY <2>1, <2>3 DEF Running
    <3>2. store'.rows = store.rows
      BY <2>1, <3>1 DEF NextSession
    <3>. QED BY <2>3, <3>2 DEF RowsKeyed
  <2>. QED BY <2>2, <2>3
<1>. QED BY <1>1, <1>2, <1>3

LEMMA RowsKeyedNext ==
  ASSUME Shape, SessionsTyped, RowsKeyed, [Next]_vars
  PROVE  RowsKeyed'
<1>1. CASE WorldStep
  BY <1>1 DEF WorldStep, RowsKeyed, Session
<1>2. CASE SectionStep \/ Killed \/ EmitFails
  BY <1>2 DEF SectionStep, Killed, EmitFails, storeVars, RowsKeyed, Session
<1>3. CASE BeginRun
  <2>1. Session' = Session + 1 /\ Session \in Nat
    BY <1>3, BegunSession
  <2>2. 1..Session \subseteq 1..Session'
    BY <2>1
  <2>. QED BY <1>3, <2>2, BegunRows DEF RowsKeyed
<1>4. CASE EndRun
  <2>1. Session' = Session
    BY <1>4, EndedSession
  <2>. QED BY <1>4, <2>1, EndedRows DEF RowsKeyed
<1>5. CASE EmitSucceeds
  <2>1. Session' = Session /\ Session \in 1..Session
    BY <1>5, RecordSessions
  <2>2. ASSUME NEW k \in DOMAIN store'.rows
        PROVE  /\ k = <<k[1], k[2], k[3]>> /\ k[1] \in 1..Session
               /\ Columns \subseteq DOMAIN store'.rows[k]
    <3>1. RowBegins(k) \/ RowMet(k) \/ RowBreaks(k) \/ RowChanges(k) \/ RowKept(k)
      BY <1>5, RowTaken
    <3>2. CASE RowBegins(k)
      BY <2>1, <3>2 DEF RowBegins, SentKey
    <3>3. CASE k \in DOMAIN store.rows
      BY <3>1, <3>3 DEF RowsKeyed, RowBegins, RowMet, RowBreaks, RowChanges, Changes, RowKept
    <3>. QED BY <3>1, <3>2, <3>3 DEF RowMet, RowBreaks, RowChanges, Changes, RowKept
  <2>. QED BY <2>1, <2>2 DEF RowsKeyed
<1>. QED BY <1>1, <1>2, <1>3, <1>4, <1>5, Steps

\* A connection a section leaves alone, or speaks of, still has its row.
LEMMA HeldStill ==
  ASSUME NEW id, Holds(id), Settled, UNCHANGED <<store, rebased, epochID>>,
         Session' = Session, activeMap'[id].base = activeMap[id].base,
         activeMap'[id].cum = activeMap[id].cum \/ Coming(id, {"Delta"})',
         \/ activeMap'[id].class = activeMap[id].class
         \/ Coming(id, {"RelayClassificationChanged"})'
  PROVE  Holds(id)'
<1>1. \A types : ~Coming(id, types)
  BY ShortSeqs DEF Coming, Settled
<1>2. RowKey(id)' = RowKey(id)
  BY DEF RowKey
<1>. QED BY <1>1, <1>2 DEF Holds

\* The connection of the event that is taken, and those of the others.
LEMMA StartHolds ==
  ASSUME Shape, RowsKeyed, Sending, EmitSucceeds, outbox[1].ev.type \in Starts,
         NEW id, id = outbox[1].ev.conn
  PROVE  Holds(id)'
<1>. DEFINE e == outbox[1].ev
            k == RowKey(id)
<1>1. /\ UNCHANGED <<activeMap, epochID>> /\ Session' = Session /\ 1 \in 1..Len(outbox)
  BY TakenRows
<1>2. SaidOf(1)
  BY <1>1 DEF Sending
<1>3. SentKey = k /\ k = RowKey(id)'
  BY <1>1, <1>2 DEF SaidOf, SentKey, RowKey
<1>4. /\ e.cum = activeMap[id].cum /\ e.base = activeMap[id].base
      /\ e.class = activeMap[id].class /\ (e.type = "Bootstrap" => e.cum = Zero)
      /\ e.type \in {"New", "Bootstrap"}
  BY <1>2 DEF SaidOf, Starts
<1>5. k \in DOMAIN store'.rows /\ (RowBegins(k) \/ RowMet(k))
  <2>1. /\ k \in DOMAIN store'.rows
        /\ RowBegins(k) \/ RowMet(k) \/ RowBreaks(k) \/ RowChanges(k) \/ RowKept(k)
    BY <1>3, RowTaken
  <2>. QED BY <1>3, <1>4, <2>1 DEF RowBreaks, RowChanges, RowKept, Starts
<1>. HIDE DEF e
<1>6. CASE RowBegins(k)
  <2>. DEFINE new == store'.rows[k]
  <2>1. /\ new.active /\ new.endedAt = NoTime
        /\ new.base = e.base /\ new.class = e.class /\ new.cum = e.cum
    BY <1>4, <1>6 DEF RowBegins, e
  <2>2. /\ new.base = activeMap'[id].base /\ new.class = activeMap'[id].class
        /\ new.cum = activeMap'[id].cum
    BY <1>1, <1>4, <2>1
  <2>. HIDE DEF k
  <2>. QED BY <1>3, <1>5, <2>1, <2>2 DEF Holds
<1>7. CASE RowMet(k)
  <2>1. k \in rebased'
    BY <1>7 DEF RowMet
  <2>. HIDE DEF k
  <2>. QED BY <1>3, <1>5, <2>1 DEF Holds
<1>. QED BY <1>5, <1>6, <1>7

\* What is on its way behind the event that is taken stays on its way.
LEMMA StillComing ==
  ASSUME Shape, EmitSucceeds, NEW id, NEW types, Coming(id, types),
         ~(outbox[1].ev.conn = id /\ outbox[1].ev.type \in types)
  PROVE  Coming(id, types)'
<1>1. /\ Len(outbox) \in Nat /\ Len(outbox') = Len(outbox) - 1
      /\ \A k \in 1..(Len(outbox) - 1) : outbox'[k] = outbox[k + 1]
  BY TakenRows
<1>2. PICK m \in 1..Len(outbox) : outbox[m].ev.conn = id /\ outbox[m].ev.type \in types
  BY DEF Coming
<1>3. m - 1 \in 1..(Len(outbox) - 1) /\ m - 1 \in 1..Len(outbox') /\ (m - 1) + 1 = m
  BY <1>1, <1>2
<1>4. outbox'[m - 1] = outbox[m]
  BY <1>1, <1>3
<1>. QED BY <1>2, <1>3, <1>4 DEF Coming

LEMMA OtherHolds ==
  ASSUME Shape, RowsKeyed, Sending, EmitSucceeds, Works,
         NEW id \in DOMAIN activeMap, Holds(id),
         ~(outbox[1].ev.conn = id /\ outbox[1].ev.type \in Starts)
  PROVE  Holds(id)'
<1>. DEFINE e   == outbox[1].ev
            k   == RowKey(id)
            old == store.rows[k]
            new == store'.rows[k]
<1>1. UNCHANGED <<activeMap, epochID>> /\ Session' = Session /\ 1 \in 1..Len(outbox)
  BY TakenRows
<1>2. SaidOf(1)
  BY <1>1 DEF Sending
<1>3. /\ k = RowKey(id)' /\ k[1] = Session /\ k[2] = epochID
      /\ k = SentKey => e.conn = id
      /\ e.type \in Starts \cup Updates /\ e.conn = id => k = SentKey
  BY <1>1, <1>2 DEF SentKey, RowKey, SaidOf
<1>4. /\ k \in DOMAIN store.rows /\ k \in DOMAIN store'.rows
      /\ RowBegins(k) \/ RowMet(k) \/ RowBreaks(k) \/ RowChanges(k) \/ RowKept(k)
  <2>1. k \in DOMAIN store.rows
    BY DEF Holds
  <2>. QED BY <2>1, RowTaken
<1>5. ~RowBegins(k)
  BY <1>3 DEF RowBegins
<1>6. ~RowBreaks(k)
  <2>1. epochID \in Nat /\ outbox[1].epoch \in Nat
    BY <1>1 DEF Shape, EngineShape
  <2>. QED BY <1>2, <1>3, <2>1 DEF RowBreaks, SaidOf
<1>7. CASE RowMet(k)
  <2>1. k \in rebased'
    BY <1>7 DEF RowMet
  <2>. HIDE DEF k
  <2>. QED BY <1>3, <1>4, <2>1 DEF Holds
<1>8. CASE RowChanges(k) \/ RowKept(k)
  <2>1. SameMark(k)
    BY <1>8 DEF RowChanges, RowKept
  <2>2. CASE k \in rebased
    <3>1. k \in rebased'
      BY <2>1, <2>2 DEF SameMark
    <3>. HIDE DEF k
    <3>. QED BY <1>3, <1>4, <3>1 DEF Holds
  <2>3. CASE k \notin rebased
    <3>1. /\ old.active /\ old.endedAt = NoTime /\ old.base = activeMap[id].base
          /\ old.cum = activeMap[id].cum \/ Coming(id, {"Delta"})
          /\ old.class = activeMap[id].class \/ Coming(id, {"RelayClassificationChanged"})
      BY <2>3 DEF Holds
    <3>2. /\ new.active = old.active /\ new.endedAt = old.endedAt /\ new.base = old.base
          /\ \/ new.cum = old.cum /\ ~(e.conn = id /\ e.type = "Delta")
             \/ new.cum = activeMap[id].cum
          /\ \/ /\ new.class = old.class
                /\ ~(e.conn = id /\ e.type = "RelayClassificationChanged")
             \/ new.class = activeMap[id].class
      <4>1. CASE RowChanges(k)
        <5>1. e.conn = id /\ e.type # "Disappeared"
          BY <1>2, <1>3, <4>1 DEF RowChanges, SaidOf
        <5>2. /\ e.type = "Delta" => e.cum = activeMap[id].cum
              /\ e.type = "RelayClassificationChanged" => e.class = activeMap[id].class
          BY <1>2, <5>1 DEF SaidOf
        <5>. QED BY <4>1, <5>1, <5>2 DEF RowChanges, Changes
      <4>2. CASE RowKept(k)
        <5>1. new = old
          BY <4>2 DEF RowKept
        <5>2. ~(e.conn = id /\ e.type \in Updates)
          BY <1>3, <4>2 DEF RowKept, Updates
        <5>. QED BY <5>1, <5>2 DEF Updates
      <4>. QED BY <1>8, <4>1, <4>2
    <3>3. /\ new.cum = activeMap[id].cum \/ Coming(id, {"Delta"})'
          /\ new.class = activeMap[id].class \/ Coming(id, {"RelayClassificationChanged"})'
      BY <3>1, <3>2, StillComing
    <3>4. /\ new.active /\ new.endedAt = NoTime /\ new.base = activeMap'[id].base
          /\ new.cum = activeMap'[id].cum \/ Coming(id, {"Delta"})'
          /\ new.class = activeMap'[id].class \/ Coming(id, {"RelayClassificationChanged"})'
      BY <1>1, <3>1, <3>2, <3>3
    <3>. HIDE DEF k
    <3>. QED BY <1>3, <1>4, <3>4 DEF Holds
  <2>. QED BY <2>2, <2>3
<1>. QED BY <1>4, <1>5, <1>6, <1>7, <1>8

LEMMA EngineInRowsNext ==
  ASSUME Shape, ConnsTyped, Moment, Sending, RowsKeyed, EngineInRows, [Next]_vars
  PROVE  EngineInRows'
<1>. DEFINE Kept(id) == Coming(id, Starts)' \/ Holds(id)'
<1>1. CASE WorldValues
  <2>1. UNCHANGED <<store, rebased, epochID, activeMap, outbox, pc>> /\ Session' = Session
    BY <1>1 DEF WorldValues, WorldStep, engineVars, connVars, frameVars, seqVars, Session
  <2>. QED BY <2>1 DEF EngineInRows, Works, InFrame, Coming, Holds, RowKey
<1>2. CASE SectionValues
  <2>0. UNCHANGED <<store, rebased>> /\ Session' = Session
    BY <1>2 DEF SectionValues, SectionStep, storeVars, Session
  <2>1. ASSUME Works, Settled, NEW x \in DOMAIN activeMap, UNCHANGED epochID,
               activeMap'[x] = activeMap[x]
        PROVE  Kept(x)
    <3>1. Holds(x)
      BY <2>1, ShortSeqs DEF EngineInRows, Coming, Settled
    <3>. QED BY <2>0, <2>1, <3>1, HeldStill
  <2>2. CASE QuietValues
    <3>1. Settled /\ UNCHANGED <<epochID, activeMap>> /\ (Works' => Works)
      BY <2>2 DEF QuietValues, QuietStep, Works, InFrame
    <3>. QED BY <2>1, <3>1 DEF EngineInRows
  <2>3. CASE BegunValues
    <3>1. Settled /\ Works
      BY <2>3 DEF BegunValues, BeginStep, Idle, Works
    <3>2. \/ UNCHANGED <<epochID, activeMap>>
          \/ DOMAIN activeMap' = {}
      BY <2>3 DEF BegunValues, BeginStep
    <3>. QED BY <2>1, <3>1, <3>2 DEF EngineInRows
  <2>4. CASE EndValues
    <3>1. Settled /\ UNCHANGED <<epochID, activeMap>> /\ Works
      BY <2>4 DEF EndValues, EndStep, Works, InFrame
    <3>. QED BY <2>1, <3>1 DEF EngineInRows
  <2>5. ASSUME NEW id \in todo, ConnValues(id) PROVE EngineInRows'
    <3>1. Settled /\ UNCHANGED epochID /\ Works
      BY <2>5 DEF ConnValues, ConnStep, Works, InFrame
    <3>2. ASSUME NEW x \in DOMAIN activeMap', x # id PROVE Kept(x)
      <4>1. x \in DOMAIN activeMap /\ activeMap'[x] = activeMap[x]
        BY <2>5, <3>2 DEF ConnValues, ConnStep, Touched, Begun
      <4>. QED BY <2>1, <3>1, <4>1
    <3>3. CASE Touched(id)
      <4>1. id \in DOMAIN activeMap /\ \A k \in 1..Len(outbox') : outbox'[k].ev.conn = id
        BY <2>5, <3>3 DEF ConnValues, ConnStep, Touched
      <4>2. /\ activeMap'[id].base = activeMap[id].base
            /\ activeMap'[id].cum = activeMap[id].cum \/ Coming(id, {"Delta"})'
            /\ \/ activeMap'[id].class = activeMap[id].class
               \/ Coming(id, {"RelayClassificationChanged"})'
        BY <2>5, <3>3, <4>1 DEF ConnValues, Coming
      <4>3. Holds(id)
        BY <3>1, <4>1, ShortSeqs DEF EngineInRows, Coming, Settled
      <4>4. Holds(id)'
        BY <2>0, <3>1, <4>2, <4>3, HeldStill
      <4>. QED BY <3>2, <4>4 DEF EngineInRows
    <3>4. CASE Begun(id)
      <4>1. /\ outbox'[Len(outbox')].ev.type \in Starts /\ Len(outbox') \in 1..Len(outbox')
            /\ outbox'[Len(outbox')].ev.conn = id
        <5>1. Len(outbox') > 0 /\ IsSeq(outbox')
          BY <2>5, <3>4 DEF ConnValues, ConnStep, Begun, Emits
        <5>2. Len(outbox') \in 1..Len(outbox')
          BY <5>1, SeqParts
        <5>. QED BY <2>5, <3>4, <5>2 DEF ConnValues, ConnStep, Begun
      <4>2. Coming(id, Starts)'
        BY <4>1 DEF Coming
      <4>. QED BY <3>2, <4>2 DEF EngineInRows
    <3>. QED BY <2>5, <3>3, <3>4 DEF ConnValues, ConnStep
  <2>6. ASSUME NEW id \in DOMAIN activeMap, GoneValues(id) PROVE EngineInRows'
    <3>1. Settled /\ UNCHANGED epochID /\ Works
      BY <2>6 DEF GoneValues, GoneStep, Works, InFrame
    <3>2. \A x \in DOMAIN activeMap' : x \in DOMAIN activeMap /\ activeMap'[x] = activeMap[x]
      BY <2>6 DEF GoneValues, Without
    <3>. QED BY <2>1, <3>1, <3>2 DEF EngineInRows
  <2>. QED BY <1>2, <2>2, <2>3, <2>4, <2>5, <2>6 DEF SectionValues
<1>3. CASE BeginRun \/ EndRun \/ Killed
  <2>1. activeMap' = << >>
    BY <1>3 DEF BeginRun, EndRun, Killed, Exits, EngineReplaced
  <2>. QED BY <2>1 DEF EngineInRows
<1>4. CASE EmitSucceeds
  <2>1. UNCHANGED <<pc, activeMap>> /\ Works' = Works
    BY <1>4, TakenRows DEF Works, InFrame
  <2>2. ASSUME Works, NEW id \in DOMAIN activeMap PROVE Kept(id)
    <3>1. CASE outbox[1].ev.conn = id /\ outbox[1].ev.type \in Starts
      BY <1>4, <3>1, StartHolds
    <3>2. CASE ~(outbox[1].ev.conn = id /\ outbox[1].ev.type \in Starts)
      <4>1. Coming(id, Starts) \/ Holds(id)
        BY <2>2 DEF EngineInRows
      <4>2. CASE Coming(id, Starts)
        BY <1>4, <3>2, <4>2, StillComing
      <4>3. CASE Holds(id)
        BY <1>4, <2>2, <3>2, <4>3, OtherHolds
      <4>. QED BY <4>1, <4>2, <4>3
    <3>. QED BY <3>1, <3>2
  <2>. QED BY <2>1, <2>2 DEF EngineInRows
<1>5. CASE EmitFails
  <2>1. ~Works'
    BY <1>5 DEF EmitFails, SinkFails, Works, InFrame
  <2>. QED BY <2>1 DEF EngineInRows
<1>. QED BY <1>1, <1>2, <1>3, <1>4, <1>5, Values

\* A row about to be closed stays so until the event that closes it is taken.
LEMMA StillClosing ==
  ASSUME Shape, RowsKeyed, EmitSucceeds, NEW k \in DOMAIN store.rows, k[1] = Session,
         store.rows[k].endedAt = NoTime, Closing(k), RowChanges(k) \/ RowKept(k),
         outbox[1].ev.type = "Disappeared" => ~RowChanges(k)
  PROVE  Closing(k)'
<1>1. /\ Len(outbox) \in Nat /\ Len(outbox') = Len(outbox) - 1
      /\ \A i \in 1..(Len(outbox) - 1) : outbox'[i] = outbox[i + 1]
  BY TakenRows
<1>. DEFINE Closes1(m) ==
              \/ /\ outbox[m].ev.type = "Disappeared"
                 /\ outbox[m].epoch = k[2] /\ outbox[m].ev.conn = k[3]
              \/ outbox[m].ev.type = "EpochBreak" /\ outbox[m].epoch = k[2]
<1>2. PICK m \in 1..Len(outbox) : Closes1(m)
  BY DEF Closing
<1>3. ~Closes1(1)
  <2>1. k = <<k[1], k[2], k[3]>>
    BY DEF RowsKeyed
  <2>2. CASE RowChanges(k)
    BY <2>2 DEF RowChanges
  <2>3. CASE RowKept(k)
    <3>1. SUFFICES ASSUME Closes1(1) PROVE FALSE
      OBVIOUS
    <3>2. CASE outbox[1].ev.type = "EpochBreak"
      BY <2>3, <3>1, <3>2 DEF RowKept
    <3>3. CASE outbox[1].ev.type = "Disappeared"
      <4>1. k = SentKey
        BY <2>1, <3>1, <3>3 DEF SentKey
      <4>. QED BY <2>3, <3>3, <4>1 DEF RowKept
    <3>. QED BY <3>1, <3>2, <3>3
  <2>. QED BY <2>2, <2>3
<1>4. m - 1 \in 1..(Len(outbox) - 1) /\ m - 1 \in 1..Len(outbox') /\ (m - 1) + 1 = m
  BY <1>1, <1>2, <1>3
<1>5. outbox'[m - 1] = outbox[m]
  BY <1>1, <1>4
<1>. QED BY <1>2, <1>4, <1>5 DEF Closing

LEMMA TakenOpenRows ==
  ASSUME Shape, Moment, RowsKeyed, Sending, EmitSucceeds, Works, RowsInEngine,
         NEW k \in DOMAIN store'.rows, k[1] = Session, store'.rows[k].endedAt = NoTime
  PROVE  (k[2] = epochID /\ k[3] \in DOMAIN activeMap) \/ Closing(k)'
<1>. DEFINE e   == outbox[1].ev
            old == store.rows[k]
            new == store'.rows[k]
<1>1. 1 \in 1..Len(outbox)
  BY TakenRows
<1>2. SaidOf(1)
  BY <1>1 DEF Sending
<1>3. e.ts # NoTime
  BY <1>1 DEF Moment, NoTime
<1>4. RowBegins(k) \/ RowMet(k) \/ RowBreaks(k) \/ RowChanges(k) \/ RowKept(k)
  BY RowTaken
<1>5. CASE RowBegins(k) \/ RowMet(k)
  <2>1. e.type \in Starts /\ k = SentKey
    BY <1>5 DEF RowBegins, RowMet, Starts
  <2>. QED BY <1>2, <2>1 DEF SaidOf, SentKey
<1>6. ~RowBreaks(k)
  BY <1>3 DEF RowBreaks
<1>7. CASE RowChanges(k) \/ RowKept(k)
  <2>1. e.type = "Disappeared" => ~RowChanges(k)
    BY <1>3 DEF RowChanges, Changes
  <2>2. k \in DOMAIN store.rows /\ old.endedAt = NoTime
    BY <1>7, <2>1 DEF RowChanges, Changes, RowKept
  <2>3. (k[2] = epochID /\ k[3] \in DOMAIN activeMap) \/ Closing(k)
    BY <2>2 DEF RowsInEngine
  <2>. QED BY <1>7, <2>1, <2>2, <2>3, StillClosing
<1>. QED BY <1>4, <1>5, <1>6, <1>7

LEMMA RowsInEngineNext ==
  ASSUME Shape, BootstrapState, ConnsTyped, Moment, SessionsTyped, Sending, RowsKeyed,
         RowsInEngine, [Next]_vars
  PROVE  RowsInEngine'
<1>1. CASE WorldValues
  <2>1. UNCHANGED <<store, epochID, activeMap, outbox, pc>> /\ Session' = Session
    BY <1>1 DEF WorldValues, WorldStep, engineVars, connVars, frameVars, seqVars, Session
  <2>. QED BY <2>1 DEF RowsInEngine, Works, InFrame, Closing
<1>2. CASE SectionValues
  <2>0. UNCHANGED <<store, rebased>> /\ Session' = Session
    BY <1>2 DEF SectionValues, SectionStep, storeVars, Session
  <2>. DEFINE Unended(k) == k[1] = Session /\ store.rows[k].endedAt = NoTime
  <2>1. ASSUME Works, Settled, NEW k \in DOMAIN store.rows, Unended(k)
        PROVE  k[2] = epochID /\ k[3] \in DOMAIN activeMap
    BY <2>1, ShortSeqs DEF RowsInEngine, Closing, Settled
  <2>2. ASSUME Works, Settled, UNCHANGED epochID,
               DOMAIN activeMap \subseteq DOMAIN activeMap'
        PROVE  RowsInEngine'
    BY <2>0, <2>1, <2>2 DEF RowsInEngine
  <2>3. CASE QuietValues
    <3>1. Settled /\ UNCHANGED <<epochID, activeMap>> /\ (Works' => Works)
      BY <2>3 DEF QuietValues, QuietStep, Works, InFrame
    <3>. QED BY <2>2, <3>1 DEF RowsInEngine
  <2>4. CASE BegunValues
    <3>1. Settled /\ Works /\ pc = "idle" /\ epochID \in Nat
      BY <2>4 DEF BegunValues, BeginStep, Idle, Works, Shape, EngineShape
    <3>2. CASE UNCHANGED <<epochID, activeMap>>
      BY <2>2, <3>1, <3>2
    <3>3. CASE epochID' = epochID + 1
      <4>1. PICK m \in 1..Len(outbox') : outbox'[m].ev.type = "EpochBreak"
        BY <2>4, <3>1, <3>3 DEF BegunValues
      <4>2. outbox'[m].epoch = epochID
        BY <2>4 DEF BegunValues, BeginStep, Emits
      <4>3. ASSUME NEW k \in DOMAIN store.rows, Unended(k) PROVE Closing(k)'
        <5>1. k[2] = epochID
          BY <2>1, <3>1, <4>3
        <5>. QED BY <4>1, <4>2, <5>1 DEF Closing
      <4>. QED BY <2>0, <4>3 DEF RowsInEngine
    <3>4. CASE isBootstrapFrame
      <4>1. ASSUME NEW k \in DOMAIN store.rows, Unended(k) PROVE FALSE
        BY <2>1, <3>1, <3>4, <4>1 DEF BootstrapState
      <4>. QED BY <2>0, <4>1 DEF RowsInEngine
    <3>. QED BY <2>4, <3>2, <3>3, <3>4 DEF BegunValues, BeginStep
  <2>5. CASE EndValues
    <3>1. Settled /\ UNCHANGED <<epochID, activeMap>> /\ Works
      BY <2>5 DEF EndValues, EndStep, Works, InFrame
    <3>. QED BY <2>2, <3>1
  <2>6. ASSUME NEW id \in todo, ConnValues(id) PROVE RowsInEngine'
    <3>1. /\ Settled /\ UNCHANGED epochID /\ Works
          /\ DOMAIN activeMap \subseteq DOMAIN activeMap'
      BY <2>6 DEF ConnValues, ConnStep, Touched, Begun, Works, InFrame
    <3>. QED BY <2>2, <3>1
  <2>7. ASSUME NEW id \in DOMAIN activeMap, GoneValues(id) PROVE RowsInEngine'
    <3>1. /\ Settled /\ UNCHANGED epochID /\ Works
          /\ DOMAIN activeMap' = DOMAIN activeMap \ {id}
          /\ 1 \in 1..Len(outbox') /\ outbox'[1].ev.type = "Disappeared"
          /\ outbox'[1].epoch = epochID /\ outbox'[1].ev.conn = id
      BY <2>7 DEF GoneValues, GoneStep, Emits, Works, InFrame
    <3>2. ASSUME NEW k \in DOMAIN store.rows, Unended(k)
          PROVE  (k[2] = epochID' /\ k[3] \in DOMAIN activeMap') \/ Closing(k)'
      <4>1. k[2] = epochID /\ k[3] \in DOMAIN activeMap
        BY <2>1, <3>1, <3>2
      <4>. QED BY <3>1, <4>1 DEF Closing
    <3>. QED BY <2>0, <3>2 DEF RowsInEngine
  <2>. QED BY <1>2, <2>3, <2>4, <2>5, <2>6, <2>7 DEF SectionValues
<1>3. CASE BeginRun
  <2>1. Session' = Session + 1 /\ Session \in Nat
    BY <1>3, BegunSession
  <2>2. ASSUME NEW k \in DOMAIN store'.rows PROVE k[1] # Session'
    <3>1. k \in DOMAIN store.rows
      BY <1>3, <2>2, BegunRows
    <3>2. k[1] \in 1..Session
      BY <3>1 DEF RowsKeyed
    <3>. QED BY <2>1, <3>2
  <2>. QED BY <2>2 DEF RowsInEngine
<1>4. CASE EndRun \/ Killed \/ EmitFails
  <2>1. ~Works'
    BY <1>4 DEF EndRun, Killed, Exits, EngineReplaced, EmitFails, SinkFails, Works, InFrame
  <2>. QED BY <2>1 DEF RowsInEngine
<1>5. CASE EmitSucceeds
  <2>1. UNCHANGED <<activeMap, epochID>> /\ Works' = Works /\ Session' = Session
    BY <1>5, TakenRows DEF Works, InFrame
  <2>. QED BY <1>5, <2>1, TakenOpenRows DEF RowsInEngine
<1>. QED BY <1>1, <1>2, <1>3, <1>4, <1>5, Values

\* When rows were last observed and when they ended: no row of a session that is
\* over is open, and none but those a bootstrap met ends before it was observed.
\* A running session has had an event as soon as it has a row.
RowTimesOf(k) ==
  LET row == store.rows[k]
  IN  /\ row.observedAt \in 0..clock
      /\ row.endedAt # NoTime /\ k \notin rebased => row.observedAt <= row.endedAt
      /\ ~Running(k[1]) => row.endedAt # NoTime
      /\ k[1] = Session /\ Running(Session) =>
           /\ sessions[Session].lastEventAt # NoTime
           /\ row.observedAt <= sessions[Session].lastEventAt
RowTimes == \A k \in DOMAIN store.rows : RowTimesOf(k)

LEMMA TakenTimes ==
  ASSUME Shape, Moment, SessionsTyped, RowsKeyed, Sending, EngineInRows, RowTimes,
         EmitSucceeds
  PROVE  RowTimes'
<1>. DEFINE e == outbox[1].ev
<1>1. /\ Session' = Session /\ Session \in 1..Session
      /\ sessions'[Session].lastEventAt = clock
      /\ \A s \in 1..Session : Running(s)' <=> Running(s)
  <2>1. /\ Session' = Session /\ Session \in 1..Session
        /\ sessions'[Session] = [sessions[Session] EXCEPT !.lastEventAt = clock,
                                                          !.heartbeatAt = clock]
        /\ sessions[Session] \in SessionRow
    BY TakenSession DEF SessionsTyped
  <2>2. sessions'[Session].lastEventAt = clock
    BY <2>1 DEF SessionRow
  <2>. QED BY <2>1, <2>2, RecordSessions DEF Running
<1>2. /\ clock' = clock /\ clock \in Nat /\ clock # NoTime
      /\ e.ts = clock /\ (e.type = "Disappeared" => e.from \in 0..clock)
  <2>1. clock' = clock /\ 1 \in 1..Len(outbox)
    BY TakenRows
  <2>. QED BY <2>1 DEF Moment, NoTime
<1>3. Running(Session)
  BY RecordSessions DEF Shape, SessionsShape
<1>4. ASSUME NEW k \in DOMAIN store'.rows PROVE RowTimesOf(k)'
  <2>. DEFINE old == store.rows[k]
              new == store'.rows[k]
  <2>1. RowBegins(k) \/ RowMet(k) \/ RowBreaks(k) \/ RowChanges(k) \/ RowKept(k)
    BY <1>4, RowTaken
  <2>2. k \in DOMAIN store.rows =>
          /\ old.observedAt \in 0..clock /\ k[1] \in 1..Session
          /\ old.endedAt # NoTime /\ k \notin rebased => old.observedAt <= old.endedAt
          /\ ~Running(k[1]) => old.endedAt # NoTime
    BY DEF RowTimes, RowTimesOf, RowsKeyed
  <2>3. new.observedAt \in 0..clock
    BY <1>2, <2>1, <2>2 DEF RowBegins, RowMet, RowBreaks, RowChanges, Changes, RowKept
  <2>4. new.endedAt # NoTime /\ k \notin rebased' => new.observedAt <= new.endedAt
    <3>1. CASE RowBegins(k) \/ RowMet(k)
      BY <3>1 DEF RowBegins, RowMet
    <3>2. CASE RowBreaks(k) \/ RowKept(k)
      BY <1>2, <2>2, <3>2 DEF RowBreaks, RowKept, SameMark
    <3>3. CASE RowChanges(k)
      <4>1. CASE e.type = "Disappeared"
        BY <1>2, <3>3, <4>1 DEF RowChanges, Changes
      <4>2. CASE e.type \in {"Delta", "Presence"}
        <5>1. SUFFICES ASSUME k \notin rebased' PROVE new.endedAt = NoTime
          OBVIOUS
        <5>2. 1 \in 1..Len(outbox)
          BY TakenRows
        <5>3. /\ Works /\ outbox[1].epoch = epochID /\ e.conn \in DOMAIN activeMap
              /\ \A m \in 1..Len(outbox) : outbox[m].ev.type \notin Starts
          BY <4>2, <5>2 DEF Sending, SaidOf, Updates
        <5>4. Holds(e.conn)
          BY <5>3 DEF EngineInRows, Coming
        <5>5. k = RowKey(e.conn) /\ k \notin rebased
          BY <3>3, <5>1, <5>3 DEF RowChanges, SameMark, SentKey, RowKey
        <5>6. old.endedAt = NoTime
          BY <5>4, <5>5 DEF Holds
        <5>. QED BY <3>3, <4>2, <5>6 DEF RowChanges, Changes
      <4>3. CASE e.type \notin {"Disappeared", "Delta", "Presence"}
        BY <2>2, <3>3, <4>3 DEF RowChanges, Changes, SameMark
      <4>. QED BY <4>1, <4>2, <4>3
    <3>. QED BY <2>1, <3>1, <3>2, <3>3
  <2>5. ~Running(k[1])' => new.endedAt # NoTime
    <3>1. CASE RowKept(k)
      <4>1. k[1] \in 1..Session /\ new = old
        BY <2>2, <3>1 DEF RowKept
      <4>. QED BY <1>1, <2>2, <3>1, <4>1 DEF RowKept
    <3>2. CASE ~RowKept(k)
      <4>1. k[1] = Session
        BY <2>1, <3>2 DEF RowBegins, RowMet, RowBreaks, RowChanges, SentKey
      <4>. QED BY <1>1, <1>3, <4>1
    <3>. QED BY <3>1, <3>2
  <2>. QED BY <1>1, <1>2, <2>3, <2>4, <2>5 DEF RowTimesOf
<1>. QED BY <1>4 DEF RowTimes

\* A running session's end, or the next beginning, finds its rows open and leaves
\* them ended, at a moment that is not before their last observation.
LEMMA ClosedTimes ==
  ASSUME Moment, SessionsTyped, RowsKeyed, RowTimes, UNCHANGED <<clock, rebased>>,
         Session \in Nat, Running(Session), DOMAIN store'.rows = DOMAIN store.rows,
         NEW at, at = clock \/ at = FirstKnown(sessions[Session].lastEventAt, clock, clock),
         \A k \in DOMAIN store.rows :
           /\ store'.rows[k].observedAt = store.rows[k].observedAt
           /\ store'.rows[k].endedAt =
                IF k[1] = Session /\ store.rows[k].endedAt = NoTime THEN at
                ELSE store.rows[k].endedAt,
         \A s \in 1..(Session - 1) : ~Running(s)
  PROVE  \A k \in DOMAIN store'.rows :
           LET row == store'.rows[k]
           IN  /\ row.observedAt \in 0..clock /\ row.endedAt # NoTime
               /\ k \notin rebased' => row.observedAt <= row.endedAt
<1>1. ASSUME NEW k \in DOMAIN store'.rows
      PROVE  LET row == store'.rows[k]
             IN  /\ row.observedAt \in 0..clock /\ row.endedAt # NoTime
                 /\ k \notin rebased' => row.observedAt <= row.endedAt
  <2>. DEFINE old == store.rows[k]
  <2>1. /\ k[1] \in 1..Session /\ old.observedAt \in 0..clock
        /\ old.endedAt # NoTime /\ k \notin rebased => old.observedAt <= old.endedAt
        /\ ~Running(k[1]) => old.endedAt # NoTime
        /\ k[1] = Session =>
             /\ sessions[Session].lastEventAt # NoTime
             /\ old.observedAt <= sessions[Session].lastEventAt
    BY <1>1 DEF RowTimes, RowTimesOf, RowsKeyed
  <2>2. clock \in Nat /\ clock # NoTime
    BY DEF Moment, NoTime
  <2>3. CASE k[1] = Session /\ old.endedAt = NoTime
    <3>1. store'.rows[k].endedAt = at /\ store'.rows[k].observedAt = old.observedAt
      BY <1>1, <2>3
    <3>2. at # NoTime /\ old.observedAt <= at
      BY <2>1, <2>2, <2>3 DEF FirstKnown
    <3>. QED BY <2>1, <3>1, <3>2
  <2>4. CASE ~(k[1] = Session /\ old.endedAt = NoTime)
    <3>1. store'.rows[k].endedAt = old.endedAt /\ store'.rows[k].observedAt = old.observedAt
      BY <1>1, <2>4
    <3>2. old.endedAt # NoTime
      <4>1. k[1] = Session \/ k[1] \in 1..(Session - 1)
        BY <2>1
      <4>. QED BY <2>1, <2>4, <4>1
    <3>. QED BY <2>1, <3>1, <3>2
  <2>. QED BY <2>3, <2>4
<1>. QED BY <1>1

LEMMA RowTimesNext ==
  ASSUME Shape, ConnsTyped, Moment, SessionsTyped, RowsKeyed, Sending, EngineInRows,
         RowTimes, [Next]_vars
  PROVE  RowTimes'
<1>0. /\ clock \in Nat /\ Session \in Nat
      /\ \A s \in 1..(Session - 1) : ~Running(s)
  BY SessionCount DEF Moment, Shape, SessionsShape
<1>1. CASE WorldValues
  <2>1. UNCHANGED <<store, rebased>> /\ Session' = Session /\ clock' \in {clock, clock + 1}
    BY <1>1 DEF WorldValues, WorldStep, Session
  <2>2. ASSUME NEW s \in 1..Session
        PROVE  /\ sessions'[s].lastEventAt = sessions[s].lastEventAt
               /\ Running(s)' <=> Running(s)
    BY <1>1, <2>2 DEF WorldValues, SessionsTyped, SessionRow, Running
  <2>3. ASSUME NEW k \in DOMAIN store.rows PROVE RowTimesOf(k)'
    <3>1. RowTimesOf(k) /\ k[1] \in 1..Session
      BY DEF RowTimes, RowsKeyed
    <3>2. store.rows[k].observedAt \in 0..clock'
      BY <1>0, <2>1, <3>1 DEF RowTimesOf
    <3>. QED BY <2>1, <2>2, <3>1, <3>2 DEF RowTimesOf
  <2>. QED BY <2>1, <2>3 DEF RowTimes
<1>2. CASE SectionValues \/ Killed \/ EmitFails
  <2>1. UNCHANGED <<store, sessions, rebased, clock>>
    BY <1>2 DEF SectionValues, SectionStep, Killed, LeaveSession, EmitFails, storeVars,
                WorldStays
  <2>. QED BY <2>1 DEF RowTimes, RowTimesOf, Running, Session
<1>3. CASE BeginRun
  <2>1. UNCHANGED <<clock, rebased>>
    BY <1>3 DEF BeginRun, WorldStays
  <2>2. Session' = Session + 1 /\ DOMAIN store'.rows = DOMAIN store.rows
    BY <1>3, BegunSession, BegunRows
  <2>. DEFINE Ended == \A k \in DOMAIN store'.rows :
                         LET row == store'.rows[k]
                         IN  /\ row.observedAt \in 0..clock /\ row.endedAt # NoTime
                             /\ k \notin rebased' => row.observedAt <= row.endedAt
  <2>3. Ended
    <3>1. CASE Session > 0 /\ Running(Session)
      <4>1. \A k \in DOMAIN store.rows :
              /\ store'.rows[k].observedAt = store.rows[k].observedAt
              /\ store'.rows[k].endedAt =
                   IF k[1] = Session /\ store.rows[k].endedAt = NoTime THEN CrashedAt
                   ELSE store.rows[k].endedAt
        BY <1>3, <3>1, BegunRows
      <4>. QED BY <1>0, <2>1, <2>2, <3>1, <4>1, ClosedTimes DEF CrashedAt
    <3>2. CASE ~(Session > 0 /\ Running(Session))
      <4>1. ASSUME NEW k \in DOMAIN store.rows
            PROVE  /\ ~Running(k[1]) /\ RowTimesOf(k)
                   /\ store'.rows[k].observedAt = store.rows[k].observedAt
                   /\ store'.rows[k].endedAt = store.rows[k].endedAt
        <5>1. k[1] \in 1..Session /\ RowTimesOf(k)
          BY DEF RowsKeyed, RowTimes
        <5>2. k[1] = Session \/ k[1] \in 1..(Session - 1)
          BY <1>0, <5>1
        <5>3. Session > 0
          BY <1>0, <5>1
        <5>. QED BY <1>0, <1>3, <3>2, <5>1, <5>2, <5>3, BegunRows
      <4>. QED BY <2>1, <2>2, <4>1 DEF RowTimesOf
    <3>. QED BY <3>1, <3>2
  <2>4. \A k \in DOMAIN store'.rows : k[1] # Session'
    <3>1. \A k \in DOMAIN store.rows : k[1] \in 1..Session
      BY DEF RowsKeyed
    <3>. QED BY <1>0, <2>2, <3>1
  <2>. QED BY <2>1, <2>3, <2>4 DEF RowTimes, RowTimesOf
<1>4. CASE EndRun
  <2>1. UNCHANGED <<clock, rebased>> /\ Running(Session)
    BY <1>4, EndedSession DEF EndRun, LeaveSession, WorldStays, Shape, SessionsShape
  <2>2. /\ Session' = Session /\ Session \in 1..Session
        /\ \A s \in 1..(Session - 1) : sessions'[s] = sessions[s]
        /\ sessions'[Session].status # "running"
    BY <1>4, EndSessions
  <2>3. \A s \in 1..Session : ~Running(s)'
    <3>1. \A s \in 1..Session : s = Session \/ s \in 1..(Session - 1)
      BY <1>0
    <3>. QED BY <1>0, <2>2, <3>1 DEF Running
  <2>. DEFINE Ended == \A k \in DOMAIN store'.rows :
                         LET row == store'.rows[k]
                         IN  /\ row.observedAt \in 0..clock /\ row.endedAt # NoTime
                             /\ k \notin rebased' => row.observedAt <= row.endedAt
  <2>4. Ended
    <3>1. /\ DOMAIN store'.rows = DOMAIN store.rows
          /\ \A k \in DOMAIN store.rows :
               /\ store'.rows[k].observedAt = store.rows[k].observedAt
               /\ store'.rows[k].endedAt =
                    IF k[1] = Session /\ store.rows[k].endedAt = NoTime THEN EndsAt
                    ELSE store.rows[k].endedAt
      BY <1>4, EndedRows
    <3>2. EndsAt = clock \/ EndsAt = FirstKnown(sessions[Session].lastEventAt, clock, clock)
      BY DEF EndsAt
    <3>. QED BY <1>0, <2>1, <2>2, <2>3, <3>1, <3>2, ClosedTimes
  <2>. QED BY <2>1, <2>2, <2>3, <2>4 DEF RowTimes, RowTimesOf
<1>5. CASE EmitSucceeds
  BY <1>5, TakenTimes
<1>. QED BY <1>1, <1>2, <1>3, <1>4, <1>5, Values

\* The inductive invariant of the rows.
ValueInv == /\ ConnsTyped /\ Moment /\ SessionsTyped /\ Sending
            /\ RowsKeyed /\ EngineInRows /\ RowsInEngine /\ RowTimes

LEMMA ValuesBegin == Init => ValueInv
<1>. SUFFICES ASSUME Init PROVE ValueInv
  OBVIOUS
<1>1. /\ pc = "down" /\ frame = NoFrame /\ todo = {} /\ activeMap = << >>
      /\ tombstones = << >> /\ outbox = << >> /\ clock = 1
      /\ sessions = << >> /\ store.rows = << >>
  BY DEF Init, EngineInit, StoreInit, EmptyStore
<1>2. Len(outbox) = 0 /\ Session = 0 /\ ~Works /\ DOMAIN frame.conns = {}
  BY <1>1, ShortSeqs DEF Session, Works, InFrame, NoFrame
<1>3. conns \in [Conn -> [live : BOOLEAN, start : Nat, ctr : Counter, meta : Meta]]
  <2>1. [d \in Dir |-> 0] \in Counter
    BY DEF Counter
  <2>2. conns \in [Conn -> [live : {FALSE}, start : {0}, ctr : {[d \in Dir |-> 0]},
                            meta : Meta]]
    BY DEF Init, MihomoInit
  <2>3. ASSUME NEW id \in Conn
        PROVE  conns[id] \in [live : BOOLEAN, start : Nat, ctr : Counter, meta : Meta]
    <3>1. conns[id] \in [live : {FALSE}, start : {0}, ctr : {[d \in Dir |-> 0]},
                         meta : Meta]
      BY <2>2
    <3>2. PICK zero : zero = [d \in Dir |-> 0]
      OBVIOUS
    <3>3. zero \in Counter
      BY <2>1, <3>2
    <3>4. conns[id] \in [live : {FALSE}, start : {0}, ctr : {zero}, meta : Meta]
      BY <3>1, <3>2
    <3>5. PICK m \in Meta : conns[id] = [live |-> FALSE, start |-> 0, ctr |-> zero, meta |-> m]
      BY <3>4
    <3>. QED BY <3>3, <3>5
  <2>. QED BY <2>2, <2>3
<1>4. ConnsTyped
  BY <1>1, <1>2, <1>3 DEF ConnsTyped
<1>5. Moment
  BY <1>1, <1>2 DEF Moment, Works, InFrame
<1>6. SessionsTyped /\ Sending
  BY <1>2 DEF SessionsTyped, Sending
<1>7. RowsKeyed /\ EngineInRows /\ RowsInEngine /\ RowTimes
  BY <1>1, <1>2 DEF RowsKeyed, EngineInRows, RowsInEngine, RowTimes
<1>. QED BY <1>4, <1>5, <1>6, <1>7 DEF ValueInv

LEMMA ValuesNext == IInv /\ ValueInv /\ [Next]_vars => ValueInv'
<1>. SUFFICES ASSUME IInv, ValueInv, [Next]_vars PROVE ValueInv'
  OBVIOUS
<1>1. Shape /\ BootstrapState
  BY DEF IInv, LifeInv
<1>2. ConnsTyped' /\ Moment' /\ SessionsTyped' /\ Sending'
  BY <1>1, ConnsTypedNext, MomentNext, SessionsTypedNext, SendingNext DEF ValueInv
<1>3. RowsKeyed' /\ EngineInRows' /\ RowsInEngine' /\ RowTimes'
  BY <1>1, RowsKeyedNext, EngineInRowsNext, RowsInEngineNext, RowTimesNext DEF ValueInv
<1>. QED BY <1>2, <1>3 DEF ValueInv

\* The engine's connections, the sessions and the rows of the store keep step,
\* event by event, whatever is lost, killed or refused.
THEOREM RowsInStep == Spec => []ValueInv
<1>1. Init => ValueInv
  BY ValuesBegin
<1>2. IInv /\ ValueInv /\ [Next]_vars => ValueInv'
  BY ValuesNext
<1>. QED BY <1>1, <1>2, StreamInOrder, PTL DEF Spec

\* RowsFollowEngine: between two frames the open rows of the running session are
\* exactly the engine's active connections, and say of their bytes and class what
\* the engine does (projector.go, engine.go 515-1160).
THEOREM RowsAreTheEngines == Spec => []RowsFollowEngine
<1>1. IInv /\ ValueInv => RowsFollowEngine
  <2>. SUFFICES ASSUME IInv, ValueInv, Idle PROVE RowsFollowEngine
    BY DEF RowsFollowEngine
  <2>1. Works /\ Len(outbox) = 0
    BY ShortSeqs DEF Idle, Settled, Works
  <2>2. /\ \A id, types : ~Coming(id, types)
        /\ \A k : ~Closing(k)
    BY <2>1 DEF Coming, Closing
  <2>3. ASSUME NEW k \in DOMAIN store.rows, k[1] = Session, store.rows[k].endedAt = NoTime
        PROVE  k \in {<<Session, epochID, id>> : id \in DOMAIN activeMap}
    <3>1. k[2] = epochID /\ k[3] \in DOMAIN activeMap
      BY <2>1, <2>2, <2>3 DEF ValueInv, RowsInEngine
    <3>2. k = <<k[1], k[2], k[3]>>
      BY DEF ValueInv, RowsKeyed
    <3>. QED BY <2>3, <3>1, <3>2
  <2>4. ASSUME NEW id \in DOMAIN activeMap PROVE Holds(id)
    BY <2>1, <2>2 DEF ValueInv, EngineInRows
  <2>5. ASSUME NEW id \in DOMAIN activeMap, NEW k, k = <<Session, epochID, id>>
        PROVE  /\ k \in DOMAIN store.rows
               /\ k \in rebased \/
                    (/\ store.rows[k].active /\ store.rows[k].endedAt = NoTime
                     /\ store.rows[k].cum = activeMap[id].cum
                     /\ store.rows[k].base = activeMap[id].base
                     /\ store.rows[k].class = activeMap[id].class)
    BY <2>2, <2>4, <2>5 DEF Holds, RowKey
  <2>. QED BY <2>3, <2>5 DEF RowsFollowEngine
<1>. QED BY <1>1, StreamInOrder, RowsInStep, PTL

\* ClosedWithSession: no row outlives its session, whether it ended or was killed,
\* and none that no bootstrap met is closed before it was last observed
\* (sqlite_sink.go 92-123, 285-335).
THEOREM ClosedWithItsSession == Spec => []ClosedWithSession
<1>1. ValueInv => ClosedWithSession
  <2>. SUFFICES ASSUME ValueInv, NEW k \in DOMAIN store.rows
                PROVE  LET row == store.rows[k]
                       IN  /\ sessions[k[1]].status # "running" => row.endedAt # NoTime
                           /\ (row.endedAt # NoTime /\ k \notin rebased)
                                => row.observedAt <= row.endedAt
    BY DEF ClosedWithSession
  <2>1. RowTimesOf(k)
    BY DEF ValueInv, RowTimes
  <2>. QED BY <2>1 DEF RowTimesOf, Running
<1>. QED BY <1>1, RowsInStep, PTL

-----------------------------------------------------------------------------
(* What the sections say of the stream: gaps opened and closed, frames      *)
(* completed.                                                              *)

GapTypes == {"GapOpened", "GapClosed", "Residual"}
Opening == \E k \in 1..Len(outbox) : Opens(k)
Finishing == \E k \in 1..Len(outbox) : outbox[k].ev.type = "Residual"
OpenGaps == OpenStreamGaps(store.gaps, Session)

\* A section that is about neither, a loss that is on record already among them.
SaysNothing ==
  /\ \A k \in 1..Len(outbox') : outbox'[k].ev.type \notin GapTypes
  /\ UNCHANGED <<gapIsOpen, hasEverBeenHealthy, lastHealthyAt, unobservedGapEmitted>>
  /\ isBootstrapFrame' = isBootstrapFrame \/ isBootstrapFrame'
  /\ \/ pc' = pc /\ lost' = lost
     \/ pc' = pc /\ pc = "idle" /\ lost' /\ (gapIsOpen \/ ~hasEverBeenHealthy)
     \/ pc = "idle" /\ pc' \in {"bootstrap", "steady"} /\ ~gapIsOpen /\ lost' = lost

SaysLost ==
  /\ pc = "idle" /\ pc' = "idle" /\ hasEverBeenHealthy /\ ~gapIsOpen
  /\ gapIsOpen' /\ lost'
  /\ UNCHANGED <<hasEverBeenHealthy, lastHealthyAt, unobservedGapEmitted, isBootstrapFrame>>
  /\ Len(outbox') = 1 /\ outbox'[1].ev.type = "GapOpened"
  /\ outbox'[1].ev.from = GapFrom(clock)

SaysRecovered ==
  /\ pc = "idle" /\ pc' \in {"bootstrap", "recovery"} /\ gapIsOpen
  /\ UNCHANGED <<hasEverBeenHealthy, lastHealthyAt, unobservedGapEmitted, lost>>
  /\ isBootstrapFrame' = isBootstrapFrame \/ isBootstrapFrame'
  /\ 1 \in 1..Len(outbox') /\ outbox'[1].ev.type = "GapClosed"
  /\ \A k \in 1..Len(outbox') : outbox'[k].ev.type \in {"GapClosed", "EpochBreak"}

SaysFinished ==
  /\ pc \in {"recovery", "steady", "bootstrapped"} /\ pc' = "idle"
  /\ Len(outbox') = 1 /\ outbox'[1].ev.type = "Residual"
  /\ lastHealthyAt' = clock /\ UNCHANGED <<unobservedGapEmitted, lost>>
  /\ IF pc = "recovery" THEN ~gapIsOpen' ELSE gapIsOpen' = gapIsOpen
  /\ IF pc = "bootstrapped"
       THEN ~isBootstrapFrame' /\ hasEverBeenHealthy'
       ELSE UNCHANGED <<isBootstrapFrame, hasEverBeenHealthy>>

\* The first frame's bootstrap, or the session's end without one.
SaysUnobserved ==
  /\ \/ pc = "bootstrap" /\ pc' = "bootstrapped" /\ lastHealthyAt' = clock
     \/ pc \in {"idle", "failed"} /\ pc' = "stopped" /\ lastHealthyAt' = lastHealthyAt
  /\ UNCHANGED <<gapIsOpen, hasEverBeenHealthy, isBootstrapFrame, lost>>
  /\ \/ /\ ~hasEverBeenHealthy /\ ~unobservedGapEmitted /\ unobservedGapEmitted'
        /\ Len(outbox') = 2 /\ outbox'[1].ev.type = "GapOpened"
        /\ outbox'[1].ev.from = createdAt /\ outbox'[2].ev.type = "GapClosed"
     \/ /\ unobservedGapEmitted' = unobservedGapEmitted /\ Len(outbox') = 0
        /\ hasEverBeenHealthy \/ unobservedGapEmitted \/ ~(clock - createdAt >= MinGap)

GapSection ==
  /\ Settled
  /\ UNCHANGED <<storeVars, clock, lastFrame, watched, excused, blind, createdAt>>
  /\ SaysNothing \/ SaysLost \/ SaysRecovered \/ SaysFinished \/ SaysUnobserved

LEMMA LostSection ==
  ASSUME StreamLost
  PROVE  GapSection
<1>1. /\ Settled /\ pc = "idle" /\ pc' = "idle" /\ lost'
      /\ UNCHANGED <<storeVars, clock, lastFrame, watched, excused, blind, createdAt,
                     hasEverBeenHealthy, lastHealthyAt, unobservedGapEmitted,
                     isBootstrapFrame>>
  BY DEF StreamLost, GapOpened, Idle, WorldStays, frameVars
<1>2. CASE hasEverBeenHealthy /\ ~gapIsOpen
  <2>. DEFINE e == GapOpenedEvent(clock, GapFrom(clock))
  <2>1. e.type = "GapOpened" /\ e.from = GapFrom(clock)
    BY DEF GapOpenedEvent, Event
  <2>2. gapIsOpen' /\ Emit(<<e>>)
    BY <1>2 DEF StreamLost, GapOpened
  <2>. HIDE DEF e
  <2>3. Len(outbox') = 1 /\ outbox'[1].ev = e
    BY <2>2, ShortSeqs, EmitParts
  <2>. QED BY <1>1, <1>2, <2>1, <2>2, <2>3 DEF GapSection, SaysLost
<1>3. CASE ~(hasEverBeenHealthy /\ ~gapIsOpen)
  <2>1. UNCHANGED <<gapIsOpen, outbox>>
    BY <1>3 DEF StreamLost, GapOpened
  <2>2. \A k \in 1..Len(outbox') : FALSE
    BY <1>1, <2>1, ShortSeqs DEF Settled
  <2>3. lost' /\ (gapIsOpen \/ ~hasEverBeenHealthy)
    BY <1>1, <1>3
  <2>. QED BY <1>1, <2>1, <2>2, <2>3 DEF GapSection, SaysNothing
<1>. QED BY <1>2, <1>3

LEMMA UnobservedSection ==
  ASSUME NEW end, Settled,
         IF hasEverBeenHealthy THEN UNCHANGED <<outbox, eventSequence, unobservedGapEmitted>>
         ELSE UnobservedGap(end)
  PROVE  \/ /\ ~hasEverBeenHealthy /\ ~unobservedGapEmitted /\ unobservedGapEmitted'
            /\ Len(outbox') = 2 /\ outbox'[1].ev.type = "GapOpened"
            /\ outbox'[1].ev.from = createdAt /\ outbox'[2].ev.type = "GapClosed"
         \/ /\ unobservedGapEmitted' = unobservedGapEmitted /\ Len(outbox') = 0
            /\ hasEverBeenHealthy \/ unobservedGapEmitted \/ ~(end - createdAt >= MinGap)
<1>. DEFINE e == GapOpenedEvent(end, createdAt)
            f == GapClosedEvent(createdAt, end)
<1>1. e.type = "GapOpened" /\ e.from = createdAt /\ f.type = "GapClosed"
  BY DEF GapOpenedEvent, GapClosedEvent, Event
<1>2. CASE ~hasEverBeenHealthy /\ ~unobservedGapEmitted /\ end - createdAt >= MinGap
  <2>1. Emit(<<e, f>>) /\ unobservedGapEmitted'
    BY <1>2 DEF UnobservedGap
  <2>. HIDE DEF e, f
  <2>2. Len(outbox') = 2 /\ outbox'[1].ev = e /\ outbox'[2].ev = f
    BY <2>1, ShortSeqs, EmitParts
  <2>. QED BY <1>1, <1>2, <2>1, <2>2
<1>3. CASE ~(~hasEverBeenHealthy /\ ~unobservedGapEmitted /\ end - createdAt >= MinGap)
  <2>1. UNCHANGED <<outbox, unobservedGapEmitted>>
    BY <1>3 DEF UnobservedGap
  <2>2. Len(outbox') = 0
    BY <2>1, ShortSeqs DEF Settled
  <2>. QED BY <1>3, <2>1, <2>2
<1>. QED BY <1>2, <1>3

LEMMA ArrivalSection ==
  ASSUME FrameArrives
  PROVE  GapSection
<1>1. PICK missing, R : ProcessFrame([ts |-> clock, conns |-> Snapshot(missing),
                                     total |-> total, relays |-> R])
  BY DEF FrameArrives
<1>2. PICK f : f = [ts |-> clock, conns |-> Snapshot(missing), total |-> total,
                    relays |-> R]
  OBVIOUS
<1>3. ProcessFrame(f)
  BY <1>1, <1>2
<1>4. /\ Settled /\ pc = "idle"
      /\ UNCHANGED <<storeVars, clock, lastFrame, lost, watched, excused, blind>>
  BY <1>3 DEF FrameArrives, WorldStays, ghostVars, ProcessFrame, StartRecovery,
              StartEpochBreakAcrossGap, StartEpochBreak, StartBootstrap, StartSteady,
              BeginFrame, Idle
<1>5. UNCHANGED <<createdAt, hasEverBeenHealthy, lastHealthyAt, unobservedGapEmitted>>
  BY <1>3 DEF ProcessFrame, StartRecovery, StartEpochBreakAcrossGap, StartEpochBreak,
              StartBootstrap, StartSteady, gapVars, seenVars
<1>. DEFINE c == GapClosedEvent(gapStart, f.ts)
            b == Event("EpochBreak", f.ts)
<1>6. c.type = "GapClosed" /\ b.type = "EpochBreak"
  BY DEF GapClosedEvent, Event
<1>7. CASE gapIsOpen
  <2>1. /\ pc' \in {"bootstrap", "recovery"}
        /\ isBootstrapFrame' = isBootstrapFrame \/ isBootstrapFrame'
        /\ EmitFirst(<<c>>) \/ EmitFirst(<<c>> \o <<b>>)
    BY <1>3, <1>7 DEF ProcessFrame, StartRecovery, StartEpochBreakAcrossGap, StartEpochBreak,
                StartBootstrap, StartSteady, BeginFrame, BreakEvents
  <2>. HIDE DEF c, b
  <2>. DEFINE Says == /\ 1 \in 1..Len(outbox') /\ outbox'[1].ev.type = "GapClosed"
                      /\ \A k \in 1..Len(outbox') :
                           outbox'[k].ev.type \in {"GapClosed", "EpochBreak"}
  <2>2. CASE EmitFirst(<<c>>)
    <3>1. Len(outbox') = 1 /\ outbox'[1].ev = c
      BY <2>2, ShortSeqs, EmitFirstParts
    <3>. QED BY <1>4, <1>5, <1>6, <1>7, <2>1, <3>1 DEF GapSection, SaysRecovered
  <2>3. CASE EmitFirst(<<c>> \o <<b>>)
    <3>. DEFINE events == <<c>> \o <<b>>
    <3>1. IsSeq(events) /\ Len(events) = 2 /\ events[1] = c /\ events[2] = b
      <4>1. IsSeq(<<c>>) /\ IsSeq(<<b>>) /\ Len(<<c>>) = 1 /\ Len(<<b>>) = 1
        BY ShortSeqs
      <4>2. <<c>>[1] = c /\ <<b>>[1] = b
        OBVIOUS
      <4>. QED BY <4>1, <4>2, ConcatParts
    <3>2. EmitFirst(events)
      BY <2>3
    <3>. HIDE DEF events
    <3>3. Len(outbox') = 2 /\ outbox'[1].ev = c /\ outbox'[2].ev = b
      BY <3>1, <3>2, EmitFirstParts
    <3>. QED BY <1>4, <1>5, <1>6, <1>7, <2>1, <3>3 DEF GapSection, SaysRecovered
  <2>. QED BY <2>1, <2>2, <2>3
<1>8. CASE ~gapIsOpen
  <2>1. /\ pc' \in {"bootstrap", "steady"} /\ gapIsOpen' = gapIsOpen
        /\ isBootstrapFrame' = isBootstrapFrame \/ isBootstrapFrame'
        /\ EmitFirst(<<b>>) \/ EmitFirst(<< >>)
    BY <1>3, <1>8 DEF ProcessFrame, StartRecovery, StartEpochBreakAcrossGap, StartEpochBreak,
                StartBootstrap, StartSteady, BeginFrame, BreakEvents, gapVars, seenVars
  <2>. HIDE DEF b
  <2>2. \A k \in 1..Len(outbox') : outbox'[k].ev.type \notin GapTypes
    <3>1. CASE EmitFirst(<<b>>)
      <4>1. Len(outbox') = 1 /\ outbox'[1].ev = b
        BY <3>1, ShortSeqs, EmitFirstParts
      <4>. QED BY <1>6, <4>1 DEF GapTypes
    <3>2. CASE EmitFirst(<< >>)
      BY <3>2, ShortSeqs, EmitFirstParts
    <3>. QED BY <2>1, <3>1, <3>2
  <2>. QED BY <1>4, <1>5, <1>8, <2>1, <2>2 DEF GapSection, SaysNothing
<1>. QED BY <1>7, <1>8

LEMMA FinishSection ==
  ASSUME Moment, EndSteady \/ EndRecovery \/ EndBootstrap,
         UNCHANGED <<storeVars, clock, lastFrame, lost, watched, excused, blind>>
  PROVE  GapSection
<1>1. EndStep
  BY FrameEnds
<1>2. UNCHANGED <<createdAt, unobservedGapEmitted>> /\ lastHealthyAt' = frame.ts
  BY DEF EndSteady, EndRecovery, EndBootstrap, EndFrame
<1>3. frame.ts = clock
  BY <1>1 DEF EndStep, Moment, InFrame
<1>. QED BY <1>1, <1>2, <1>3 DEF EndStep, GapSection, SaysFinished

LEMMA GapSections ==
  ASSUME Shape, Moment, StopRun \/ StreamLost \/ Health \/ FrameArrives \/ FrameContinues
  PROVE  GapSection
<1>1. CASE StopRun
  <2>1. /\ Settled /\ pc \in {"idle", "failed"} /\ pc' = "stopped"
        /\ UNCHANGED <<storeVars, clock, lastFrame, lost, watched, excused, blind, createdAt,
                       gapIsOpen, hasEverBeenHealthy, isBootstrapFrame, lastHealthyAt>>
    BY <1>1 DEF StopRun, Shutdown, WorldStays, ghostVars, seenVars
  <2>2. IF hasEverBeenHealthy THEN UNCHANGED <<outbox, eventSequence, unobservedGapEmitted>>
        ELSE UnobservedGap(clock)
    BY <1>1 DEF StopRun, Shutdown
  <2>. QED BY <2>1, <2>2, UnobservedSection DEF GapSection, SaysUnobserved
<1>2. CASE StreamLost
  BY <1>2, LostSection
<1>3. CASE Health
  <2>. DEFINE e == HealthEvent(clock, NoConn)
  <2>1. e.type = "Health"
    BY DEF HealthEvent, Event
  <2>2. Emit(<<e>>)
    BY <1>3 DEF Health, CollectorHealth
  <2>. HIDE DEF e
  <2>3. Len(outbox') = 1 /\ outbox'[1].ev = e
    BY <2>2, ShortSeqs, EmitParts
  <2>4. \A k \in 1..Len(outbox') : outbox'[k].ev.type \notin GapTypes
    BY <2>1, <2>3 DEF GapTypes
  <2>5. /\ Settled /\ pc' = pc
        /\ UNCHANGED <<storeVars, clock, lastFrame, lost, watched, excused, blind, createdAt,
                       gapIsOpen, hasEverBeenHealthy, isBootstrapFrame, lastHealthyAt,
                       unobservedGapEmitted>>
    BY <1>3 DEF Health, CollectorHealth, WorldStays, ghostVars, seenVars, gapVars, frameVars
  <2>. QED BY <2>4, <2>5 DEF GapSection, SaysNothing
<1>4. CASE FrameArrives
  BY <1>4, ArrivalSection
<1>5. CASE FrameContinues
  <2>0. UNCHANGED <<storeVars, clock, lastFrame, lost, watched, excused, blind>>
    BY <1>5 DEF FrameContinues, WorldStays, ghostVars
  <2>1. ASSUME NEW id \in todo, ConnStep(id) PROVE GapSection
    <3>1. /\ Settled /\ pc' = pc
          /\ UNCHANGED <<createdAt, gapIsOpen, hasEverBeenHealthy, isBootstrapFrame,
                         lastHealthyAt, unobservedGapEmitted>>
      BY <2>1 DEF ConnStep, gapVars, seenVars
    <3>2. \A k \in 1..Len(outbox') : outbox'[k].ev.type \in Touches \cup Starts
      BY <2>1 DEF ConnStep, Touched, Begun, Touches, Starts
    <3>3. \A k \in 1..Len(outbox') : outbox'[k].ev.type \notin GapTypes
      BY <3>2 DEF Touches, Starts, GapTypes
    <3>. QED BY <2>0, <3>1, <3>3 DEF GapSection, SaysNothing
  <2>2. ASSUME NEW id \in DOMAIN activeMap, GoneStep(id) PROVE GapSection
    <3>1. /\ Settled /\ pc' = pc
          /\ UNCHANGED <<createdAt, gapIsOpen, hasEverBeenHealthy, isBootstrapFrame,
                         lastHealthyAt, unobservedGapEmitted>>
      BY <2>2 DEF GoneStep, gapVars, seenVars
    <3>2. \A k \in 1..Len(outbox') : outbox'[k].ev.type \notin GapTypes
      BY <2>2 DEF GoneStep, GapTypes
    <3>. QED BY <2>0, <3>1, <3>2 DEF GapSection, SaysNothing
  <2>3. CASE EndSteady \/ EndRecovery \/ EndBootstrap
    BY <2>0, <2>3, FinishSection
  <2>4. CASE EndBootstrapLoop
    <3>1. /\ Settled /\ pc = "bootstrap" /\ pc' = "bootstrapped"
          /\ UNCHANGED <<createdAt, gapIsOpen, hasEverBeenHealthy, isBootstrapFrame>>
          /\ lastHealthyAt' = frame.ts
      BY <2>4 DEF EndBootstrapLoop
    <3>2. frame.ts = clock
      BY <3>1 DEF Moment, InFrame
    <3>3. IF hasEverBeenHealthy THEN UNCHANGED <<outbox, eventSequence, unobservedGapEmitted>>
          ELSE UnobservedGap(clock)
      BY <2>4, <3>2 DEF EndBootstrapLoop
    <3>. QED BY <2>0, <3>1, <3>2, <3>3, UnobservedSection DEF GapSection, SaysUnobserved
  <2>. QED BY <1>5, <2>1, <2>2, <2>3, <2>4, ProcessConnStep, DisappearStep DEF FrameContinues
<1>. QED BY <1>1, <1>2, <1>3, <1>4, <1>5

LEMMA GapSteps ==
  ASSUME Shape, ConnsTyped, Moment, [Next]_vars
  PROVE  \/ WorldValues /\ UNCHANGED ghostVars /\ (Down => sessions' = sessions)
         \/ GapSection
         \/ BeginRun \/ EndRun \/ Killed \/ EmitSucceeds \/ EmitFails
<1>1. CASE Tick \/ MihomoMoves \/ Rest \/ UNCHANGED vars
  <2>1. UNCHANGED ghostVars /\ (Down => sessions' = sessions)
    BY <1>1 DEF Tick, MihomoMoves, Quiet, Rest, vars, storeVars
  <2>. QED BY <1>1, <2>1, WorldHasValues
<1>. QED BY <1>1, GapSections DEF Next

\* The gaps of the store, and the moments the engine and an observer keep.
GapRow == [source : {"controller_stream", "collector_session_boundary"},
           session : Nat, id : Nat \X Nat, from : Nat, to : Nat]
GapsTyped ==
  /\ \A g \in store.gaps :
       /\ g \in GapRow /\ g.session \in 1..Session /\ g.to <= clock
       /\ g.to = NoTime => g.source = "controller_stream"
  /\ \A k \in 1..Len(outbox) : Opens(k) => outbox[k].ev.from \in 0..clock
  /\ lastFrame \in 0..clock /\ lastHealthyAt \in 0..clock /\ createdAt \in 0..clock

\* At most one gap of the running session is open, or about to be, and the engine
\* knows of it: it is there to be closed until a frame is complete.
OneGap ==
  /\ \A g, h \in OpenGaps : g = h
  /\ \A k \in 1..Len(outbox) : Opens(k) => k = 1 /\ OpenGaps = {}
  /\ pc = "idle" /\ (OpenGaps # {} \/ Opening) => gapIsOpen
  /\ InFrame /\ OpenGaps # {} => \E k \in 1..Len(outbox) : Closes(k)
  /\ InFrame /\ Opening => Len(outbox) = 2 /\ Closes(2)
  /\ ~Down /\ ~hasEverBeenHealthy /\ (OpenGaps # {} \/ Opening) => unobservedGapEmitted
  /\ Finishing => /\ pc = "idle" /\ Len(outbox) = 1 /\ hasEverBeenHealthy
                  /\ lastHealthyAt = clock /\ OpenGaps = {} /\ ~gapIsOpen
  /\ ~isBootstrapFrame => hasEverBeenHealthy

\* What an event does to the gaps and to what is known of the stream.
SentGap ==
  [source |-> "controller_stream", session |-> Session,
   id |-> <<outbox[1].frame, outbox[1].seq>>, from |-> outbox[1].ev.from, to |-> NoTime]
ClosedNow(g) == [g EXCEPT !.to = clock]
GapTaken ==
  /\ UNCHANGED <<clock, createdAt, gapIsOpen, hasEverBeenHealthy, lastHealthyAt,
                 unobservedGapEmitted, isBootstrapFrame, pc, blind>>
  /\ Session' = Session
  /\ Len(outbox) \in Nat /\ Len(outbox) > 0 /\ Len(outbox') = Len(outbox) - 1
  /\ \A k \in 1..Len(outbox') : k + 1 \in 1..Len(outbox) /\ outbox'[k] = outbox[k + 1]
  /\ IF outbox[1].ev.type = "Residual" THEN FrameDone(clock)
     ELSE UNCHANGED <<lastFrame, lost, watched, excused>>
  /\ \/ outbox[1].ev.type = "GapOpened" /\ store'.gaps = store.gaps \cup {SentGap}
     \/ /\ outbox[1].ev.type = "GapClosed"
        /\ \E g \in OpenGaps : store'.gaps = (store.gaps \ {g}) \cup {ClosedNow(g)}
     \/ outbox[1].ev.type \notin {"GapOpened", "GapClosed"} /\ store'.gaps = store.gaps

LEMMA TakesGap ==
  ASSUME Shape, Moment, GapsTyped, OneGap, EmitSucceeds
  PROVE  GapTaken
<1>1. /\ UNCHANGED <<clock, createdAt, gapIsOpen, hasEverBeenHealthy, lastHealthyAt,
                     unobservedGapEmitted, isBootstrapFrame, pc, blind>>
      /\ Session' = Session
  BY RecordSessions DEF EmitSucceeds, WorldStays, gapVars, seenVars, frameVars
<1>2. /\ Len(outbox) \in Nat /\ Len(outbox) > 0 /\ Len(outbox') = Len(outbox) - 1
      /\ \A k \in 1..(Len(outbox) - 1) : outbox'[k] = outbox[k + 1]
  BY TakenOutbox, StreamParts
<1>3. /\ Offered.session = Session /\ Offered.frame = outbox[1].frame
      /\ Offered.seq = outbox[1].seq /\ Offered.ev = outbox[1].ev
      /\ store'.gaps = ProjectGaps(store.gaps, Offered) /\ Projectable(store, Offered)
  BY TakenOutbox DEF EmitSucceeds, Record, Project, Acceptable
<1>4. outbox[1].ev.ts = clock
  BY <1>2 DEF Moment
<1>5. IF outbox[1].ev.type = "Residual" THEN FrameDone(clock)
      ELSE UNCHANGED <<lastFrame, lost, watched, excused>>
  BY <1>3, <1>4 DEF EmitSucceeds
<1>6. CASE outbox[1].ev.type = "GapOpened"
  <2>1. store'.gaps = store.gaps \cup {SentGap}
    BY <1>3, <1>6 DEF ProjectGaps, StreamGap, SentGap
  <2>. QED BY <1>1, <1>2, <1>5, <1>6, <2>1 DEF GapTaken
<1>7. CASE outbox[1].ev.type = "GapClosed"
  <2>. DEFINE last == CHOOSE g \in OpenGaps : \A h \in OpenGaps : h.from <= g.from
  <2>1. OpenGaps # {}
    BY <1>3, <1>7 DEF Projectable, OpenGaps
  <2>2. PICK g \in OpenGaps : TRUE
    BY <2>1
  <2>3. g.from \in Nat
    BY <2>2 DEF OpenGaps, OpenStreamGaps, GapsTyped, GapRow
  <2>4. \A h \in OpenGaps : h.from <= g.from
    BY <2>3 DEF OneGap
  <2>5. last \in OpenGaps
    BY <2>4
  <2>6. store'.gaps = (store.gaps \ {last}) \cup {ClosedNow(last)}
    BY <1>3, <1>4, <1>7 DEF ProjectGaps, OpenGaps, ClosedNow
  <2>. HIDE DEF last
  <2>. QED BY <1>1, <1>2, <1>5, <1>7, <2>5, <2>6 DEF GapTaken
<1>8. CASE outbox[1].ev.type \notin {"GapOpened", "GapClosed"}
  <2>1. store'.gaps = store.gaps
    BY <1>3, <1>8 DEF ProjectGaps
  <2>. QED BY <1>1, <1>2, <1>5, <1>8, <2>1 DEF GapTaken
<1>. QED BY <1>6, <1>7, <1>8

\* What the beginning of a session and the end of one do there.
LEMMA BegunGaps ==
  ASSUME Shape, SessionsTyped, BeginRun
  PROVE  /\ UNCHANGED <<clock, watched, excused>> /\ Down
         /\ lastFrame' = NoTime /\ ~lost' /\ blind' = blind \cup LeftBlind
         /\ pc' = "idle" /\ Len(outbox') = 0 /\ lastHealthyAt' = NoTime /\ createdAt' = clock
         /\ ~gapIsOpen' /\ ~hasEverBeenHealthy' /\ ~unobservedGapEmitted' /\ isBootstrapFrame'
         /\ Session' = Session + 1 /\ Session \in Nat
         /\ IF Session = 0 THEN store'.gaps = store.gaps
            ELSE LET from == OfflineSince(sessions[Session], clock)
                 IN  store'.gaps = IF from = NoTime THEN store.gaps
                                   ELSE store.gaps \cup {BoundaryGap(Session, from, clock)}
<1>1. /\ UNCHANGED <<clock, watched, excused>> /\ Down
      /\ lastFrame' = NoTime /\ ~lost' /\ blind' = blind \cup LeftBlind
      /\ pc' = "idle" /\ outbox' = << >> /\ lastHealthyAt' = NoTime /\ createdAt' = clock
      /\ ~gapIsOpen' /\ ~hasEverBeenHealthy' /\ ~unobservedGapEmitted' /\ isBootstrapFrame'
  BY DEF BeginRun, WorldStays, EngineReplaced
<1>2. Len(outbox') = 0
  BY <1>1, ShortSeqs
<1>3. Session' = Session + 1 /\ Session \in Nat
  BY BegunSession
<1>4. CASE Session = 0
  BY <1>1, <1>2, <1>3, <1>4, BegunSession DEF FirstSession
<1>5. CASE Session # 0
  <2>1. NextSession(clock) /\ Last(sessions) = sessions[Session]
    BY <1>3, <1>5, BegunSession
  <2>2. LET from == OfflineSince(sessions[Session], clock)
        IN  store'.gaps = IF from = NoTime THEN store.gaps
                          ELSE store.gaps \cup {BoundaryGap(Session, from, clock)}
    BY <2>1 DEF NextSession
  <2>. QED BY <1>1, <1>2, <1>3, <1>5, <2>2
<1>. QED BY <1>4, <1>5

LEMMA LeftGaps ==
  ASSUME Shape, EndRun \/ Killed
  PROVE  /\ UNCHANGED <<clock, watched, lastFrame, lost, blind>> /\ store'.gaps = store.gaps
         /\ excused' = excused \cup Edge
         /\ pc' = "down" /\ pc # "down" /\ Len(outbox') = 0
         /\ lastHealthyAt' = NoTime /\ createdAt' = NoTime /\ isBootstrapFrame'
         /\ Session' = Session /\ Session \in 1..Session
<1>1. /\ UNCHANGED <<clock, watched, lastFrame, lost, blind>> /\ excused' = excused \cup Edge
      /\ pc' = "down" /\ pc # "down" /\ outbox' = << >>
      /\ lastHealthyAt' = NoTime /\ createdAt' = NoTime /\ isBootstrapFrame'
  BY DEF EndRun, Killed, Exits, EngineReplaced, LeaveSession, WorldStays, Down
<1>2. Session' = Session /\ Session \in 1..Session
  <2>1. CASE EndRun
    BY <2>1, EndedSession
  <2>2. CASE Killed
    <3>1. Session' = Session
      BY <2>2 DEF Killed, storeVars, Session
    <3>2. Session > 0 /\ Session \in Nat
      BY <1>1, SessionCount DEF Shape, SessionsShape
    <3>. QED BY <3>1, <3>2
  <2>. QED BY <2>1, <2>2
<1>3. store'.gaps = store.gaps
  BY DEF EndRun, EndSession, Killed, storeVars, Shape, StoreShape
<1>4. Len(outbox') = 0
  BY <1>1, ShortSeqs
<1>. QED BY <1>1, <1>2, <1>3, <1>4

LEMMA RefusedGaps ==
  ASSUME Shape, EmitFails
  PROVE  /\ UNCHANGED <<clock, watched, excused, lastFrame, lost, lastHealthyAt, createdAt,
                        gapIsOpen, hasEverBeenHealthy, unobservedGapEmitted,
                        isBootstrapFrame, sessions, journal, store>>
         /\ pc # "down" /\ Session' = Session /\ Len(outbox') = 0 /\ Len(outbox) > 0
         /\ pc' = IF pc = "stopped" THEN "stopped" ELSE "failed"
         /\ blind' = IF ~hasEverBeenHealthy /\ outbox[1].ev.type = "GapOpened"
                       THEN blind \cup Moments(createdAt, clock) ELSE blind
<1>1. outbox # << >> /\ outbox' = << >> /\ IsSeq(outbox)
  BY DEF EmitFails, SinkFails, Shape, EngineShape
<1>2. Len(outbox') = 0 /\ Len(outbox) > 0 /\ Head(outbox) = outbox[1]
  BY <1>1, ShortSeqs, TailParts
<1>3. Offered.ev = outbox[1].ev
  BY <1>2 DEF Offered
<1>4. pc # "down" /\ Session' = Session
  BY <1>1 DEF Shape, EngineShape, EmitFails, storeVars, Session
<1>. QED BY <1>1, <1>2, <1>3, <1>4
         DEF EmitFails, SinkFails, WorldStays, seenVars, gapVars, storeVars

\* Where a boundary gap begins is a moment that was known.
LEMMA OfflineMoment ==
  ASSUME NEW row \in SessionRow, NEW now \in Nat
  PROVE  /\ OfflineSince(row, now) \in Nat
         /\ OfflineSince(row, now) \in {row.lastEventAt, row.endedAt, now, NoTime}
BY DEF OfflineSince, FirstKnown, SessionRow, NoTime

LEMMA GapKinds ==
  ASSUME Shape, Len(outbox) > 0, outbox[1].ev.from \in Nat, Session \in Nat
  PROVE  SentGap \in GapRow /\ SentGap.from = outbox[1].ev.from /\ SentGap.to = NoTime
         /\ SentGap.session = Session /\ SentGap.source = "controller_stream"
<1>1. outbox[1].frame \in Nat /\ outbox[1].seq \in Nat
  BY SeqParts DEF Shape, EngineShape
<1>. QED BY <1>1 DEF SentGap, GapRow, NoTime

LEMMA ClosedNowRow ==
  ASSUME NEW g \in GapRow, clock \in Nat
  PROVE  /\ ClosedNow(g) \in GapRow /\ ClosedNow(g).from = g.from /\ ClosedNow(g).to = clock
         /\ ClosedNow(g).session = g.session /\ ClosedNow(g).source = g.source
BY DEF ClosedNow, GapRow

LEMMA GapsTypedNext ==
  ASSUME Shape, ConnsTyped, Moment, SessionsTyped, GapsTyped, OneGap,
         [Next]_vars
  PROVE  GapsTyped'
<1>0. clock \in Nat /\ clock > 0 /\ Session \in Nat /\ NoTime = 0
  BY SessionCount DEF Moment, NoTime
<1>1. CASE WorldValues /\ UNCHANGED ghostVars
  <2>1. /\ UNCHANGED <<lastFrame, lastHealthyAt, createdAt, outbox, store>>
        /\ Session' = Session /\ clock' \in Nat /\ clock <= clock'
    BY <1>0, <1>1 DEF WorldValues, WorldStep, engineVars, seenVars, gapVars, ghostVars, Session
  <2>2. \A g \in store.gaps : g.to <= clock'
    BY <1>0, <2>1 DEF GapsTyped, GapRow
  <2>. QED BY <1>0, <2>1, <2>2 DEF GapsTyped, Opens
<1>2. CASE GapSection
  <2>1. /\ UNCHANGED <<store, clock, lastFrame, createdAt>> /\ Session' = Session
        /\ lastHealthyAt' \in {lastHealthyAt, clock}
    BY <1>2 DEF GapSection, SaysNothing, SaysLost, SaysRecovered, SaysFinished,
                SaysUnobserved, storeVars, Session
  <2>2. ASSUME NEW k \in 1..Len(outbox'), Opens(k)' PROVE outbox'[k].ev.from \in 0..clock
    <3>1. SaysLost \/ SaysUnobserved
      BY <1>2, <2>2 DEF GapSection, SaysNothing, SaysRecovered, SaysFinished, GapTypes, Opens
    <3>2. CASE SaysLost
      BY <1>0, <2>2, <3>2 DEF SaysLost, GapFrom, GapsTyped
    <3>3. CASE SaysUnobserved
      <4>0. Len(outbox') = 2
        BY <2>2, <3>3 DEF SaysUnobserved
      <4>1. k = 1 \/ k = 2
        BY <2>2, <4>0
      <4>. QED BY <2>2, <3>3, <4>1 DEF SaysUnobserved, Opens, GapsTyped
    <3>. QED BY <3>1, <3>2, <3>3
  <2>. QED BY <1>0, <2>1, <2>2 DEF GapsTyped
<1>3. CASE BeginRun
  <2>1. /\ clock' = clock /\ lastFrame' = NoTime /\ lastHealthyAt' = NoTime
        /\ createdAt' = clock /\ Len(outbox') = 0 /\ Session' = Session + 1
    BY <1>3, BegunGaps
  <2>2. ASSUME NEW g \in store'.gaps
        PROVE  /\ g \in GapRow /\ g.session \in 1..Session' /\ g.to <= clock
               /\ g.to = NoTime => g.source = "controller_stream"
    <3>1. CASE g \in store.gaps
      BY <1>0, <2>1, <3>1 DEF GapsTyped
    <3>2. CASE g \notin store.gaps
      <4>1. Session # 0
        BY <1>3, <2>2, <3>2, BegunGaps
      <4>2. PICK from : from = OfflineSince(sessions[Session], clock)
        OBVIOUS
      <4>3. g = BoundaryGap(Session, from, clock)
        BY <1>3, <2>2, <3>2, <4>1, <4>2, BegunGaps
      <4>4. from \in Nat
        BY <1>0, <4>1, <4>2, OfflineMoment DEF SessionsTyped
      <4>5. /\ g \in GapRow /\ g.to = clock /\ g.session = Session + 1
            /\ g.source = "collector_session_boundary"
        BY <1>0, <4>3, <4>4 DEF BoundaryGap, GapRow
      <4>6. clock <= clock /\ clock # NoTime /\ Session + 1 \in 1..(Session + 1)
        BY <1>0
      <4>. QED BY <2>1, <4>5, <4>6
    <3>. QED BY <3>1, <3>2
  <2>. QED BY <1>0, <2>1, <2>2 DEF GapsTyped
<1>4. CASE EndRun \/ Killed \/ EmitFails
  <2>1. /\ clock' = clock /\ lastFrame' = lastFrame /\ lastHealthyAt' \in {lastHealthyAt, NoTime}
        /\ createdAt' \in {createdAt, NoTime} /\ Len(outbox') = 0 /\ Session' = Session
        /\ store'.gaps = store.gaps
    BY <1>4, LeftGaps, RefusedGaps
  <2>. QED BY <1>0, <2>1 DEF GapsTyped
<1>5. CASE EmitSucceeds
  <2>0. GapTaken
    BY <1>5, TakesGap
  <2>1. /\ UNCHANGED <<clock, createdAt, lastHealthyAt>> /\ lastFrame' \in {lastFrame, clock}
        /\ Session' = Session /\ Session \in 1..Session
    BY <1>5, <2>0, RecordSessions DEF GapTaken, FrameDone
  <2>2. \A k \in 1..Len(outbox') : Opens(k)' => outbox'[k].ev.from \in 0..clock
    BY <2>0 DEF GapTaken, GapsTyped, Opens
  <2>3. ASSUME NEW g \in store'.gaps
        PROVE  /\ g \in GapRow /\ g.session \in 1..Session /\ g.to <= clock
               /\ g.to = NoTime => g.source = "controller_stream"
    <3>1. CASE g \in store.gaps
      BY <3>1 DEF GapsTyped
    <3>2. CASE g \notin store.gaps
      <4>1. CASE outbox[1].ev.type = "GapOpened"
        <5>1. g = SentGap /\ outbox[1].ev.from \in Nat /\ Len(outbox) > 0
          BY <1>0, <2>0, <2>3, <3>2, <4>1 DEF GapTaken, GapsTyped, Opens
        <5>. QED BY <1>0, <2>1, <5>1, GapKinds
      <4>2. CASE outbox[1].ev.type # "GapOpened"
        <5>1. PICK h \in store.gaps : g = ClosedNow(h)
          BY <2>0, <2>3, <3>2, <4>2 DEF GapTaken, OpenGaps, OpenStreamGaps
        <5>2. h \in GapRow /\ h.session \in 1..Session
          BY DEF GapsTyped
        <5>. QED BY <1>0, <5>1, <5>2, ClosedNowRow
      <4>. QED BY <4>1, <4>2
    <3>. QED BY <3>1, <3>2
  <2>. QED BY <1>0, <2>1, <2>2, <2>3 DEF GapsTyped
<1>. QED BY <1>1, <1>2, <1>3, <1>4, <1>5, GapSteps

\* The open gaps of the running session, after each kind of step.
LEMMA SameOpenGaps ==
  ASSUME store'.gaps = store.gaps, Session' = Session
  PROVE  OpenGaps' = OpenGaps
BY DEF OpenGaps, OpenStreamGaps

LEMMA NewOpenGaps ==
  ASSUME Shape, SessionsTyped, GapsTyped, Moment, BeginRun
  PROVE  OpenGaps' = {}
<1>. SUFFICES ASSUME NEW g \in OpenGaps' PROVE FALSE
  OBVIOUS
<1>1. /\ g \in store'.gaps /\ g.session = Session' /\ g.to = NoTime
      /\ g.source = "controller_stream"
  BY DEF OpenGaps, OpenStreamGaps
<1>2. Session' = Session + 1 /\ Session \in Nat
  BY BegunGaps
<1>3. g \notin store.gaps
  BY <1>1, <1>2 DEF GapsTyped
<1>4. \E from : g = BoundaryGap(Session, from, clock)
  BY <1>1, <1>3, BegunGaps
<1>. QED BY <1>1, <1>4 DEF BoundaryGap

LEMMA TakenOpenGaps ==
  ASSUME Shape, Moment, GapsTyped, OneGap, GapTaken, Session \in Nat
  PROVE  /\ outbox[1].ev.type = "GapOpened" => OpenGaps' = {SentGap} /\ OpenGaps = {}
         /\ outbox[1].ev.type = "GapClosed" => OpenGaps' = {}
         /\ outbox[1].ev.type \notin {"GapOpened", "GapClosed"} => OpenGaps' = OpenGaps
<1>0. Session' = Session /\ 1 \in 1..Len(outbox) /\ Len(outbox) > 0
  BY DEF GapTaken
<1>1. CASE outbox[1].ev.type = "GapOpened"
  <2>1. OpenGaps = {} /\ outbox[1].ev.from \in Nat
    BY <1>0, <1>1 DEF OneGap, Opens, GapsTyped, Moment
  <2>2. store'.gaps = store.gaps \cup {SentGap}
    BY <1>1 DEF GapTaken
  <2>3. /\ SentGap.session = Session /\ SentGap.to = NoTime
        /\ SentGap.source = "controller_stream"
    BY <1>0, <2>1, GapKinds
  <2>4. OpenGaps' = {SentGap}
    BY <1>0, <2>1, <2>2, <2>3 DEF OpenGaps, OpenStreamGaps
  <2>. QED BY <1>1, <2>1, <2>4
<1>2. CASE outbox[1].ev.type = "GapClosed"
  <2>1. PICK g \in OpenGaps : store'.gaps = (store.gaps \ {g}) \cup {ClosedNow(g)}
    BY <1>2 DEF GapTaken
  <2>2. ClosedNow(g).to # NoTime
    BY <2>1, ClosedNowRow DEF OpenGaps, OpenStreamGaps, GapsTyped, Moment, NoTime
  <2>3. \A h \in OpenGaps : h = g
    BY <2>1 DEF OneGap
  <2>4. OpenGaps' = {}
    BY <1>0, <2>1, <2>2, <2>3 DEF OpenGaps, OpenStreamGaps
  <2>. QED BY <1>2, <2>4
<1>3. CASE outbox[1].ev.type \notin {"GapOpened", "GapClosed"}
  BY <1>0, <1>3, SameOpenGaps DEF GapTaken
<1>. QED BY <1>1, <1>2, <1>3

LEMMA OneGapSection ==
  ASSUME Shape, BootstrapState, Moment, OneGap, GapSection
  PROVE  OneGap'
<1>1. /\ Len(outbox) = 0 /\ clock' = clock /\ ~Opening /\ OpenGaps' = OpenGaps
      /\ \A g, h \in OpenGaps : g = h
  BY ShortSeqs, SameOpenGaps DEF GapSection, Settled, storeVars, Session, Opening, OneGap
<1>2. /\ pc = "idle" /\ OpenGaps # {} => gapIsOpen
      /\ InFrame => OpenGaps = {}
      /\ ~Down /\ ~hasEverBeenHealthy /\ OpenGaps # {} => unobservedGapEmitted
      /\ ~isBootstrapFrame => hasEverBeenHealthy
  BY <1>1 DEF OneGap
<1>3. CASE SaysNothing
  <2>1. ~Opening' /\ ~Finishing' /\ \A k \in 1..Len(outbox') : ~Opens(k)'
    BY <1>3 DEF SaysNothing, GapTypes, Opening, Finishing, Opens
  <2>2. /\ pc' = "idle" /\ OpenGaps' # {} => gapIsOpen'
        /\ InFrame' => OpenGaps' = {}
        /\ ~Down' /\ ~hasEverBeenHealthy' /\ OpenGaps' # {} => unobservedGapEmitted'
        /\ ~isBootstrapFrame' => hasEverBeenHealthy'
    BY <1>1, <1>2, <1>3 DEF SaysNothing, InFrame, Down
  <2>. QED BY <1>1, <2>1, <2>2 DEF OneGap
<1>4. CASE SaysLost
  <2>1. /\ OpenGaps' = {} /\ \A k \in 1..Len(outbox') : k = 1
        /\ pc' = "idle" /\ gapIsOpen' /\ hasEverBeenHealthy'
    BY <1>1, <1>2, <1>4 DEF SaysLost
  <2>2. ~Finishing' /\ ~InFrame'
    BY <1>4, <2>1 DEF SaysLost, Finishing, InFrame
  <2>. QED BY <1>1, <2>1, <2>2 DEF OneGap
<1>5. CASE SaysRecovered
  <2>1. ~Opening' /\ ~Finishing' /\ \A k \in 1..Len(outbox') : ~Opens(k)'
    BY <1>5 DEF SaysRecovered, Opening, Finishing, Opens
  <2>2. /\ pc' # "idle" /\ \E k \in 1..Len(outbox') : Closes(k)'
        /\ ~Down' /\ ~hasEverBeenHealthy' /\ OpenGaps' # {} => unobservedGapEmitted'
        /\ ~isBootstrapFrame' => hasEverBeenHealthy'
    BY <1>1, <1>2, <1>5 DEF SaysRecovered, Closes, Down
  <2>. QED BY <1>1, <2>1, <2>2 DEF OneGap
<1>6. CASE SaysFinished
  <2>1. /\ OpenGaps' = {} /\ hasEverBeenHealthy' /\ ~gapIsOpen'
        /\ pc' = "idle" /\ lastHealthyAt' = clock
    BY <1>1, <1>2, <1>6 DEF SaysFinished, InFrame, BootstrapState
  <2>2. Len(outbox') = 1 /\ ~Opening' /\ \A k \in 1..Len(outbox') : ~Opens(k)'
    BY <1>6 DEF SaysFinished, Opening, Opens
  <2>3. ~InFrame' /\ ~Down'
    BY <2>1 DEF InFrame, Down
  <2>. QED BY <1>1, <2>1, <2>2, <2>3 DEF OneGap
<1>7. CASE SaysUnobserved
  <2>1. /\ ~Finishing' /\ pc' # "idle"
        /\ (~isBootstrapFrame' => hasEverBeenHealthy')
        /\ (hasEverBeenHealthy' <=> hasEverBeenHealthy)
    BY <1>2, <1>7 DEF SaysUnobserved, Finishing
  <2>2. CASE Len(outbox') = 0 /\ unobservedGapEmitted' = unobservedGapEmitted
    <3>1. ~Opening' /\ \A k \in 1..Len(outbox') : ~Opens(k)'
      BY <2>2 DEF Opening
    <3>2. InFrame' => OpenGaps = {}
      BY <1>2, <1>7 DEF SaysUnobserved, InFrame
    <3>3. ~hasEverBeenHealthy /\ OpenGaps # {} => unobservedGapEmitted
      BY <1>2, <1>7 DEF SaysUnobserved, Down
    <3>. QED BY <1>1, <2>1, <2>2, <3>1, <3>2, <3>3 DEF OneGap
  <2>3. CASE Len(outbox') # 0
    <3>1. /\ ~hasEverBeenHealthy /\ ~unobservedGapEmitted /\ unobservedGapEmitted' /\ ~Down
          /\ Len(outbox') = 2 /\ outbox'[2].ev.type = "GapClosed"
      BY <1>7, <2>3 DEF SaysUnobserved, Down
    <3>2. OpenGaps' = {}
      BY <1>1, <1>2, <3>1
    <3>3. Closes(2)' /\ \A k \in 1..Len(outbox') : Opens(k)' => k = 1
      BY <3>1 DEF Closes, Opens
    <3>. QED BY <1>1, <2>1, <3>1, <3>2, <3>3 DEF OneGap
  <2>. QED BY <1>7, <2>2, <2>3 DEF SaysUnobserved
<1>. QED BY <1>3, <1>4, <1>5, <1>6, <1>7 DEF GapSection

LEMMA OneGapTaken ==
  ASSUME Shape, Moment, GapsTyped, OneGap, GapTaken, Session \in Nat
  PROVE  OneGap'
<1>1. /\ UNCHANGED <<pc, clock, gapIsOpen, hasEverBeenHealthy, lastHealthyAt,
                     unobservedGapEmitted, isBootstrapFrame>>
      /\ Len(outbox) \in Nat /\ Len(outbox) > 0 /\ Len(outbox') = Len(outbox) - 1
      /\ \A k \in 1..Len(outbox') : k + 1 \in 1..Len(outbox) /\ outbox'[k] = outbox[k + 1]
      /\ (Down' <=> Down) /\ (InFrame' <=> InFrame)
  BY DEF GapTaken, Down, InFrame
<1>2. \A k \in 1..Len(outbox') : ~Opens(k)'
  BY <1>1 DEF OneGap, Opens
<1>3. ~Finishing'
  <2>. SUFFICES ASSUME Finishing' PROVE FALSE
    OBVIOUS
  <2>1. PICK k \in 1..Len(outbox') : outbox'[k].ev.type = "Residual"
    BY DEF Finishing
  <2>2. Finishing /\ Len(outbox) > 1
    BY <1>1, <2>1 DEF Finishing
  <2>3. Len(outbox) = 1
    BY <2>2 DEF OneGap
  <2>. QED BY <2>2, <2>3
<1>4. CASE outbox[1].ev.type = "GapOpened"
  <2>1. OpenGaps' = {SentGap} /\ Opening
    BY <1>1, <1>4, TakenOpenGaps DEF Opening, Opens
  <2>2. InFrame => 1 \in 1..Len(outbox') /\ Closes(1)'
    BY <1>1, <2>1 DEF OneGap, Closes
  <2>. QED BY <1>1, <1>2, <1>3, <2>1, <2>2 DEF OneGap, Opening
<1>5. CASE outbox[1].ev.type = "GapClosed"
  <2>1. OpenGaps' = {}
    BY <1>5, TakenOpenGaps
  <2>. QED BY <1>1, <1>2, <1>3, <2>1 DEF OneGap, Opening
<1>6. CASE outbox[1].ev.type \notin {"GapOpened", "GapClosed"}
  <2>1. OpenGaps' = OpenGaps
    BY <1>6, TakenOpenGaps
  <2>2. ASSUME InFrame, OpenGaps # {} PROVE \E k \in 1..Len(outbox') : Closes(k)'
    <3>1. PICK k \in 1..Len(outbox) : Closes(k)
      BY <2>2 DEF OneGap
    <3>2. k # 1
      BY <1>6, <3>1 DEF Closes
    <3>3. k - 1 \in 1..Len(outbox') /\ (k - 1) + 1 = k
      BY <1>1, <3>2
    <3>. QED BY <1>1, <3>1, <3>3 DEF Closes
  <2>. QED BY <1>1, <1>2, <1>3, <2>1, <2>2 DEF OneGap, Opening
<1>. QED BY <1>4, <1>5, <1>6

LEMMA OneGapNext ==
  ASSUME Shape, BootstrapState, ConnsTyped, Moment, SessionsTyped, GapsTyped, OneGap,
         [Next]_vars
  PROVE  OneGap'
<1>0. Session \in Nat
  BY SessionCount
<1>1. CASE WorldValues /\ UNCHANGED ghostVars
  <2>1. /\ UNCHANGED <<pc, outbox, gapIsOpen, hasEverBeenHealthy, lastHealthyAt,
                       unobservedGapEmitted, isBootstrapFrame>>
        /\ OpenGaps' = OpenGaps /\ (clock' = clock \/ outbox = << >>)
    BY <1>1, SameOpenGaps DEF WorldValues, WorldStep, engineVars, frameVars, gapVars, seenVars,
                              Settled, Session
  <2>2. (Down' <=> Down) /\ (InFrame' <=> InFrame) /\ (Opening' <=> Opening)
        /\ \A k : (Opens(k)' <=> Opens(k)) /\ (Closes(k)' <=> Closes(k))
    BY <2>1 DEF Down, InFrame, Opening, Opens, Closes
  <2>3. Finishing' => Finishing /\ clock' = clock
    BY <2>1, ShortSeqs DEF Finishing
  <2>. QED BY <2>1, <2>2, <2>3 DEF OneGap
<1>2. CASE GapSection
  BY <1>2, OneGapSection
<1>3. CASE BeginRun
  <2>1. /\ OpenGaps' = {} /\ Len(outbox') = 0 /\ pc' = "idle" /\ isBootstrapFrame'
    BY <1>3, NewOpenGaps, BegunGaps
  <2>2. ~Opening' /\ ~Finishing' /\ ~InFrame'
    BY <2>1 DEF Opening, Finishing, InFrame
  <2>. QED BY <2>1, <2>2 DEF OneGap
<1>4. CASE EndRun \/ Killed
  <2>1. /\ OpenGaps' = OpenGaps /\ Len(outbox') = 0 /\ pc' = "down" /\ isBootstrapFrame'
    BY <1>4, LeftGaps, SameOpenGaps
  <2>2. ~Opening' /\ ~Finishing' /\ ~InFrame' /\ Down'
    BY <2>1 DEF Opening, Finishing, InFrame, Down
  <2>. QED BY <2>1, <2>2 DEF OneGap
<1>5. CASE EmitFails
  <2>1. /\ OpenGaps' = OpenGaps /\ Len(outbox') = 0 /\ pc' \in {"stopped", "failed"}
        /\ UNCHANGED <<hasEverBeenHealthy, unobservedGapEmitted, isBootstrapFrame>>
        /\ ~Down
    BY <1>5, RefusedGaps, SameOpenGaps DEF Down
  <2>2. ~Opening' /\ ~Finishing' /\ ~InFrame'
    BY <2>1 DEF Opening, Finishing, InFrame
  <2>. QED BY <2>1, <2>2 DEF OneGap
<1>6. CASE EmitSucceeds
  BY <1>0, <1>6, TakesGap, OneGapTaken
<1>. QED BY <1>1, <1>2, <1>3, <1>4, <1>5, <1>6, GapSteps

\* An engine that was never healthy has completed no frame, one with a gap has lost
\* the stream since the last one, and one that has not closed its gaps before it.
LossKnown ==
  /\ ~Down /\ ~hasEverBeenHealthy => lastFrame = NoTime
  /\ (OpenGaps # {} \/ Opening) /\ lastFrame # NoTime => lost
  /\ lastFrame # NoTime /\ ~lost =>
       \A g \in store.gaps : g.to # NoTime => g.to <= lastFrame

LEMMA LossKnownTaken ==
  ASSUME Shape, Moment, GapsTyped, OneGap, LossKnown, GapTaken, Session \in Nat
  PROVE  LossKnown'
<1>0. /\ clock' = clock /\ clock \in Nat /\ clock > 0 /\ NoTime = 0
      /\ (Down' <=> Down) /\ hasEverBeenHealthy' = hasEverBeenHealthy
      /\ Len(outbox) \in Nat /\ Len(outbox) > 0
  BY DEF GapTaken, Down, Moment, NoTime
<1>1. ~Opening'
  BY DEF GapTaken, OneGap, Opening, Opens
<1>2. CASE outbox[1].ev.type = "Residual"
  <2>1. /\ Finishing /\ lastFrame' = clock /\ store'.gaps = store.gaps
        /\ OpenGaps' = OpenGaps
    <3>1. 1 \in 1..Len(outbox)
      BY <1>0
    <3>2. lastFrame' = clock /\ store'.gaps = store.gaps
      BY <1>2 DEF GapTaken, FrameDone
    <3>. QED BY <1>2, <3>1, <3>2, TakenOpenGaps DEF Finishing
  <2>2. hasEverBeenHealthy /\ OpenGaps' = {}
    BY <2>1 DEF OneGap
  <2>3. \A g \in store'.gaps : g.to # NoTime => g.to <= lastFrame'
    BY <2>1 DEF GapsTyped
  <2>. QED BY <1>0, <1>1, <2>2, <2>3 DEF LossKnown
<1>3. CASE outbox[1].ev.type # "Residual"
  <2>0. UNCHANGED <<lastFrame, lost>>
    BY <1>3 DEF GapTaken
  <2>1. CASE outbox[1].ev.type = "GapOpened"
    <3>1. Opening /\ store'.gaps = store.gaps \cup {SentGap} /\ SentGap.to = NoTime
      BY <1>0, <2>1 DEF GapTaken, Opening, Opens, SentGap
    <3>. QED BY <1>0, <1>1, <2>0, <3>1 DEF LossKnown
  <2>2. CASE outbox[1].ev.type = "GapClosed"
    <3>1. OpenGaps # {} /\ OpenGaps' = {}
      BY <2>2, TakenOpenGaps DEF GapTaken
    <3>. QED BY <1>0, <1>1, <2>0, <3>1 DEF LossKnown
  <2>3. CASE outbox[1].ev.type \notin {"GapOpened", "GapClosed"}
    <3>1. OpenGaps' = OpenGaps /\ store'.gaps = store.gaps
      BY <2>3, TakenOpenGaps DEF GapTaken
    <3>. QED BY <1>0, <1>1, <2>0, <3>1 DEF LossKnown
  <2>. QED BY <2>1, <2>2, <2>3
<1>. QED BY <1>2, <1>3

LEMMA LossKnownNext ==
  ASSUME Shape, ConnsTyped, Moment, SessionsTyped, GapsTyped, OneGap, LossKnown,
         [Next]_vars
  PROVE  LossKnown'
<1>0. Session \in Nat
  BY SessionCount
<1>1. CASE WorldValues /\ UNCHANGED ghostVars
  <2>1. /\ UNCHANGED <<pc, outbox, hasEverBeenHealthy, lastFrame, lost, store>>
        /\ OpenGaps' = OpenGaps
    BY <1>1, SameOpenGaps DEF WorldValues, WorldStep, engineVars, frameVars, gapVars, ghostVars,
                              Session
  <2>2. (Down' <=> Down) /\ (Opening' <=> Opening)
    BY <2>1 DEF Down, Opening, Opens
  <2>. QED BY <2>1, <2>2 DEF LossKnown
<1>2. CASE GapSection
  <2>1. /\ UNCHANGED <<lastFrame, store>> /\ OpenGaps' = OpenGaps
    BY <1>2, SameOpenGaps DEF GapSection, storeVars, Session
  <2>2. /\ Down' <=> Down
        /\ ~hasEverBeenHealthy' => ~hasEverBeenHealthy
        /\ lost' = lost \/ lost'
    BY <1>2 DEF GapSection, SaysNothing, SaysLost, SaysRecovered, SaysFinished, SaysUnobserved,
                Down
  <2>3. Opening' => lost' \/ (~Down /\ ~hasEverBeenHealthy)
    <3>1. CASE SaysNothing \/ SaysRecovered \/ SaysFinished
      BY <3>1 DEF SaysNothing, SaysRecovered, SaysFinished, GapTypes, Opening, Opens
    <3>2. CASE SaysLost
      BY <3>2 DEF SaysLost
    <3>3. CASE SaysUnobserved
      BY <3>3 DEF SaysUnobserved, Opening, Down
    <3>. QED BY <1>2, <3>1, <3>2, <3>3 DEF GapSection
  <2>. QED BY <2>1, <2>2, <2>3 DEF LossKnown
<1>3. CASE BeginRun
  BY <1>3, BegunGaps DEF LossKnown
<1>4. CASE EndRun \/ Killed
  <2>1. /\ UNCHANGED <<lastFrame, lost>> /\ OpenGaps' = OpenGaps
        /\ store'.gaps = store.gaps /\ Len(outbox') = 0 /\ pc' = "down"
    BY <1>4, LeftGaps, SameOpenGaps
  <2>2. ~Opening' /\ Down'
    BY <2>1 DEF Opening, Down
  <2>. QED BY <2>1, <2>2 DEF LossKnown
<1>5. CASE EmitFails
  <2>1. /\ UNCHANGED <<lastFrame, lost, hasEverBeenHealthy>> /\ OpenGaps' = OpenGaps
        /\ store' = store /\ Len(outbox') = 0 /\ ~Down
    BY <1>5, RefusedGaps, SameOpenGaps DEF Down
  <2>2. ~Opening'
    BY <2>1 DEF Opening
  <2>. QED BY <2>1, <2>2 DEF LossKnown
<1>6. CASE EmitSucceeds
  BY <1>0, <1>6, TakesGap, LossKnownTaken
<1>. QED BY <1>1, <1>2, <1>3, <1>4, <1>5, <1>6, GapSteps

\* What is on record of the last session: its moments are in order, and it has
\* completed a frame when an observer has seen it do so.
LastRow == sessions[Session]
SessionTimes ==
  /\ ~Down => (CompletedFrame <=> lastFrame # NoTime)
  /\ Session > 0 =>
       /\ LastRow.lastEventAt <= LastRow.heartbeatAt /\ LastRow.heartbeatAt <= clock
       /\ ~Down => LastRow.startedAt = createdAt
       /\ CompletedFrame => LastRow.lastEventAt # NoTime
       /\ IF Running(Session) THEN LastRow.endedAt = NoTime
          ELSE /\ LastRow.endedAt # NoTime /\ LastRow.endedAt <= clock
               /\ LastRow.lastEventAt <= LastRow.endedAt

LEMMA SameFrames ==
  ASSUME journal' = journal, Session' = Session
  PROVE  CompletedFrame' <=> CompletedFrame
BY DEF CompletedFrame

LEMMA TakenTimesOf ==
  ASSUME Shape, Moment, SessionsTyped, SessionTimes, EmitSucceeds, GapTaken
  PROVE  SessionTimes'
<1>1. /\ Session' = Session /\ Session \in 1..Session
      /\ sessions'[Session] = [LastRow EXCEPT !.lastEventAt = clock, !.heartbeatAt = clock]
  BY TakenSession DEF LastRow
<1>2. LastRow \in SessionRow /\ clock \in Nat /\ clock > 0 /\ NoTime = 0
  BY <1>1 DEF SessionsTyped, LastRow, Moment, NoTime
<1>3. /\ sessions'[Session].lastEventAt = clock /\ sessions'[Session].heartbeatAt = clock
      /\ sessions'[Session].startedAt = LastRow.startedAt
      /\ sessions'[Session].endedAt = LastRow.endedAt
      /\ sessions'[Session].status = LastRow.status
  BY <1>1, <1>2 DEF SessionRow
<1>4. /\ UNCHANGED <<clock, createdAt, pc>> /\ (Down' <=> Down) /\ ~Down /\ Running(Session)
  <2>1. UNCHANGED <<clock, createdAt, pc>> /\ Len(outbox) > 0
    BY DEF GapTaken
  <2>2. pc # "down"
    BY <2>1, ShortSeqs DEF Shape, EngineShape
  <2>. QED BY <2>1, <2>2 DEF Down, Shape, SessionsShape
<1>5. (CompletedFrame' <=> lastFrame' # NoTime)
  <2>1. /\ Len(journal) \in Nat /\ DOMAIN journal = 1..Len(journal)
        /\ DOMAIN journal' = 1..(Len(journal) + 1)
        /\ journal'[Len(journal) + 1] = Offered
        /\ \A i \in 1..Len(journal) : journal'[i] = journal[i]
        /\ Offered.session = Session /\ Offered.ev.type = outbox[1].ev.type
    BY TakenOutbox, SeqParts DEF Shape, JournalShape
  <2>2. CompletedFrame' <=> CompletedFrame \/ outbox[1].ev.type = "Residual"
    <3>1. ASSUME CompletedFrame PROVE CompletedFrame'
      BY <1>1, <2>1, <3>1 DEF CompletedFrame
    <3>2. ASSUME outbox[1].ev.type = "Residual" PROVE CompletedFrame'
      <4>1. Len(journal) + 1 \in DOMAIN journal'
        BY <2>1
      <4>. QED BY <1>1, <2>1, <3>2, <4>1 DEF CompletedFrame
    <3>3. ASSUME CompletedFrame', outbox[1].ev.type # "Residual" PROVE CompletedFrame
      <4>1. PICK i \in DOMAIN journal' : journal'[i].session = Session
                                          /\ journal'[i].ev.type = "Residual"
        BY <1>1, <3>3 DEF CompletedFrame
      <4>2. i \in 1..Len(journal)
        BY <2>1, <3>3, <4>1
      <4>. QED BY <2>1, <4>1, <4>2 DEF CompletedFrame
    <3>. QED BY <3>1, <3>2, <3>3
  <2>3. lastFrame' = IF outbox[1].ev.type = "Residual" THEN clock ELSE lastFrame
    BY DEF GapTaken, FrameDone
  <2>4. CompletedFrame <=> lastFrame # NoTime
    BY <1>4 DEF SessionTimes
  <2>. QED BY <1>2, <2>2, <2>3, <2>4
<1>6. LastRow.startedAt = createdAt /\ LastRow.endedAt = NoTime
  BY <1>1, <1>4 DEF SessionTimes
<1>7. LastRow' = sessions'[Session] /\ (Running(Session)' <=> LastRow'.status = "running")
  BY <1>1 DEF LastRow, Running
<1>8. LastRow.status = "running"
  BY <1>4 DEF LastRow, Running
<1>. QED BY <1>1, <1>2, <1>3, <1>4, <1>5, <1>6, <1>7, <1>8 DEF SessionTimes

LEMMA SessionTimesNext ==
  ASSUME Shape, ConnsTyped, Moment, SessionsTyped, GapsTyped, OneGap, SessionTimes,
         [Next]_vars
  PROVE  SessionTimes'
<1>0. /\ Session \in Nat /\ clock \in Nat /\ clock > 0 /\ NoTime = 0
      /\ (Session > 0 => LastRow \in SessionRow)
      /\ (LastRow' = sessions'[Session'])
      /\ (Running(Session)' <=> LastRow'.status = "running")
      /\ (Running(Session) <=> LastRow.status = "running")
  BY SessionCount DEF Moment, SessionsTyped, LastRow, NoTime, Running
<1>1. CASE WorldValues /\ UNCHANGED ghostVars
  <2>1. /\ UNCHANGED <<pc, createdAt, lastFrame, journal>> /\ Session' = Session
        /\ clock' \in Nat /\ clock <= clock'
        /\ Session > 0 => \/ LastRow' = LastRow
                          \/ LastRow' = [LastRow EXCEPT !.heartbeatAt = clock']
    BY <1>0, <1>1 DEF WorldValues, WorldStep, engineVars, frameVars, gapVars, ghostVars, Session,
                      LastRow
  <2>2. (Down' <=> Down) /\ (CompletedFrame' <=> CompletedFrame)
    BY <2>1, SameFrames DEF Down
  <2>3. ASSUME Session > 0
        PROVE  /\ LastRow'.lastEventAt = LastRow.lastEventAt
               /\ LastRow'.startedAt = LastRow.startedAt
               /\ LastRow'.endedAt = LastRow.endedAt /\ LastRow'.status = LastRow.status
               /\ LastRow'.heartbeatAt \in {LastRow.heartbeatAt, clock'}
    BY <1>0, <2>1, <2>3 DEF SessionRow
  <2>4. Session > 0 => LastRow.lastEventAt \in Nat /\ LastRow.heartbeatAt \in Nat
                         /\ LastRow.endedAt \in Nat
    BY <1>0 DEF SessionRow
  <2>. QED BY <1>0, <2>1, <2>2, <2>3, <2>4 DEF SessionTimes
<1>2. CASE GapSection \/ EmitFails
  <2>1. UNCHANGED <<sessions, journal, createdAt, lastFrame, clock>> /\ (Down' <=> Down)
    <3>1. CASE GapSection
      BY <3>1 DEF GapSection, storeVars, Down, SaysNothing, SaysLost, SaysRecovered,
                  SaysFinished, SaysUnobserved
    <3>2. CASE EmitFails
      BY <3>2, RefusedGaps DEF Down
    <3>. QED BY <1>2, <3>1, <3>2
  <2>2. Session' = Session
    BY <2>1 DEF Session
  <2>3. LastRow' = LastRow /\ (CompletedFrame' <=> CompletedFrame)
    BY <1>0, <2>1, <2>2, SameFrames DEF LastRow
  <2>. QED BY <1>0, <2>1, <2>2, <2>3 DEF SessionTimes
<1>3. CASE Killed
  <2>1. UNCHANGED <<sessions, journal, clock>> /\ Down'
    BY <1>3, LeftGaps DEF Killed, storeVars, Down
  <2>2. Session' = Session
    BY <2>1 DEF Session
  <2>3. LastRow' = LastRow /\ (CompletedFrame' <=> CompletedFrame)
    BY <1>0, <2>1, <2>2, SameFrames DEF LastRow
  <2>. QED BY <1>0, <2>1, <2>2, <2>3 DEF SessionTimes
<1>4. CASE EndRun
  <2>1. /\ UNCHANGED <<journal, clock>> /\ Down' /\ Session' = Session /\ Session \in 1..Session
        /\ LastRow' = [LastRow EXCEPT
                         !.status = IF fatal THEN "interrupted" ELSE "closed_clean",
                         !.endedAt = clock, !.heartbeatAt = clock]
    BY <1>0, <1>4, LeftGaps, EndedSession DEF EndRun, EndSession, Down, LastRow
  <2>2. CompletedFrame' <=> CompletedFrame
    BY <2>1, SameFrames
  <2>3. LastRow \in SessionRow
    BY <1>0, <2>1
  <2>4. /\ LastRow'.lastEventAt = LastRow.lastEventAt /\ LastRow'.status # "running"
        /\ LastRow'.endedAt = clock /\ LastRow'.heartbeatAt = clock
        /\ LastRow.lastEventAt \in Nat /\ LastRow.heartbeatAt \in Nat
    BY <2>1, <2>3 DEF SessionRow
  <2>. QED BY <1>0, <2>1, <2>2, <2>4 DEF SessionTimes
<1>5. CASE BeginRun
  <2>1. /\ Session' = Session + 1 /\ clock' = clock /\ createdAt' = clock
        /\ lastFrame' = NoTime /\ LastRow' = NewSession(clock)
    BY <1>0, <1>5, BegunSession, BegunGaps
  <2>2. journal' = journal
    BY <1>5 DEF BeginRun, BeginSession, FirstSession, NextSession
  <2>3. ~CompletedFrame'
    <3>1. DOMAIN journal = 1..Len(journal)
      BY SeqParts DEF Shape, JournalShape
    <3>2. \A i \in DOMAIN journal : journal[i].session # Session + 1
      BY <1>0, <3>1 DEF Shape, JournalShape
    <3>. QED BY <2>1, <2>2, <3>2 DEF CompletedFrame
  <2>4. /\ LastRow'.lastEventAt = NoTime /\ LastRow'.heartbeatAt = clock
        /\ LastRow'.startedAt = clock /\ LastRow'.endedAt = NoTime
        /\ LastRow'.status = "running"
    BY <2>1 DEF NewSession
  <2>. QED BY <1>0, <2>1, <2>3, <2>4 DEF SessionTimes
<1>6. CASE EmitSucceeds
  BY <1>6, TakesGap, TakenTimesOf
<1>. QED BY <1>1, <1>2, <1>3, <1>4, <1>5, <1>6, GapSteps

\* A moment that was watched lies before everything that is known to have come after
\* a frame: the session's last event and its end, the last snapshot, the beginning of
\* a gap that is open or about to be.  It is in no gap that is over.
WatchedTime(t) ==
  /\ t \in Nat /\ t < clock
  /\ Session > 0 => /\ LastRow.lastEventAt # NoTime => t < LastRow.lastEventAt
                    /\ LastRow.endedAt # NoTime => t < LastRow.endedAt
  /\ lastHealthyAt # NoTime => t < lastHealthyAt
  /\ ~Down /\ ~hasEverBeenHealthy => t < createdAt
  /\ \A k \in 1..Len(outbox) : Opens(k) => t < outbox[k].ev.from
  /\ \A g \in OpenGaps : t < g.from
  /\ \A g \in store.gaps : g.to # NoTime => t < g.from \/ g.to <= t
WatchedTimes == \A t \in watched : WatchedTime(t)

LEMMA SectionWatched ==
  ASSUME Shape, GapSection, NEW t, WatchedTime(t)
  PROVE  WatchedTime(t)'
<1>1. /\ UNCHANGED <<clock, store, sessions, createdAt>> /\ OpenGaps' = OpenGaps
      /\ Session' = Session /\ LastRow' = LastRow
  BY SameOpenGaps DEF GapSection, storeVars, Session, LastRow
<1>2. /\ lastHealthyAt' \in {lastHealthyAt, clock} /\ (Down' <=> Down)
      /\ ~hasEverBeenHealthy' => ~hasEverBeenHealthy
  BY DEF GapSection, SaysNothing, SaysLost, SaysRecovered, SaysFinished, SaysUnobserved, Down
<1>3. ASSUME NEW k \in 1..Len(outbox'), Opens(k)' PROVE t < outbox'[k].ev.from
  <2>1. SaysLost \/ SaysUnobserved
    BY <1>3 DEF GapSection, SaysNothing, SaysRecovered, SaysFinished, GapTypes, Opens
  <2>2. CASE SaysLost
    BY <1>3, <2>2 DEF SaysLost, GapFrom, WatchedTime
  <2>3. CASE SaysUnobserved
    <3>1. Len(outbox') = 2 /\ ~hasEverBeenHealthy /\ ~Down
      BY <1>3, <2>3 DEF SaysUnobserved, Down
    <3>2. k = 1 \/ k = 2
      BY <1>3, <3>1
    <3>. QED BY <1>3, <2>3, <3>1, <3>2 DEF SaysUnobserved, Opens, WatchedTime
  <2>. QED BY <2>1, <2>2, <2>3
<1>. QED BY <1>1, <1>2, <1>3 DEF WatchedTime

LEMMA BegunWatched ==
  ASSUME Shape, Moment, SessionsTyped, GapsTyped, BeginRun, NEW t, WatchedTime(t)
  PROVE  WatchedTime(t)'
<1>1. /\ Session' = Session + 1 /\ clock' = clock /\ createdAt' = clock
      /\ lastHealthyAt' = NoTime /\ LastRow' = NewSession(clock) /\ Len(outbox') = 0
      /\ OpenGaps' = {} /\ Session \in Nat
  BY BegunSession, BegunGaps, NewOpenGaps DEF LastRow
<1>2. LastRow'.lastEventAt = NoTime /\ LastRow'.endedAt = NoTime
  BY <1>1 DEF NewSession
<1>3. ASSUME NEW g \in store'.gaps, g.to # NoTime PROVE t < g.from \/ g.to <= t
  <2>1. CASE g \in store.gaps
    BY <1>3, <2>1 DEF WatchedTime
  <2>2. CASE g \notin store.gaps
    <3>1. Session # 0
      BY <1>3, <2>2, BegunGaps
    <3>2. PICK from : from = OfflineSince(sessions[Session], clock)
      OBVIOUS
    <3>3. g = BoundaryGap(Session, from, clock) /\ from # NoTime
      BY <1>3, <2>2, <3>1, <3>2, BegunGaps
    <3>4. sessions[Session] \in SessionRow /\ clock \in Nat
      BY <1>1, <3>1 DEF SessionsTyped, Moment
    <3>5. from \in {LastRow.lastEventAt, LastRow.endedAt, clock}
      BY <3>2, <3>3, <3>4, OfflineMoment DEF LastRow
    <3>6. g.from = from
      BY <3>3 DEF BoundaryGap
    <3>. QED BY <1>1, <3>1, <3>3, <3>5, <3>6 DEF WatchedTime
  <2>. QED BY <2>1, <2>2
<1>. QED BY <1>1, <1>2, <1>3 DEF WatchedTime

LEMMA TakenWatched ==
  ASSUME Shape, Moment, SessionsTyped, GapsTyped, OneGap, LossKnown, SessionTimes,
         EmitSucceeds, GapTaken, NEW t \in watched', WatchedTimes
  PROVE  WatchedTime(t)'
<1>1. /\ Session' = Session /\ Session \in 1..Session
      /\ LastRow' = [LastRow EXCEPT !.lastEventAt = clock, !.heartbeatAt = clock]
      /\ UNCHANGED <<clock, createdAt, hasEverBeenHealthy, lastHealthyAt, pc>>
      /\ (Down' <=> Down) /\ Len(outbox) > 0 /\ Len(outbox) \in Nat
  BY TakenSession DEF LastRow, GapTaken, Down
<1>2. /\ LastRow'.lastEventAt = clock /\ LastRow'.endedAt = LastRow.endedAt
      /\ clock \in Nat /\ clock > 0 /\ NoTime = 0
  BY <1>1 DEF SessionsTyped, SessionRow, LastRow, Moment, NoTime
<1>3. \A k \in 1..Len(outbox') : ~Opens(k)'
  BY DEF GapTaken, OneGap, Opens
<1>4. CASE t \in watched
  <2>1. WatchedTime(t)
    BY <1>4 DEF WatchedTimes
  <2>2. /\ \A g \in OpenGaps' : t < g.from
        /\ \A g \in store'.gaps : g.to # NoTime => t < g.from \/ g.to <= t
    <3>1. CASE outbox[1].ev.type = "GapOpened"
      <4>1. 1 \in 1..Len(outbox) /\ Opens(1)
        BY <1>1, <3>1 DEF Opens
      <4>2. t < SentGap.from /\ SentGap.to = NoTime
        BY <2>1, <4>1 DEF WatchedTime, SentGap
      <4>3. OpenGaps' = {SentGap} /\ store'.gaps = store.gaps \cup {SentGap}
        BY <1>1, <3>1, TakenOpenGaps DEF GapTaken
      <4>. QED BY <2>1, <4>2, <4>3 DEF WatchedTime
    <3>2. CASE outbox[1].ev.type = "GapClosed"
      <4>1. OpenGaps' = {}
        BY <1>1, <3>2, TakenOpenGaps
      <4>2. PICK h \in OpenGaps : store'.gaps = (store.gaps \ {h}) \cup {ClosedNow(h)}
        BY <3>2 DEF GapTaken
      <4>3. h \in GapRow
        BY DEF OpenGaps, OpenStreamGaps, GapsTyped
      <4>4. ClosedNow(h).from = h.from /\ t < h.from
        BY <1>2, <2>1, <4>3, ClosedNowRow DEF WatchedTime
      <4>. QED BY <2>1, <4>1, <4>2, <4>4 DEF WatchedTime
    <3>3. CASE outbox[1].ev.type \notin {"GapOpened", "GapClosed"}
      <4>1. OpenGaps' = OpenGaps /\ store'.gaps = store.gaps
        BY <1>1, <3>3, TakenOpenGaps DEF GapTaken
      <4>. QED BY <2>1, <4>1 DEF WatchedTime
    <3>. QED BY <3>1, <3>2, <3>3
  <2>. QED BY <1>1, <1>2, <1>3, <2>1, <2>2 DEF WatchedTime
<1>5. CASE t \notin watched
  <2>1. /\ outbox[1].ev.type = "Residual" /\ lastFrame # NoTime /\ ~lost
        /\ t \in Moments(lastFrame, clock)
    BY <1>5 DEF GapTaken, FrameDone
  <2>2. t \in Nat /\ lastFrame <= t /\ t < clock
    BY <1>2, <2>1 DEF Moments, GapsTyped
  <2>3. Finishing
    <3>1. 1 \in 1..Len(outbox)
      BY <1>1
    <3>. QED BY <2>1, <3>1 DEF Finishing
  <2>4. hasEverBeenHealthy /\ lastHealthyAt = clock /\ OpenGaps = {}
    BY <2>3 DEF OneGap
  <2>5. OpenGaps' = {} /\ store'.gaps = store.gaps
    BY <1>1, <2>1, <2>4, TakenOpenGaps DEF GapTaken
  <2>6. ASSUME NEW g \in store.gaps, g.to # NoTime PROVE g.to <= t
    <3>1. g.to <= lastFrame /\ g.to \in Nat /\ lastFrame \in Nat
      BY <1>2, <2>1, <2>6 DEF LossKnown, GapsTyped, GapRow
    <3>. QED BY <2>2, <3>1
  <2>7. LastRow.endedAt = NoTime
    <3>1. pc # "down"
      BY <2>3 DEF OneGap
    <3>. QED BY <1>1, <3>1 DEF SessionTimes, Shape, SessionsShape
  <2>. QED BY <1>1, <1>2, <1>3, <2>2, <2>4, <2>5, <2>6, <2>7 DEF WatchedTime
<1>. QED BY <1>4, <1>5

LEMMA WatchedTimesNext ==
  ASSUME Shape, ConnsTyped, Moment, SessionsTyped, GapsTyped, OneGap, LossKnown, SessionTimes,
         WatchedTimes, [Next]_vars
  PROVE  WatchedTimes'
<1>0. Session \in Nat /\ clock \in Nat /\ LastRow' = sessions'[Session']
  BY SessionCount DEF Moment, LastRow
<1>1. CASE WorldValues /\ UNCHANGED ghostVars
  <2>1. /\ UNCHANGED <<pc, outbox, createdAt, lastHealthyAt, hasEverBeenHealthy, watched, store>>
        /\ Session' = Session /\ OpenGaps' = OpenGaps
        /\ clock' \in Nat /\ clock <= clock'
        /\ Session > 0 => \/ LastRow' = LastRow
                          \/ LastRow' = [LastRow EXCEPT !.heartbeatAt = clock']
    BY <1>0, <1>1, SameOpenGaps
       DEF WorldValues, WorldStep, engineVars, frameVars, gapVars, seenVars, ghostVars, Session,
           LastRow
  <2>2. Session > 0 => /\ LastRow'.lastEventAt = LastRow.lastEventAt
                       /\ LastRow'.endedAt = LastRow.endedAt
    BY <1>0, <2>1 DEF SessionsTyped, SessionRow, LastRow
  <2>3. (Down' <=> Down) /\ \A k : Opens(k)' <=> Opens(k)
    BY <2>1 DEF Down, Opens
  <2>4. ASSUME NEW t, WatchedTime(t) PROVE WatchedTime(t)'
    <3>1. t \in Nat /\ t < clock'
      BY <1>0, <2>1, <2>4 DEF WatchedTime
    <3>. QED BY <2>1, <2>2, <2>3, <2>4, <3>1 DEF WatchedTime
  <2>. QED BY <2>1, <2>4 DEF WatchedTimes
<1>2. CASE GapSection
  <2>1. watched' = watched
    BY <1>2 DEF GapSection
  <2>. QED BY <1>2, <2>1, SectionWatched DEF WatchedTimes
<1>3. CASE BeginRun
  <2>1. watched' = watched
    BY <1>3, BegunGaps
  <2>. QED BY <1>3, <2>1, BegunWatched DEF WatchedTimes
<1>4. CASE EndRun \/ Killed
  <2>1. /\ UNCHANGED <<clock, watched>> /\ OpenGaps' = OpenGaps /\ store'.gaps = store.gaps
        /\ Len(outbox') = 0 /\ Down' /\ lastHealthyAt' = NoTime
        /\ Session' = Session /\ Session \in 1..Session
    BY <1>4, LeftGaps, SameOpenGaps DEF Down
  <2>2. /\ LastRow'.lastEventAt = LastRow.lastEventAt
        /\ LastRow'.endedAt \in {LastRow.endedAt, clock}
    <3>1. CASE Killed
      BY <1>0, <2>1, <3>1 DEF Killed, storeVars, LastRow
    <3>2. CASE EndRun
      <4>1. LastRow' = [LastRow EXCEPT
                         !.status = IF fatal THEN "interrupted" ELSE "closed_clean",
                         !.endedAt = clock, !.heartbeatAt = clock]
        BY <1>0, <2>1, <3>2, EndedSession DEF LastRow
      <4>. QED BY <2>1, <4>1 DEF SessionsTyped, SessionRow, LastRow
    <3>. QED BY <1>4, <3>1, <3>2
  <2>3. \A t : WatchedTime(t) => WatchedTime(t)'
    BY <2>1, <2>2 DEF WatchedTime
  <2>. QED BY <2>1, <2>3 DEF WatchedTimes
<1>5. CASE EmitFails
  <2>1. /\ UNCHANGED <<clock, watched, sessions, createdAt, lastHealthyAt, hasEverBeenHealthy>>
        /\ OpenGaps' = OpenGaps /\ store' = store /\ Len(outbox') = 0 /\ ~Down
        /\ Session' = Session
    BY <1>5, RefusedGaps, SameOpenGaps DEF Down
  <2>2. LastRow' = LastRow
    BY <1>0, <2>1 DEF LastRow
  <2>3. \A t : WatchedTime(t) => WatchedTime(t)'
    BY <2>1, <2>2 DEF WatchedTime
  <2>. QED BY <2>1, <2>3 DEF WatchedTimes
<1>6. CASE EmitSucceeds
  BY <1>6, TakesGap, TakenWatched DEF WatchedTimes
<1>. QED BY <1>1, <1>2, <1>3, <1>4, <1>5, <1>6, GapSteps

\* The inductive invariant of the gaps.
GapTimes == GapsTyped /\ OneGap /\ LossKnown /\ SessionTimes /\ WatchedTimes

LEMMA GapTimesBegin == Init => GapTimes
<1>. SUFFICES ASSUME Init PROVE GapTimes
  OBVIOUS
<1>1. /\ pc = "down" /\ outbox = << >> /\ sessions = << >> /\ store.gaps = {}
      /\ clock = 1 /\ lastFrame = NoTime /\ lastHealthyAt = NoTime /\ createdAt = NoTime
      /\ watched = {} /\ isBootstrapFrame
  BY DEF Init, EngineInit, StoreInit, EmptyStore
<1>2. Len(outbox) = 0 /\ Session = 0 /\ OpenGaps = {} /\ Down
  BY <1>1, ShortSeqs DEF Session, OpenGaps, OpenStreamGaps, Down
<1>3. ~Opening /\ ~Finishing /\ ~InFrame
  BY <1>1, <1>2 DEF Opening, Finishing, InFrame
<1>4. GapsTyped
  BY <1>1, <1>2 DEF GapsTyped, NoTime
<1>5. OneGap
  BY <1>1, <1>2, <1>3 DEF OneGap
<1>6. LossKnown /\ SessionTimes /\ WatchedTimes
  BY <1>1, <1>2, <1>3 DEF LossKnown, SessionTimes, WatchedTimes
<1>. QED BY <1>4, <1>5, <1>6 DEF GapTimes

\* The gaps, the sessions' rows and what an observer has seen of the stream keep
\* step, whatever is lost, killed or refused.
THEOREM GapsInStep == Spec => []GapTimes
<1>1. Init => GapTimes
  BY GapTimesBegin
<1>2. IInv /\ ValueInv /\ GapTimes /\ [Next]_vars => GapTimes'
  <2>. SUFFICES ASSUME IInv, ValueInv, GapTimes, [Next]_vars PROVE GapTimes'
    OBVIOUS
  <2>1. Shape /\ BootstrapState /\ ConnsTyped /\ Moment /\ SessionsTyped
    BY DEF IInv, LifeInv, ValueInv
  <2>2. GapsTyped' /\ OneGap' /\ LossKnown' /\ SessionTimes' /\ WatchedTimes'
    BY <2>1, GapsTypedNext, OneGapNext, LossKnownNext, SessionTimesNext, WatchedTimesNext
       DEF GapTimes
  <2>. QED BY <2>2 DEF GapTimes
<1>. QED BY <1>1, <1>2, StreamInOrder, RowsInStep, PTL DEF Spec

\* GapsHoldNoWatchedTime: no closed gap, and no open one of the running session, holds
\* a moment at which the controller was watched (engine.go 224-269, 317-354,
\* sqlite_sink.go 64-188).
THEOREM GapsAreTruthful == Spec => []GapsHoldNoWatchedTime
<1>1. ValueInv /\ GapTimes => GapsHoldNoWatchedTime
  <2>. SUFFICES ASSUME ValueInv, GapTimes,
                       NEW g \in store.gaps, g.to # NoTime \/ g.session = Session,
                       NEW t \in watched, t \in Within(g, clock)
                PROVE  FALSE
    BY DEF GapsHoldNoWatchedTime
  <2>1. g \in GapRow /\ clock \in Nat /\ (g.to = NoTime => g.source = "controller_stream")
    BY DEF GapTimes, GapsTyped, ValueInv, Moment
  <2>2. t \in Nat /\ WatchedTime(t)
    BY DEF GapTimes, WatchedTimes, WatchedTime
  <2>3. g.from \in Nat /\ g.to \in Nat
    BY <2>1 DEF GapRow
  <2>4. CASE g.to # NoTime
    BY <2>2, <2>3, <2>4 DEF WatchedTime, Within
  <2>5. CASE g.to = NoTime
    <3>1. g \in OpenGaps
      BY <2>1, <2>5 DEF OpenGaps, OpenStreamGaps
    <3>2. t < g.from /\ g.from <= t
      BY <2>1, <2>2, <2>3, <2>5, <3>1 DEF WatchedTime, Within
    <3>. QED BY <2>2, <2>3, <3>2
  <2>. QED BY <2>4, <2>5
<1>. QED BY <1>1, GapsInStep, RowsInStep, PTL

-----------------------------------------------------------------------------
(* Moments at which nobody watched the controller, and what is known of them. *)

\* A moment is on record: it was watched or needs no gap, or a gap holds it.
OnRecord(t) == \/ t \in watched \cup excused \cup blind
               \/ \E g \in store.gaps : t \in Within(g, clock)
Known(from, to) == \A t \in Moments(from, to) : OnRecord(t)

\* What is on record stays there.
LEMMA RecordGrows ==
  ASSUME Shape, ConnsTyped, Moment, SessionsTyped, GapsTyped, OneGap, [Next]_vars,
         NEW t, OnRecord(t)
  PROVE  OnRecord(t)'
<1>0. clock \in Nat /\ clock > 0 /\ NoTime = 0 /\ \A g \in store.gaps : g \in GapRow
  BY DEF Moment, NoTime, GapsTyped
<1>1. CASE WorldValues /\ UNCHANGED ghostVars
  <2>1. UNCHANGED <<watched, excused, blind, store>> /\ clock' \in Nat /\ clock <= clock'
    BY <1>0, <1>1 DEF WorldValues, WorldStep, ghostVars
  <2>2. \A g \in store.gaps : Within(g, clock) \subseteq Within(g, clock')
    BY <1>0, <2>1 DEF Within, GapRow
  <2>. QED BY <2>1, <2>2 DEF OnRecord
<1>2. CASE GapSection
  BY <1>2 DEF GapSection, storeVars, OnRecord
<1>3. CASE BeginRun \/ EndRun \/ Killed \/ EmitFails
  <2>1. /\ clock' = clock /\ watched' = watched /\ excused \subseteq excused'
        /\ blind \subseteq blind' /\ store.gaps \subseteq store'.gaps
    <3>1. CASE BeginRun
      BY <3>1, BegunGaps
    <3>2. CASE EndRun \/ Killed
      BY <3>2, LeftGaps
    <3>3. CASE EmitFails
      BY <3>3, RefusedGaps
    <3>. QED BY <1>3, <3>1, <3>2, <3>3
  <2>. QED BY <2>1 DEF OnRecord
<1>4. CASE EmitSucceeds
  <2>0. GapTaken
    BY <1>4, TakesGap
  <2>1. /\ clock' = clock /\ watched \subseteq watched' /\ excused \subseteq excused'
        /\ blind' = blind
    BY <2>0 DEF GapTaken, FrameDone
  <2>2. CASE store.gaps \subseteq store'.gaps
    BY <2>1, <2>2 DEF OnRecord
  <2>3. ASSUME NEW g \in OpenGaps, store'.gaps = (store.gaps \ {g}) \cup {ClosedNow(g)}
        PROVE  OnRecord(t)'
    <3>1. g \in GapRow /\ g.to = NoTime
      BY <1>0 DEF OpenGaps, OpenStreamGaps
    <3>2. Within(ClosedNow(g), clock) = Within(g, clock)
      BY <1>0, <3>1, ClosedNowRow DEF Within
    <3>. QED BY <2>1, <2>3, <3>2 DEF OnRecord
  <2>. QED BY <2>0, <2>2, <2>3 DEF GapTaken
<1>. QED BY <1>1, <1>2, <1>3, <1>4, GapSteps

\* An open gap holds every moment since it began.
LEMMA OpenIsKnown ==
  ASSUME GapsTyped, Moment, NEW g \in OpenGaps, NEW from \in Nat, g.from <= from
  PROVE  Known(from, clock)
<1>1. g \in store.gaps /\ g.to = NoTime /\ g.from \in Nat /\ clock \in Nat
  BY DEF OpenGaps, OpenStreamGaps, GapsTyped, GapRow, Moment
<1>2. \A t \in Moments(from, clock) : t \in Within(g, clock)
  BY <1>1 DEF Moments, Within
<1>. QED BY <1>1, <1>2 DEF Known, OnRecord

\* Since the last frame: a gap begins there, and once the next frame has begun a loss
\* is on record.
SinceFrame ==
  lastFrame # NoTime =>
    /\ \A g \in OpenGaps : g.from <= lastFrame
    /\ \A k \in 1..Len(outbox) : Opens(k) => outbox[k].ev.from <= lastFrame
    /\ pc = "idle" /\ ~Finishing => lastHealthyAt = lastFrame /\ (lost => gapIsOpen)
    /\ (InFrame \/ Finishing) /\ lost => Known(lastFrame, clock)

LEMMA SinceFrameSection ==
  ASSUME Shape, Moment, GapInv, GapsTyped, OneGap, LossKnown, SinceFrame, GapSection,
         \A t : OnRecord(t) => OnRecord(t)'
  PROVE  SinceFrame'
<1>. SUFFICES ASSUME lastFrame' # NoTime PROVE SinceFrame'
  BY DEF SinceFrame
<1>1. /\ UNCHANGED <<lastFrame, clock, store>> /\ OpenGaps' = OpenGaps /\ lastFrame # NoTime
      /\ Len(outbox) = 0 /\ lastFrame \in Nat
  BY SameOpenGaps, ShortSeqs DEF GapSection, storeVars, Session, Settled, GapsTyped, Moment
<1>2. ~Finishing /\ ~Opening
  BY <1>1 DEF Finishing, Opening
<1>3. /\ \A g \in OpenGaps' : g.from <= lastFrame'
      /\ pc = "idle" => lastHealthyAt = lastFrame /\ (lost => gapIsOpen)
      /\ InFrame /\ lost => Known(lastFrame, clock)
      /\ ~Down => hasEverBeenHealthy
  BY <1>1, <1>2 DEF SinceFrame, LossKnown
<1>4. Known(lastFrame, clock) => Known(lastFrame, clock)'
  BY <1>1 DEF Known
<1>5. CASE SaysNothing
  <2>1. /\ \A k \in 1..Len(outbox') : ~Opens(k)'
        /\ ~Finishing'
    BY <1>5 DEF SaysNothing, GapTypes, Opens, Finishing
  <2>2. pc' = "idle" => lastHealthyAt' = lastFrame /\ (lost' => gapIsOpen')
    BY <1>3, <1>5 DEF SaysNothing, Down
  <2>3. InFrame' /\ lost' => Known(lastFrame, clock)
    BY <1>3, <1>5 DEF SaysNothing, InFrame
  <2>. QED BY <1>1, <1>3, <1>4, <2>1, <2>2, <2>3 DEF SinceFrame
<1>6. CASE SaysLost
  <2>1. pc = "idle" /\ pc' = "idle" /\ gapIsOpen' /\ lastHealthyAt' = lastHealthyAt
        /\ Len(outbox') = 1 /\ outbox'[1].ev.from = GapFrom(clock)
        /\ outbox'[1].ev.type = "GapOpened"
    BY <1>6 DEF SaysLost
  <2>2. outbox'[1].ev.from = lastFrame
    BY <1>1, <1>3, <2>1 DEF GapFrom
  <2>3. \A k \in 1..Len(outbox') : outbox'[k].ev.from <= lastFrame'
    BY <1>1, <2>1, <2>2
  <2>4. ~Finishing' /\ ~InFrame'
    BY <2>1 DEF Finishing, InFrame
  <2>. QED BY <1>1, <1>3, <2>1, <2>3, <2>4 DEF SinceFrame
<1>7. CASE SaysRecovered
  <2>1. /\ \A k \in 1..Len(outbox') : ~Opens(k)'
        /\ ~Finishing' /\ pc' # "idle"
    BY <1>7 DEF SaysRecovered, Opens, Finishing
  <2>2. Known(lastFrame, clock)
    <3>1. OpenGaps # {}
      BY <1>1, <1>7 DEF SaysRecovered, GapInv, StreamGapOpen, OpenGaps
    <3>2. PICK g \in OpenGaps : TRUE
      BY <3>1
    <3>. QED BY <1>1, <1>3, <3>2, OpenIsKnown
  <2>. QED BY <1>1, <1>3, <1>4, <2>1, <2>2 DEF SinceFrame
<1>8. CASE SaysFinished
  <2>1. InFrame /\ lost' = lost /\ Len(outbox') = 1 /\ outbox'[1].ev.type = "Residual"
    BY <1>8 DEF SaysFinished, InFrame
  <2>2. 1 \in 1..Len(outbox') /\ \A k \in 1..Len(outbox') : ~Opens(k)'
    BY <2>1 DEF Opens
  <2>3. Finishing'
    BY <2>1, <2>2 DEF Finishing
  <2>. QED BY <1>1, <1>3, <1>4, <2>1, <2>2, <2>3 DEF SinceFrame
<1>9. CASE SaysUnobserved
  <2>1. Len(outbox') = 0 /\ pc' # "idle" /\ lost' = lost /\ (InFrame' => InFrame)
    BY <1>3, <1>9 DEF SaysUnobserved, Down, InFrame
  <2>2. ~Finishing'
    BY <2>1 DEF Finishing
  <2>. QED BY <1>1, <1>3, <1>4, <2>1, <2>2 DEF SinceFrame
<1>. QED BY <1>5, <1>6, <1>7, <1>8, <1>9 DEF GapSection

LEMMA SinceFrameTaken ==
  ASSUME Shape, Moment, GapsTyped, OneGap, SinceFrame, GapTaken, Session \in Nat,
         OneGap', \A t : OnRecord(t) => OnRecord(t)'
  PROVE  SinceFrame'
<1>1. /\ UNCHANGED <<clock, pc, lastHealthyAt, gapIsOpen>> /\ (InFrame' <=> InFrame)
      /\ Len(outbox) \in Nat /\ Len(outbox) > 0 /\ Len(outbox') = Len(outbox) - 1
      /\ 1 \in 1..Len(outbox)
  BY DEF GapTaken, InFrame
<1>2. \A k \in 1..Len(outbox') : ~Opens(k)'
  BY DEF GapTaken, OneGap, Opens
<1>3. ~Finishing'
  <2>1. ASSUME Finishing' PROVE FALSE
    <3>1. Finishing
      BY <2>1 DEF GapTaken, Finishing
    <3>2. Len(outbox) = 1
      BY <3>1 DEF OneGap
    <3>3. Len(outbox') = 0
      BY <1>1, <3>2
    <3>. QED BY <2>1, <3>3 DEF Finishing
  <2>. QED BY <2>1
<1>4. CASE outbox[1].ev.type = "Residual"
  <2>1. lastFrame' = clock /\ ~lost' /\ Finishing
    BY <1>1, <1>4 DEF GapTaken, FrameDone, Finishing
  <2>2. lastHealthyAt = clock /\ OpenGaps = {}
    BY <2>1 DEF OneGap
  <2>3. OpenGaps' = {}
    BY <1>1, <1>4, <2>2, TakenOpenGaps
  <2>. QED BY <1>1, <1>2, <1>3, <2>1, <2>2, <2>3 DEF SinceFrame
<1>5. CASE outbox[1].ev.type # "Residual"
  <2>1. UNCHANGED <<lastFrame, lost>>
    BY <1>5 DEF GapTaken
  <2>2. ~Finishing
    <3>1. ASSUME Finishing PROVE FALSE
      <4>1. PICK k \in 1..Len(outbox) : outbox[k].ev.type = "Residual"
        BY <3>1 DEF Finishing
      <4>2. Len(outbox) = 1
        BY <3>1 DEF OneGap
      <4>3. k = 1
        BY <4>2
      <4>. QED BY <1>5, <4>1, <4>3
    <3>. QED BY <3>1
  <2>3. ASSUME lastFrame # NoTime PROVE \A g \in OpenGaps' : g.from <= lastFrame
    <3>1. CASE outbox[1].ev.type = "GapOpened"
      <4>1. OpenGaps' = {SentGap} /\ SentGap.from = outbox[1].ev.from
        BY <1>1, <3>1, TakenOpenGaps DEF SentGap
      <4>2. outbox[1].ev.from <= lastFrame
        BY <1>1, <2>3, <3>1 DEF SinceFrame, Opens
      <4>. QED BY <4>1, <4>2
    <3>2. CASE outbox[1].ev.type # "GapOpened"
      <4>1. OpenGaps' \subseteq OpenGaps
        BY <1>1, <3>2, TakenOpenGaps
      <4>. QED BY <2>3, <4>1 DEF SinceFrame
    <3>. QED BY <3>1, <3>2
  <2>4. Known(lastFrame, clock) => Known(lastFrame, clock)'
    BY <1>1, <2>1 DEF Known
  <2>. QED BY <1>1, <1>2, <1>3, <2>1, <2>2, <2>3, <2>4 DEF SinceFrame
<1>. QED BY <1>4, <1>5

LEMMA SinceFrameNext ==
  ASSUME Shape, BootstrapState, ConnsTyped, Moment, SessionsTyped, GapInv, GapsTyped, OneGap,
         LossKnown, SinceFrame, [Next]_vars
  PROVE  SinceFrame'
<1>0. Session \in Nat /\ \A t : OnRecord(t) => OnRecord(t)'
  BY SessionCount, RecordGrows
<1>1. CASE WorldValues /\ UNCHANGED ghostVars
  <2>1. /\ UNCHANGED <<pc, outbox, lastHealthyAt, gapIsOpen, lastFrame, lost, store>>
        /\ OpenGaps' = OpenGaps
        /\ clock' = clock \/ (Settled /\ pc \in {"down", "idle"})
    BY <1>1, SameOpenGaps DEF WorldValues, WorldStep, engineVars, frameVars, gapVars, seenVars,
                              ghostVars, Session
  <2>2. (InFrame' <=> InFrame) /\ (Finishing' <=> Finishing) /\ \A k : Opens(k)' <=> Opens(k)
    BY <2>1 DEF InFrame, Finishing, Opens
  <2>3. ASSUME InFrame \/ Finishing PROVE clock' = clock
    <3>1. Settled => Len(outbox) = 0
      BY ShortSeqs DEF Settled
    <3>. QED BY <2>1, <2>3, <3>1 DEF InFrame, Finishing
  <2>4. clock' = clock /\ Known(lastFrame, clock) => Known(lastFrame, clock)'
    BY <1>0, <2>1 DEF Known
  <2>. QED BY <2>1, <2>2, <2>3, <2>4 DEF SinceFrame
<1>2. CASE GapSection
  BY <1>0, <1>2, SinceFrameSection
<1>3. CASE BeginRun
  BY <1>3, BegunGaps DEF SinceFrame
<1>4. CASE EndRun \/ Killed \/ EmitFails
  <2>1. /\ lastFrame' = lastFrame /\ OpenGaps' = OpenGaps /\ Len(outbox') = 0
        /\ pc' \in {"down", "stopped", "failed"}
    BY <1>4, LeftGaps, RefusedGaps, SameOpenGaps
  <2>2. ~Finishing' /\ ~InFrame'
    BY <2>1 DEF Finishing, InFrame
  <2>. QED BY <2>1, <2>2 DEF SinceFrame
<1>5. CASE EmitSucceeds
  BY <1>0, <1>5, TakesGap, OneGapNext, SinceFrameTaken
<1>. QED BY <1>1, <1>2, <1>3, <1>4, <1>5, GapSteps

\* Before the first frame: the session's first moments are on record, or too few to be,
\* as soon as the engine has passed the point that reports them.
BeforeFrame ==
  lastFrame = NoTime /\ ~Down =>
    /\ (pc = "idle" /\ ~Finishing) \/ pc \in {"bootstrap", "recovery", "steady"} =>
         ~hasEverBeenHealthy /\ ~unobservedGapEmitted
    /\ pc = "bootstrapped" => ~hasEverBeenHealthy
    /\ pc \in {"bootstrapped", "stopped"} /\ ~hasEverBeenHealthy
         /\ clock - createdAt >= MinGap => unobservedGapEmitted
    /\ ~hasEverBeenHealthy /\ unobservedGapEmitted =>
         \/ Known(createdAt, clock)
         \/ Opening /\ outbox[1].ev.from = createdAt
    /\ hasEverBeenHealthy =>
         /\ OpenGaps = {} /\ ~Opening
         /\ lastHealthyAt - createdAt >= MinGap => Known(createdAt, lastHealthyAt)

LEMMA BeforeFrameSection ==
  ASSUME Shape, BootstrapState, Moment, OneGap, BeforeFrame, GapSection, OneGap',
         \A t : OnRecord(t) => OnRecord(t)'
  PROVE  BeforeFrame'
<1>. SUFFICES ASSUME lastFrame' = NoTime, ~Down' PROVE BeforeFrame'
  BY DEF BeforeFrame
<1>1. /\ UNCHANGED <<lastFrame, clock, createdAt, store>> /\ OpenGaps' = OpenGaps
      /\ lastFrame = NoTime /\ Len(outbox) = 0
  BY SameOpenGaps, ShortSeqs DEF GapSection, storeVars, Session, Settled
<1>2. ~Finishing /\ ~Opening /\ ~Down
  <2>1. ~Finishing /\ ~Opening
    BY <1>1 DEF Finishing, Opening
  <2>2. ~Down
    BY DEF GapSection, SaysNothing, SaysLost, SaysRecovered, SaysFinished, SaysUnobserved, Down
  <2>. QED BY <2>1, <2>2
<1>3. /\ pc \in {"idle", "bootstrap", "recovery", "steady"}
           => ~hasEverBeenHealthy /\ ~unobservedGapEmitted
      /\ pc = "bootstrapped" => ~hasEverBeenHealthy
      /\ pc \in {"bootstrapped", "stopped"} /\ ~hasEverBeenHealthy
           /\ clock - createdAt >= MinGap => unobservedGapEmitted
      /\ ~hasEverBeenHealthy /\ unobservedGapEmitted => Known(createdAt, clock)
      /\ hasEverBeenHealthy =>
           /\ OpenGaps = {}
           /\ lastHealthyAt - createdAt >= MinGap => Known(createdAt, lastHealthyAt)
  BY <1>1, <1>2 DEF BeforeFrame
<1>4. /\ Known(createdAt, clock) => Known(createdAt, clock)'
      /\ lastHealthyAt' = lastHealthyAt =>
           (Known(createdAt, lastHealthyAt) => Known(createdAt, lastHealthyAt)')
  BY <1>1 DEF Known
<1>5. CASE SaysNothing
  <2>1. ~Finishing' /\ ~Opening'
    BY <1>5 DEF SaysNothing, GapTypes, Opening, Opens, Finishing
  <2>2. /\ UNCHANGED <<hasEverBeenHealthy, lastHealthyAt, unobservedGapEmitted>>
        /\ pc' = pc \/ (pc = "idle" /\ pc' \in {"bootstrap", "steady"})
    BY <1>5 DEF SaysNothing
  <2>. QED BY <1>1, <1>3, <1>4, <2>1, <2>2 DEF BeforeFrame
<1>6. CASE SaysLost \/ SaysRecovered
  BY <1>3, <1>6 DEF SaysLost, SaysRecovered, BootstrapState
<1>7. CASE SaysFinished
  <2>1. pc = "bootstrapped"
    BY <1>3, <1>7 DEF SaysFinished, BootstrapState, OneGap
  <2>2. /\ pc' = "idle" /\ hasEverBeenHealthy' /\ lastHealthyAt' = clock
        /\ Len(outbox') = 1 /\ outbox'[1].ev.type = "Residual"
    BY <1>7, <2>1 DEF SaysFinished
  <2>3. 1 \in 1..Len(outbox') /\ \A k \in 1..Len(outbox') : ~Opens(k)'
    BY <2>2 DEF Opens
  <2>4. Finishing' /\ ~Opening'
    BY <2>2, <2>3 DEF Finishing, Opening
  <2>5. OpenGaps' = {}
    BY <2>4 DEF OneGap
  <2>6. clock - createdAt >= MinGap => Known(createdAt, lastHealthyAt)'
    BY <1>1, <1>3, <2>1, <2>2 DEF Known
  <2>. QED BY <1>1, <2>2, <2>4, <2>5, <2>6 DEF BeforeFrame
<1>8. CASE SaysUnobserved
  <2>1. hasEverBeenHealthy' = hasEverBeenHealthy
    BY <1>8 DEF SaysUnobserved
  <2>2. \/ pc' = "bootstrapped" /\ ~hasEverBeenHealthy
        \/ pc' = "stopped" /\ lastHealthyAt' = lastHealthyAt
    BY <1>3, <1>8 DEF SaysUnobserved
  <2>3. CASE Len(outbox') = 2
    <3>1. /\ ~hasEverBeenHealthy /\ unobservedGapEmitted' /\ 1 \in 1..Len(outbox')
          /\ outbox'[1].ev.type = "GapOpened" /\ outbox'[1].ev.from = createdAt
      BY <1>8, <2>3 DEF SaysUnobserved
    <3>2. Opening'
      BY <3>1 DEF Opening, Opens
    <3>. QED BY <1>1, <2>1, <2>2, <3>1, <3>2 DEF BeforeFrame
  <2>4. CASE Len(outbox') # 2
    <3>1. /\ unobservedGapEmitted' = unobservedGapEmitted /\ Len(outbox') = 0
          /\ hasEverBeenHealthy \/ unobservedGapEmitted \/ ~(clock - createdAt >= MinGap)
      BY <1>8, <2>4 DEF SaysUnobserved
    <3>2. ~Opening'
      BY <3>1 DEF Opening
    <3>. QED BY <1>1, <1>3, <1>4, <2>1, <2>2, <3>1, <3>2 DEF BeforeFrame
  <2>. QED BY <2>3, <2>4
<1>. QED BY <1>5, <1>6, <1>7, <1>8 DEF GapSection

LEMMA BeforeFrameTaken ==
  ASSUME Shape, Moment, GapsTyped, OneGap, BeforeFrame, GapTaken, Session \in Nat,
         \A t : OnRecord(t) => OnRecord(t)'
  PROVE  BeforeFrame'
<1>. SUFFICES ASSUME lastFrame' = NoTime, ~Down' PROVE BeforeFrame'
  BY DEF BeforeFrame
<1>1. /\ UNCHANGED <<clock, pc, lastHealthyAt, createdAt, hasEverBeenHealthy,
                     unobservedGapEmitted>>
      /\ Len(outbox) \in Nat /\ Len(outbox) > 0 /\ 1 \in 1..Len(outbox) /\ ~Down
      /\ clock \in Nat /\ clock > 0 /\ NoTime = 0
  BY DEF GapTaken, Down, Moment, NoTime
<1>2. outbox[1].ev.type # "Residual" /\ lastFrame = NoTime
  BY <1>1 DEF GapTaken, FrameDone
<1>3. ~Opening'
  <2>1. \A k \in 1..Len(outbox') : ~Opens(k)'
    BY DEF GapTaken, OneGap, Opens
  <2>. QED BY <2>1 DEF Opening
<1>4. ~Finishing
  <2>1. ASSUME Finishing PROVE FALSE
    <3>1. PICK k \in 1..Len(outbox) : outbox[k].ev.type = "Residual"
      BY <2>1 DEF Finishing
    <3>2. Len(outbox) = 1
      BY <2>1 DEF OneGap
    <3>3. k = 1
      BY <3>2
    <3>. QED BY <1>2, <3>1, <3>3
  <2>. QED BY <2>1
<1>5. /\ Known(createdAt, clock) => Known(createdAt, clock)'
      /\ Known(createdAt, lastHealthyAt) => Known(createdAt, lastHealthyAt)'
  BY <1>1 DEF Known
<1>6. ASSUME Opening, outbox[1].ev.from = createdAt PROVE Known(createdAt, clock)'
  <2>1. outbox[1].ev.type = "GapOpened"
    BY <1>1, <1>6 DEF Opening, OneGap, Opens
  <2>2. SentGap \in store'.gaps /\ SentGap.from = createdAt /\ SentGap.to = NoTime
    BY <1>6, <2>1 DEF GapTaken, SentGap
  <2>3. \A t \in Moments(createdAt, clock) : t \in Within(SentGap, clock)
    BY <2>2 DEF Moments, Within
  <2>. QED BY <1>1, <2>2, <2>3 DEF Known, OnRecord
<1>7. ASSUME hasEverBeenHealthy PROVE OpenGaps' = {}
  <2>1. OpenGaps = {} /\ ~Opening
    BY <1>1, <1>2, <1>7 DEF BeforeFrame
  <2>2. outbox[1].ev.type \notin {"GapOpened", "GapClosed"}
    BY <1>1, <2>1 DEF Opening, Opens, GapTaken
  <2>. QED BY <1>1, <2>1, <2>2, TakenOpenGaps
<1>. QED BY <1>1, <1>2, <1>3, <1>4, <1>5, <1>6, <1>7 DEF BeforeFrame

LEMMA BeforeFrameRefused ==
  ASSUME Shape, Moment, GapsTyped, OneGap, BeforeFrame, EmitFails,
         \A t : OnRecord(t) => OnRecord(t)'
  PROVE  BeforeFrame'
<1>. SUFFICES ASSUME lastFrame' = NoTime PROVE BeforeFrame'
  BY DEF BeforeFrame
<1>1. /\ UNCHANGED <<clock, lastFrame, lastHealthyAt, createdAt, hasEverBeenHealthy,
                     unobservedGapEmitted>>
      /\ OpenGaps' = OpenGaps /\ Len(outbox') = 0 /\ Len(outbox) > 0 /\ ~Down
      /\ pc' = "failed" \/ (pc = "stopped" /\ pc' = "stopped")
      /\ blind' = IF ~hasEverBeenHealthy /\ outbox[1].ev.type = "GapOpened"
                    THEN blind \cup Moments(createdAt, clock) ELSE blind
  BY RefusedGaps, SameOpenGaps DEF Down
<1>2. ~Opening'
  BY <1>1 DEF Opening
<1>3. /\ Known(createdAt, clock) => Known(createdAt, clock)'
      /\ Known(createdAt, lastHealthyAt) => Known(createdAt, lastHealthyAt)'
  BY <1>1 DEF Known
<1>4. ASSUME ~hasEverBeenHealthy, Opening PROVE Known(createdAt, clock)'
  <2>1. outbox[1].ev.type = "GapOpened"
    BY <1>4 DEF Opening, OneGap, Opens
  <2>. QED BY <1>1, <1>4, <2>1 DEF Known, OnRecord
<1>. QED BY <1>1, <1>2, <1>3, <1>4 DEF BeforeFrame

LEMMA BeforeFrameNext ==
  ASSUME Shape, BootstrapState, ConnsTyped, Moment, SessionsTyped, GapsTyped, OneGap,
         BeforeFrame, [Next]_vars
  PROVE  BeforeFrame'
<1>0. Session \in Nat /\ \A t : OnRecord(t) => OnRecord(t)'
  BY SessionCount, RecordGrows
<1>1. CASE WorldValues /\ UNCHANGED ghostVars
  <2>1. /\ UNCHANGED <<pc, outbox, lastHealthyAt, createdAt, hasEverBeenHealthy,
                       unobservedGapEmitted, lastFrame, store>>
        /\ OpenGaps' = OpenGaps
        /\ clock' = clock \/ (Settled /\ pc \in {"down", "idle"})
    BY <1>1, SameOpenGaps DEF WorldValues, WorldStep, engineVars, frameVars, gapVars, seenVars,
                              ghostVars, Session
  <2>2. (Down' <=> Down) /\ (Finishing' <=> Finishing) /\ (Opening' <=> Opening)
    BY <2>1 DEF Down, Finishing, Opening, Opens
  <2>3. clock' # clock => Down \/ (pc = "idle" /\ ~Finishing)
    <3>1. Settled => Len(outbox) = 0
      BY ShortSeqs DEF Settled
    <3>. QED BY <2>1, <3>1 DEF Down, Finishing
  <2>4. /\ clock' = clock /\ Known(createdAt, clock) => Known(createdAt, clock)'
        /\ Known(createdAt, lastHealthyAt) => Known(createdAt, lastHealthyAt)'
    BY <1>0, <2>1 DEF Known
  <2>5. CASE clock' = clock
    BY <2>1, <2>2, <2>4, <2>5 DEF BeforeFrame
  <2>6. CASE clock' # clock
    BY <2>1, <2>2, <2>3, <2>4, <2>6 DEF BeforeFrame
  <2>. QED BY <2>5, <2>6
<1>2. CASE GapSection
  BY <1>0, <1>2, OneGapNext, BeforeFrameSection
<1>3. CASE BeginRun
  BY <1>3, BegunGaps DEF BeforeFrame
<1>4. CASE EndRun \/ Killed
  BY <1>4, LeftGaps DEF BeforeFrame, Down
<1>5. CASE EmitFails
  BY <1>0, <1>5, BeforeFrameRefused
<1>6. CASE EmitSucceeds
  BY <1>0, <1>6, TakesGap, BeforeFrameTaken
<1>. QED BY <1>1, <1>2, <1>3, <1>4, <1>5, <1>6, GapSteps

First == sessions[1].startedAt
Since == IF lastFrame = NoTime THEN createdAt ELSE lastFrame
Left == IF Running(Session) THEN IF CompletedFrame THEN LastRow.heartbeatAt ELSE LastRow.startedAt
        ELSE LastRow.endedAt

\* Every moment since the first session began is on record, up to the last frame of
\* the running session, or to what a session that is over says of its end.
UpToNow == ~Down => Known(First, Since)
UpToDeath == Down /\ Session > 0 => Known(First, Left)

\* The first session's beginning is never written again.
LEMMA FirstStays ==
  ASSUME Shape, ConnsTyped, Moment, SessionsTyped, GapsTyped, OneGap, [Next]_vars,
         Session \in 1..Session
  PROVE  Session' \in 1..Session' /\ First' = First
<1>0. Session \in Nat /\ sessions[1] \in SessionRow /\ (Session > 1 => 1 \in 1..(Session - 1))
      /\ (Session = 1 => LastRow = sessions[1] /\ LastRow \in SessionRow)
  BY SessionCount DEF SessionsTyped, LastRow
<1>1. CASE WorldValues
  <2>1. /\ Session' = Session
        /\ \/ sessions'[1] = sessions[1]
           \/ sessions'[1] = [sessions[1] EXCEPT !.heartbeatAt = clock']
    BY <1>0, <1>1 DEF WorldValues, WorldStep, Session
  <2>. QED BY <1>0, <2>1 DEF First, SessionRow
<1>2. CASE GapSection \/ Killed \/ EmitFails
  BY <1>0, <1>2 DEF GapSection, Killed, EmitFails, storeVars, First, Session
<1>3. CASE EmitSucceeds
  <2>1. /\ Session' = Session
        /\ sessions'[Session] = [LastRow EXCEPT !.lastEventAt = clock, !.heartbeatAt = clock]
        /\ \A s \in 1..(Session - 1) : sessions'[s] = sessions[s]
    BY <1>3, TakenSession DEF LastRow
  <2>2. sessions'[1].startedAt = sessions[1].startedAt
    <3>1. CASE Session = 1
      <4>1. sessions'[1] = [LastRow EXCEPT !.lastEventAt = clock, !.heartbeatAt = clock]
        BY <2>1, <3>1
      <4>2. LastRow = sessions[1] /\ LastRow \in SessionRow
        BY <1>0, <3>1
      <4>3. sessions'[1].startedAt = LastRow.startedAt
        BY <4>1, <4>2 DEF SessionRow
      <4>. QED BY <4>2, <4>3
    <3>2. CASE Session # 1
      BY <1>0, <2>1, <3>2
    <3>. QED BY <3>1, <3>2
  <2>. QED BY <1>0, <2>1, <2>2 DEF First
<1>4. CASE EndRun
  <2>0. PICK status : status = IF fatal THEN "interrupted" ELSE "closed_clean"
    OBVIOUS
  <2>1. /\ Session' = Session
        /\ sessions'[Session] = [LastRow EXCEPT !.status = status, !.endedAt = clock,
                                                !.heartbeatAt = clock]
        /\ \A s \in 1..(Session - 1) : sessions'[s] = sessions[s]
    BY <1>4, <2>0, EndedSession DEF LastRow
  <2>2. sessions'[1].startedAt = sessions[1].startedAt
    <3>1. CASE Session = 1
      <4>1. sessions'[1] = [LastRow EXCEPT !.status = status, !.endedAt = clock,
                                           !.heartbeatAt = clock]
        BY <2>1, <3>1
      <4>2. LastRow = sessions[1] /\ LastRow \in SessionRow
        BY <1>0, <3>1
      <4>3. sessions'[1].startedAt = LastRow.startedAt
        BY <4>1, <4>2 DEF SessionRow
      <4>. QED BY <4>2, <4>3
    <3>2. CASE Session # 1
      BY <1>0, <2>1, <3>2
    <3>. QED BY <3>1, <3>2
  <2>. QED BY <1>0, <2>1, <2>2 DEF First
<1>5. CASE BeginRun
  <2>1. /\ Session' = Session + 1
        /\ \A s \in 1..(Session - 1) : sessions'[s] = sessions[s]
        /\ \/ sessions'[Session] = LastRow
           \/ sessions'[Session] = [LastRow EXCEPT !.status = "interrupted", !.endedAt = clock]
    BY <1>0, <1>5, BegunSession DEF LastRow
  <2>2. sessions'[1].startedAt = sessions[1].startedAt
    <3>1. CASE Session = 1
      <4>1. PICK row \in SessionRow : row = LastRow /\ row = sessions[1]
        BY <1>0, <3>1
      <4>2. \/ sessions'[1] = row
            \/ sessions'[1] = [row EXCEPT !.status = "interrupted", !.endedAt = clock]
        BY <2>1, <3>1, <4>1
      <4>. QED BY <4>1, <4>2 DEF SessionRow
    <3>2. CASE Session # 1
      BY <1>0, <2>1, <3>2
    <3>. QED BY <3>1, <3>2
  <2>. QED BY <1>0, <2>1, <2>2 DEF First
<1>. QED BY <1>1, <1>2, <1>3, <1>4, <1>5, GapSteps

\* The boundary gap before a session reaches back to where its predecessor left off.
LEMMA BegunUpToNow ==
  ASSUME Shape, ConnsTyped, Moment, SessionsTyped, GapsTyped, OneGap, SessionTimes, UpToDeath,
         BeginRun, \A t : OnRecord(t) => OnRecord(t)'
  PROVE  UpToNow'
<1>1. /\ Down /\ Session \in Nat /\ Session' = Session + 1 /\ clock' = clock
      /\ lastFrame' = NoTime /\ createdAt' = clock /\ blind' = blind \cup LeftBlind
      /\ Since' = clock /\ clock \in Nat /\ clock > 0 /\ NoTime = 0
  BY BegunGaps DEF Since, Moment, NoTime
<1>2. CASE Session = 0
  <2>1. First' = clock
    BY <1>1, <1>2, BegunSession DEF First, NewSession
  <2>2. Moments(First', Since') = {}
    BY <1>1, <2>1 DEF Moments
  <2>. QED BY <2>2 DEF UpToNow, Known
<1>3. CASE Session > 0
  <2>0. Session \in 1..Session /\ LastRow \in SessionRow /\ sessions[1] \in SessionRow
    BY <1>1, <1>3 DEF SessionsTyped, LastRow
  <2>1. First' = First /\ First \in Nat
    <3>1. [Next]_vars
      BY DEF Next
    <3>2. First \in Nat
      BY <2>0 DEF First, SessionRow
    <3>. QED BY <2>0, <3>1, <3>2, FirstStays
  <2>2. Last(sessions) = LastRow /\ sessions # << >>
    <3>1. Last(sessions) = LastRow
      BY <1>3, BegunSession DEF LastRow
    <3>. QED BY <1>3, <3>1, ShortSeqs DEF Session
  <2>3. PICK from : from = OfflineSince(sessions[Session], clock)
    OBVIOUS
  <2>4. from # NoTime => BoundaryGap(Session, from, clock) \in store'.gaps
    BY <1>1, <1>3, <2>3, BegunGaps
  <2>5. ASSUME from \in Nat, from # NoTime, NEW t \in Moments(First, clock), t >= from
        PROVE  OnRecord(t)'
    <3>1. t \in Within(BoundaryGap(Session, from, clock), clock)
      BY <1>1, <2>1, <2>5 DEF Within, BoundaryGap, Moments
    <3>. QED BY <1>1, <2>4, <2>5, <3>1 DEF OnRecord
  <2>6. /\ LastRow.lastEventAt \in Nat /\ LastRow.heartbeatAt \in Nat
        /\ LastRow.endedAt \in Nat /\ LastRow.startedAt \in Nat
        /\ LastRow.status \in {"running", "interrupted", "closed_clean"}
    BY <2>0 DEF SessionRow
  <2>7. ASSUME NEW t \in Moments(First, clock) PROVE OnRecord(t)'
    <3>0. t \in Int /\ First <= t /\ t < clock
      BY <1>1, <2>1 DEF Moments
    <3>1. CASE t < Left
      <4>1. t \in Moments(First, Left)
        <5>1. Left \in Nat
          BY <2>6 DEF Left
        <5>. QED BY <2>1, <3>0, <3>1, <5>1 DEF Moments
      <4>. QED BY <1>1, <1>3, <4>1 DEF UpToDeath, Known
    <3>2. CASE ~(t < Left) /\ Running(Session)
      <4>1. LastRow.status = "running" /\ from = FirstKnown(LastRow.lastEventAt, clock, clock)
        BY <2>3, <3>2 DEF Running, LastRow, OfflineSince
      <4>2. from \in Nat /\ from # NoTime
        BY <1>1, <2>6, <4>1 DEF FirstKnown
      <4>3. CASE CompletedFrame
        <5>1. Left = LastRow.heartbeatAt /\ from = LastRow.lastEventAt
              /\ LastRow.lastEventAt <= LastRow.heartbeatAt
          BY <1>3, <3>2, <4>1, <4>3 DEF Left, SessionTimes, FirstKnown
        <5>. QED BY <2>5, <2>6, <3>0, <3>2, <4>2, <5>1
      <4>4. CASE ~CompletedFrame
        <5>1. Left = LastRow.startedAt
          BY <3>2, <4>4 DEF Left
        <5>2. LeftBlind = Moments(LastRow.startedAt, from)
          BY <2>2, <4>1, <4>4 DEF LeftBlind
        <5>3. CASE t < from
          <6>1. t \in LeftBlind
            BY <2>6, <3>0, <3>2, <4>2, <5>1, <5>2, <5>3 DEF Moments
          <6>. QED BY <1>1, <6>1 DEF OnRecord
        <5>4. CASE ~(t < from)
          BY <2>5, <3>0, <4>2, <5>4
        <5>. QED BY <5>3, <5>4
      <4>. QED BY <4>3, <4>4
    <3>3. CASE ~(t < Left) /\ ~Running(Session)
      <4>1. /\ Left = LastRow.endedAt /\ LastRow.endedAt # NoTime
            /\ LastRow.lastEventAt <= LastRow.endedAt
            /\ LastRow.status \in {"interrupted", "closed_clean"}
        BY <1>3, <2>6, <3>3 DEF Left, SessionTimes, Running, LastRow
      <4>2. from \in {LastRow.lastEventAt, LastRow.endedAt} /\ from # NoTime
        BY <1>1, <2>3, <2>6, <4>1 DEF OfflineSince, FirstKnown, LastRow
      <4>. QED BY <2>5, <2>6, <3>0, <3>3, <4>1, <4>2
    <3>. QED BY <3>1, <3>2, <3>3
  <2>. QED BY <1>1, <2>1, <2>7 DEF UpToNow, Known
<1>. QED BY <1>1, <1>2, <1>3

\* A frame that is complete closes what was open since the last one.
LEMMA TakenUpToNow ==
  ASSUME Shape, Moment, SessionsTyped, GapsTyped, OneGap, SinceFrame, BeforeFrame, UpToNow,
         GapTaken, First' = First, First \in Nat, \A t : OnRecord(t) => OnRecord(t)'
  PROVE  UpToNow'
<1>1. /\ UNCHANGED <<clock, createdAt, pc>> /\ (Down' <=> Down)
      /\ Len(outbox) > 0 /\ Len(outbox) \in Nat /\ 1 \in 1..Len(outbox)
      /\ clock \in Nat /\ clock > 0 /\ NoTime = 0
      /\ lastFrame \in Nat /\ createdAt \in Nat
  BY DEF GapTaken, Down, Moment, NoTime, GapsTyped
<1>. SUFFICES ASSUME ~Down PROVE Known(First, Since)'
  BY <1>1 DEF UpToNow
<1>2. CASE outbox[1].ev.type # "Residual"
  <2>1. Since' = Since
    BY <1>1, <1>2 DEF GapTaken, Since
  <2>. QED BY <2>1 DEF UpToNow, Known
<1>3. CASE outbox[1].ev.type = "Residual"
  <2>1. /\ Since' = clock /\ Finishing /\ FrameDone(clock)
    BY <1>1, <1>3 DEF GapTaken, FrameDone, Since, Finishing
  <2>2. hasEverBeenHealthy /\ lastHealthyAt = clock
    BY <2>1 DEF OneGap
  <2>3. ASSUME NEW t \in Moments(First, clock) PROVE OnRecord(t)'
    <3>0. t \in Int /\ First <= t /\ t < clock /\ Since \in Nat
      BY <1>1 DEF Moments, Since
    <3>1. CASE t < Since
      <4>1. t \in Moments(First, Since)
        BY <3>0, <3>1 DEF Moments
      <4>. QED BY <4>1 DEF UpToNow, Known
    <3>2. CASE ~(t < Since) /\ lastFrame # NoTime
      <4>1. t \in Moments(lastFrame, clock)
        BY <1>1, <3>0, <3>2 DEF Since, Moments
      <4>2. CASE lost
        BY <2>1, <3>2, <4>1, <4>2 DEF SinceFrame, Known
      <4>3. CASE ~lost
        BY <2>1, <3>2, <4>1, <4>3 DEF FrameDone, OnRecord
      <4>. QED BY <4>2, <4>3
    <3>3. CASE ~(t < Since) /\ lastFrame = NoTime
      <4>1. t \in Moments(createdAt, clock)
        BY <1>1, <3>0, <3>3 DEF Since, Moments
      <4>2. CASE clock - createdAt >= MinGap
        BY <2>2, <3>3, <4>1, <4>2 DEF BeforeFrame, Known
      <4>3. CASE ~(clock - createdAt >= MinGap)
        <5>1. clock - createdAt < MinGap
          BY <1>1, <4>3, MinGapAssumption
        <5>. QED BY <2>1, <3>3, <4>1, <5>1 DEF FrameDone, OnRecord
      <4>. QED BY <4>2, <4>3
    <3>. QED BY <3>1, <3>2, <3>3
  <2>. QED BY <2>1, <2>3 DEF Known
<1>. QED BY <1>2, <1>3

LEMMA UpToNowNext ==
  ASSUME Shape, ConnsTyped, Moment, SessionsTyped, GapsTyped, OneGap, SessionTimes, SinceFrame,
         BeforeFrame, UpToNow, UpToDeath, [Next]_vars
  PROVE  UpToNow'
<1>0. Session \in Nat /\ \A t : OnRecord(t) => OnRecord(t)'
  BY SessionCount, RecordGrows
<1>1. ~Down => Session \in 1..Session /\ First' = First /\ First \in Nat
  <2>1. ~Down => Session \in 1..Session
    BY <1>0 DEF Shape, SessionsShape, Down
  <2>. QED BY <2>1, FirstStays DEF SessionsTyped, SessionRow, First
<1>2. CASE (WorldValues /\ UNCHANGED ghostVars) \/ GapSection \/ EmitFails
  <2>1. UNCHANGED <<lastFrame, createdAt>> /\ (Down' => Down) /\ (Down => Down')
    <3>1. CASE WorldValues /\ UNCHANGED ghostVars
      BY <3>1 DEF WorldValues, WorldStep, engineVars, frameVars, gapVars, ghostVars, Down
    <3>2. CASE GapSection
      BY <3>2 DEF GapSection, Down, SaysNothing, SaysLost, SaysRecovered, SaysFinished,
                  SaysUnobserved
    <3>3. CASE EmitFails
      BY <3>3, RefusedGaps DEF Down
    <3>. QED BY <1>2, <3>1, <3>2, <3>3
  <2>2. Since' = Since
    BY <2>1 DEF Since
  <2>. QED BY <1>0, <1>1, <2>1, <2>2 DEF UpToNow, Known
<1>3. CASE BeginRun
  BY <1>0, <1>3, BegunUpToNow
<1>4. CASE EndRun \/ Killed
  BY <1>4, LeftGaps DEF UpToNow, Down
<1>5. CASE EmitSucceeds
  <2>1. GapTaken /\ ~Down
    <3>1. GapTaken
      BY <1>5, TakesGap
    <3>. QED BY <3>1, ShortSeqs DEF GapTaken, Down, Shape, EngineShape
  <2>. QED BY <1>0, <1>1, <2>1, TakenUpToNow
<1>. QED BY <1>2, <1>3, <1>4, <1>5, GapSteps

\* What a session that completed a frame leaves behind the last one.
LEMMA LeftBehind ==
  ASSUME Shape, Moment, GapsTyped, LossKnown, SinceFrame, EndRun \/ Killed, lastFrame # NoTime,
         NEW t \in Moments(lastFrame, clock)
  PROVE  OnRecord(t)'
<1>1. /\ clock' = clock /\ watched' = watched /\ excused' = excused \cup Edge
      /\ store'.gaps = store.gaps /\ ~Down /\ lastFrame \in Nat
  BY LeftGaps DEF Down, GapsTyped, Moment
<1>2. hasEverBeenHealthy
  BY <1>1 DEF LossKnown
<1>3. CASE OpenGaps = {}
  <2>1. t \in Edge
    BY <1>2, <1>3 DEF Edge, OpenGaps
  <2>. QED BY <1>1, <2>1 DEF OnRecord
<1>4. CASE OpenGaps # {}
  <2>1. PICK g \in OpenGaps : TRUE
    BY <1>4
  <2>2. g.from <= lastFrame
    BY <2>1 DEF SinceFrame
  <2>3. \E h \in store.gaps : t \in Within(h, clock)
    <3>1. g \in store.gaps /\ g.to = NoTime /\ g.from \in Nat /\ clock \in Nat
      BY <2>1 DEF OpenGaps, OpenStreamGaps, GapsTyped, GapRow, Moment
    <3>2. t \in Within(g, clock)
      BY <1>1, <2>2, <3>1 DEF Moments, Within
    <3>. QED BY <3>1, <3>2
  <2>. QED BY <1>1, <2>3 DEF OnRecord
<1>. QED BY <1>3, <1>4

\* What a session that was ended leaves without a frame.
LEMMA EndedBlind ==
  ASSUME Shape, Moment, GapsTyped, BeforeFrame, EndRun, lastFrame = NoTime,
         \A t : OnRecord(t) => OnRecord(t)',
         NEW t \in Moments(createdAt, clock)
  PROVE  OnRecord(t)'
<1>1. /\ excused' = excused \cup Edge /\ ~Down /\ pc = "stopped"
      /\ createdAt \in Nat /\ clock \in Nat /\ lastHealthyAt \in Nat
  BY LeftGaps DEF Down, GapsTyped, Moment, EndRun
<1>2. ~Opening
  BY ShortSeqs DEF EndRun, Settled, Opening
<1>3. t \in Int /\ createdAt <= t /\ t < clock
  BY <1>1 DEF Moments
<1>4. t \in Edge => OnRecord(t)'
  BY <1>1 DEF OnRecord
<1>5. CASE ~hasEverBeenHealthy
  <2>1. CASE clock - createdAt >= MinGap
    BY <1>1, <1>2, <1>5, <2>1 DEF BeforeFrame, Known
  <2>2. CASE ~(clock - createdAt >= MinGap)
    <3>1. clock - createdAt < MinGap
      BY <1>1, <2>2, MinGapAssumption
    <3>2. t \in Edge
      BY <1>5, <3>1 DEF Edge
    <3>. QED BY <1>4, <3>2
  <2>. QED BY <2>1, <2>2
<1>6. CASE hasEverBeenHealthy
  <2>1. CASE ~(t < lastHealthyAt)
    <3>1. OpenGaps = {}
      BY <1>1, <1>6 DEF BeforeFrame
    <3>2. t \in Moments(lastHealthyAt, clock)
      BY <1>1, <1>3, <2>1 DEF Moments
    <3>3. t \in Edge
      BY <1>6, <3>1, <3>2 DEF Edge, OpenGaps
    <3>. QED BY <1>4, <3>3
  <2>2. CASE t < lastHealthyAt
    <3>1. t \in Moments(createdAt, lastHealthyAt)
      BY <1>1, <1>3, <2>2 DEF Moments
    <3>2. CASE lastHealthyAt - createdAt >= MinGap
      BY <1>1, <1>6, <3>1, <3>2 DEF BeforeFrame, Known
    <3>3. CASE ~(lastHealthyAt - createdAt >= MinGap)
      <4>1. lastHealthyAt - createdAt < MinGap
        BY <1>1, <3>3, MinGapAssumption
      <4>2. t \in Edge
        BY <1>6, <3>1, <4>1 DEF Edge
      <4>. QED BY <1>4, <4>2
    <3>. QED BY <3>2, <3>3
  <2>. QED BY <2>1, <2>2
<1>. QED BY <1>5, <1>6

LEMMA UpToDeathNext ==
  ASSUME Shape, ConnsTyped, Moment, SessionsTyped, GapsTyped, OneGap, LossKnown, SessionTimes,
         SinceFrame, BeforeFrame, UpToNow, UpToDeath, [Next]_vars
  PROVE  UpToDeath'
<1>0. Session \in Nat /\ \A t : OnRecord(t) => OnRecord(t)'
  BY SessionCount, RecordGrows
<1>1. Session > 0 => First' = First /\ First \in Nat
  <2>1. Session > 0 => Session \in 1..Session /\ 1 \in 1..Session
    BY <1>0
  <2>. QED BY <2>1, FirstStays DEF SessionsTyped, SessionRow, First
<1>2. CASE /\ (WorldValues /\ UNCHANGED ghostVars /\ (Down => sessions' = sessions)) \/ GapSection
  <2>1. (Down' => Down) /\ journal' = journal /\ (Down => sessions' = sessions)
    <3>1. CASE WorldValues /\ UNCHANGED ghostVars /\ (Down => sessions' = sessions)
      BY <3>1 DEF WorldValues, WorldStep, engineVars, frameVars, Down
    <3>2. CASE GapSection
      BY <3>2 DEF GapSection, storeVars, Down, SaysNothing, SaysLost, SaysRecovered,
                  SaysFinished, SaysUnobserved
    <3>. QED BY <1>2, <3>1, <3>2
  <2>2. Down => Session' = Session /\ LastRow' = LastRow
    BY <2>1 DEF Session, LastRow
  <2>3. Down => (CompletedFrame' <=> CompletedFrame) /\ (Running(Session)' <=> Running(Session))
    BY <2>1, <2>2, SameFrames DEF Running, LastRow
  <2>4. Down => Left' = Left
    BY <2>2, <2>3 DEF Left
  <2>. QED BY <1>0, <1>1, <2>1, <2>2, <2>4 DEF UpToDeath, Known
<1>3. CASE BeginRun \/ EmitFails \/ EmitSucceeds
  <2>1. pc' # "down"
    <3>1. CASE BeginRun
      BY <3>1, BegunGaps
    <3>2. CASE EmitFails
      BY <3>2, RefusedGaps
    <3>3. CASE EmitSucceeds
      <4>1. GapTaken
        BY <3>3, TakesGap
      <4>. QED BY <4>1, ShortSeqs DEF GapTaken, Shape, EngineShape
    <3>. QED BY <1>3, <3>1, <3>2, <3>3
  <2>. QED BY <2>1 DEF UpToDeath, Down
<1>4. CASE EndRun \/ Killed
  <2>1. /\ clock' = clock /\ ~Down /\ Session' = Session /\ Session > 0 /\ clock \in Nat
        /\ lastFrame \in Nat /\ createdAt \in Nat /\ LastRow \in SessionRow
    <3>1. clock' = clock /\ ~Down /\ Session' = Session /\ Session \in 1..Session
      BY <1>4, LeftGaps DEF Down
    <3>. QED BY <1>0, <3>1 DEF Moment, GapsTyped, SessionsTyped, LastRow
  <2>2. /\ Left' \in Nat /\ Left' <= clock
        /\ Left' = createdAt \/ EndRun \/ lastFrame # NoTime
    <3>1. CASE EndRun
      <4>1. PICK status \in {"interrupted", "closed_clean"} :
              status = IF fatal THEN "interrupted" ELSE "closed_clean"
        OBVIOUS
      <4>2. LastRow' = [LastRow EXCEPT !.status = status, !.endedAt = clock,
                                       !.heartbeatAt = clock]
        BY <2>1, <3>1, <4>1, EndedSession DEF LastRow
      <4>3. LastRow'.status = status /\ LastRow'.endedAt = clock
        BY <2>1, <4>2 DEF SessionRow
      <4>4. ~Running(Session)'
        BY <4>1, <4>3 DEF Running, LastRow
      <4>5. Left' = clock
        BY <4>3, <4>4 DEF Left
      <4>. QED BY <2>1, <3>1, <4>5
    <3>2. CASE Killed
      <4>1. UNCHANGED <<sessions, journal>>
        BY <3>2 DEF Killed, storeVars
      <4>2. LastRow' = LastRow /\ (CompletedFrame' <=> CompletedFrame)
        BY <2>1, <4>1, SameFrames DEF LastRow
      <4>3. Running(Session) /\ Running(Session)'
        BY <2>1, <4>1 DEF Shape, SessionsShape, Running, Down
      <4>4. Left' = IF CompletedFrame THEN LastRow.heartbeatAt ELSE LastRow.startedAt
        BY <4>2, <4>3 DEF Left
      <4>5. /\ LastRow.heartbeatAt \in Nat /\ LastRow.heartbeatAt <= clock
            /\ LastRow.startedAt = createdAt /\ createdAt <= clock
            /\ CompletedFrame => lastFrame # NoTime
        BY <2>1 DEF SessionTimes, SessionRow, GapsTyped
      <4>. QED BY <2>1, <4>4, <4>5
    <3>. QED BY <1>4, <3>1, <3>2
  <2>3. PICK left \in Nat : left = Left' /\ left <= clock
    BY <2>2
  <2>4. ASSUME NEW t \in Moments(First, left) PROVE OnRecord(t)'
    <3>0. t \in Int /\ First <= t /\ t < left /\ t < clock /\ Since \in Nat
      <4>1. Since \in Nat /\ First \in Nat /\ clock \in Nat
        BY <1>1, <2>1 DEF Since
      <4>2. left \in Nat /\ left <= clock
        BY <2>3
      <4>3. t \in Int /\ First <= t /\ t < left
        BY <4>1, <4>2 DEF Moments
      <4>. QED BY <4>1, <4>2, <4>3
    <3>1. CASE t < Since
      <4>1. t \in Moments(First, Since)
        BY <3>0, <3>1 DEF Moments
      <4>. QED BY <1>0, <2>1, <4>1 DEF UpToNow, Known
    <3>2. CASE ~(t < Since) /\ lastFrame # NoTime
      <4>1. t \in Moments(lastFrame, clock)
        BY <2>1, <3>0, <3>2 DEF Since, Moments
      <4>. QED BY <1>4, <3>2, <4>1, LeftBehind
    <3>3. CASE ~(t < Since) /\ lastFrame = NoTime
      <4>1. t \in Moments(createdAt, clock) /\ Since = createdAt
        BY <2>1, <3>0, <3>3 DEF Since, Moments
      <4>2. EndRun
        BY <2>1, <2>2, <2>3, <3>0, <3>3, <4>1
      <4>. QED BY <1>0, <3>3, <4>1, <4>2, EndedBlind
    <3>. QED BY <3>1, <3>2, <3>3
  <2>. QED BY <1>1, <2>1, <2>3, <2>4 DEF UpToDeath, Known
<1>. QED BY <1>2, <1>3, <1>4, GapSteps

\* The inductive invariant of the silence.
SilenceTimes == SinceFrame /\ BeforeFrame /\ UpToNow /\ UpToDeath

LEMMA SilenceBegins == Init => SilenceTimes
<1>. SUFFICES ASSUME Init PROVE SilenceTimes
  OBVIOUS
<1>1. pc = "down" /\ sessions = << >> /\ lastFrame = NoTime
  BY DEF Init, EngineInit, StoreInit
<1>2. Session = 0 /\ Down
  BY <1>1, ShortSeqs DEF Session, Down
<1>. QED BY <1>1, <1>2 DEF SilenceTimes, SinceFrame, BeforeFrame, UpToNow, UpToDeath

THEOREM SilenceInStep == Spec => []SilenceTimes
<1>1. Init => SilenceTimes
  BY SilenceBegins
<1>2. IInv /\ ValueInv /\ GapTimes /\ SilenceTimes /\ [Next]_vars => SilenceTimes'
  <2>. SUFFICES ASSUME IInv, ValueInv, GapTimes, SilenceTimes, [Next]_vars
                PROVE  SilenceTimes'
    OBVIOUS
  <2>1. /\ Shape /\ BootstrapState /\ GapInv /\ ConnsTyped /\ Moment /\ SessionsTyped
        /\ GapsTyped /\ OneGap /\ LossKnown /\ SessionTimes
    BY DEF IInv, LifeInv, StoreInv, ValueInv, GapTimes
  <2>2. SinceFrame' /\ BeforeFrame' /\ UpToNow' /\ UpToDeath'
    BY <2>1, SinceFrameNext, BeforeFrameNext, UpToNowNext, UpToDeathNext DEF SilenceTimes
  <2>. QED BY <2>2 DEF SilenceTimes
<1>. QED BY <1>1, <1>2, StreamInOrder, RowsInStep, GapsInStep, PTL DEF Spec

\* SilenceRecorded: every moment since the first session that was not watched is inside
\* a recorded gap or reported by coverage, but for sessions killed before their first
\* frame and the allowance for a late heartbeat (sqlite_sink.go 64-188, engine.go
\* 224-269, 317-354, analytics.go 893-954).
THEOREM SilenceIsOnRecord == Spec => []SilenceRecorded
<1>1. IInv /\ ValueInv /\ GapTimes /\ SilenceTimes => SilenceRecorded
  <2>. SUFFICES ASSUME IInv, ValueInv, GapTimes, SilenceTimes PROVE SilenceRecorded
    OBVIOUS
  <2>. DEFINE known == watched \cup excused \cup blind \cup Uncovered(clock)
  <2>1. \A t : OnRecord(t) => t \in known
    BY DEF OnRecord, Uncovered
  <2>2. clock \in Nat /\ Session \in Nat /\ IsSeq(sessions)
    BY SessionCount DEF ValueInv, Moment, IInv, Shape, SessionsShape
  <2>3. ASSUME Idle, lastFrame # NoTime
        PROVE  Moments(sessions[1].startedAt, lastFrame) \subseteq known
    <3>1. UpToNow /\ ~Down
      BY <2>3 DEF SilenceTimes, Idle, Down
    <3>2. Known(sessions[1].startedAt, lastFrame)
      BY <2>3, <3>1 DEF UpToNow, First, Since
    <3>. QED BY <2>1, <3>2 DEF Known
  <2>4. ASSUME Down, sessions # << >>
        PROVE  Moments(sessions[1].startedAt, clock) \subseteq known \cup Undecided
    <3>1. Session > 0 /\ Last(sessions) = LastRow
      <4>1. Len(sessions) > 0
        BY <2>2, <2>4, TailParts
      <4>. QED BY <4>1 DEF Session, LastRow, Last
    <3>2. /\ LastRow \in SessionRow /\ First \in Nat
      BY <2>2, <3>1 DEF ValueInv, SessionsTyped, LastRow, First, SessionRow
    <3>3. /\ LastRow.heartbeatAt \in Nat /\ LastRow.startedAt \in Nat /\ LastRow.endedAt \in Nat
      BY <3>2 DEF SessionRow
    <3>. SUFFICES ASSUME NEW t \in Moments(First, clock) PROVE t \in known \cup Undecided
      BY DEF First
    <3>4. t \in Int /\ First <= t /\ t < clock
      BY <2>2, <3>2 DEF Moments
    <3>5. CASE t < Left
      <4>1. Known(First, Left) /\ Left \in Nat
        BY <2>4, <3>1, <3>3 DEF SilenceTimes, UpToDeath, Left
      <4>2. t \in Moments(First, Left)
        BY <3>2, <3>4, <3>5, <4>1 DEF Moments
      <4>. QED BY <2>1, <4>1, <4>2 DEF Known
    <3>6. CASE ~(t < Left) /\ Running(Session)
      <4>1. Left = IF CompletedFrame THEN LastRow.heartbeatAt ELSE LastRow.startedAt
        BY <3>6 DEF Left
      <4>2. LastRow.status = "running"
        BY <3>6 DEF Running, LastRow
      <4>3. Undecided = Moments(Left, LastRow.heartbeatAt + Grace)
        BY <3>1, <4>1, <4>2 DEF Undecided
      <4>4. Stale(clock) = (LastRow.heartbeatAt + Grace) .. (clock - 1)
        BY <2>4, <3>1, <4>2 DEF Stale
      <4>5. Left \in Nat /\ Grace \in Nat
        BY <3>3, <4>1, GraceAssumption
      <4>6. CASE t < LastRow.heartbeatAt + Grace
        BY <3>3, <3>4, <3>6, <4>3, <4>5, <4>6 DEF Moments
      <4>7. CASE ~(t < LastRow.heartbeatAt + Grace)
        <5>1. t \in Stale(clock)
          BY <2>2, <3>3, <3>4, <4>4, <4>5, <4>7
        <5>2. t \in Uncovered(clock)
          BY <5>1 DEF Uncovered
        <5>. QED BY <5>2
      <4>. QED BY <4>6, <4>7
    <3>7. CASE ~(t < Left) /\ ~Running(Session)
      <4>1. /\ Left = LastRow.endedAt /\ LastRow.endedAt # NoTime
            /\ LastRow.status # "running"
        BY <3>1, <3>7 DEF Left, GapTimes, SessionTimes, Running, LastRow
      <4>2. Trailing(clock) = LastRow.endedAt .. (clock - 1)
        BY <2>4, <3>1, <4>1 DEF Trailing, FirstKnown
      <4>3. t \in Trailing(clock)
        BY <2>2, <3>3, <3>4, <3>7, <4>1, <4>2
      <4>4. t \in Uncovered(clock)
        BY <4>3 DEF Uncovered
      <4>. QED BY <4>4
    <3>. QED BY <3>5, <3>6, <3>7
  <2>. QED BY <2>3, <2>4 DEF SilenceRecorded
<1>. QED BY <1>1, StreamInOrder, RowsInStep, GapsInStep, SilenceInStep, PTL

-----------------------------------------------------------------------------
(* The residual of a frame: what the events of its connections say of the  *)
(* bytes that are its own.                                                 *)

\* An event whose bytes count for its frame.
Own(ev) ==
  /\ ev.type = "New" \/ (ev.type = "Delta" /\ ev.from = NoTime)
  /\ ev.class # Confirmed

\* Of the events of a section at most the last counts, and makes `new` of `sum`.
Credits(events, sum, new) ==
  /\ IsSeq(events)
  /\ \A k \in 1..Len(events) : Own(events[k]) => k = Len(events)
  /\ new = IF Len(events) > 0 /\ Own(events[Len(events)])
             THEN Plus(sum, events[Len(events)].delta) ELSE sum

LEMMA CreditsNone ==
  ASSUME NEW events, NEW id, NEW types, About(events, id, types),
         "New" \notin types, "Delta" \notin types, NEW sum
  PROVE  Credits(events, sum, sum)
<1>1. \A k \in 1..Len(events) : ~Own(events[k])
  BY DEF About, Own
<1>2. Len(events) \in Nat
  BY SeqParts DEF About
<1>. QED BY <1>1, <1>2 DEF Credits, About

LEMMA CreditsLast ==
  ASSUME NEW before, NEW id, NEW types, About(before, id, types),
         "New" \notin types, "Delta" \notin types, NEW e, NEW sum, NEW new,
         new = IF Own(e) THEN Plus(sum, e.delta) ELSE sum
  PROVE  Credits(before \o <<e>>, sum, new)
<1>. DEFINE events == before \o <<e>>
<1>1. Len(before) \in Nat /\ IsSeq(before)
  BY SeqParts DEF About
<1>2. IsSeq(<<e>>) /\ Len(<<e>>) = 1 /\ <<e>>[1] = e
  BY ShortSeqs
<1>3. /\ IsSeq(events) /\ Len(events) = Len(before) + 1 /\ events[Len(before) + 1] = e
      /\ \A k \in 1..Len(before) : events[k] = before[k]
  BY <1>1, <1>2, ConcatParts
<1>. HIDE DEF events
<1>4. \A k \in 1..Len(before) : ~Own(events[k])
  BY <1>3 DEF About, Own
<1>. SUFFICES Credits(events, sum, new)
  BY DEF events
<1>. QED BY <1>1, <1>3, <1>4 DEF Credits

LEMMA MetaIsQuiet ==
  ASSUME NEW id, NEW prev
  PROVE  About(MetaEvents(id, prev), id, {"Health", "MetadataUpdated"})
<1>. DEFINE m == frame.conns[id].meta
            h == HealthEvent(frame.ts, id)
            up == [Event("MetadataUpdated", frame.ts) EXCEPT !.conn = id]
            s == IF m.chains # prev.meta.chains THEN <<h>> ELSE << >>
            t == IF m # prev.meta THEN <<up>> ELSE << >>
            types == {"Health", "MetadataUpdated"}
<1>1. h.conn = id /\ h.type = "Health" /\ up.conn = id /\ up.type = "MetadataUpdated"
  BY DEF HealthEvent, Event
<1>2. MetaEvents(id, prev) = s \o t
  BY DEF MetaEvents
<1>. HIDE DEF h, up
<1>3. About(<<h>>, id, types) /\ About(<<up>>, id, types) /\ About(<< >>, id, types)
  BY <1>1, AboutParts
<1>4. About(s, id, types) /\ About(t, id, types)
  BY <1>3
<1>. HIDE DEF s, t
<1>. QED BY <1>2, <1>4, AboutParts

\* A section of a connection, and what it adds to the frame's own bytes.
Adds == Credits([k \in 1..Len(outbox') |-> outbox'[k].ev], unique, unique')

LEMMA EmittedAdds ==
  ASSUME NEW events, IsSeq(events), Emit(events), Credits(events, unique, unique')
  PROVE  Adds
<1>1. Len(outbox') = Len(events) /\ \A k \in 1..Len(events) : outbox'[k].ev = events[k]
  BY EmitParts
<1>2. [k \in 1..Len(outbox') |-> outbox'[k].ev] = events
  BY <1>1, SeqParts
<1>. QED BY <1>2 DEF Adds

LEMMA TrafficCredits ==
  ASSUME NEW before, NEW id, NEW types, About(before, id, types),
         "New" \notin types, "Delta" \notin types,
         NEW prev, NEW st, NEW delta \in Counter, NEW from, NEW sum \in Counter
  PROVE  Credits(before \o DeltaOrPresence(prev, id, st, delta, from), sum,
                 IF from # NoTime \/ st.class = Confirmed THEN sum ELSE Plus(sum, delta))
<1>. DEFINE d == [ConnEvent("Delta", frame.ts, id, st, delta) EXCEPT
                    !.from = from, !.to = IF from = NoTime THEN NoTime ELSE frame.ts]
            p == [Event("Presence", frame.ts) EXCEPT
                    !.conn = id, !.start = st.start, !.counter = st.last]
            traffic == DeltaOrPresence(prev, id, st, delta, from)
            new == IF from # NoTime \/ st.class = Confirmed THEN sum ELSE Plus(sum, delta)
<1>1. /\ d.type = "Delta" /\ d.from = from /\ d.class = st.class /\ d.delta = delta
      /\ p.type = "Presence"
  BY DEF ConnEvent, Event
<1>2. \/ traffic = <<d>>
      \/ ~Positive(delta) /\ (traffic = << >> \/ traffic = <<p>>)
  BY DEF DeltaOrPresence
<1>. HIDE DEF d, p, traffic
<1>3. ~Positive(delta) => new = sum
  BY CounterTypes
<1>4. CASE traffic = <<d>>
  <2>1. new = IF Own(d) THEN Plus(sum, d.delta) ELSE sum
    BY <1>1 DEF Own
  <2>. HIDE DEF new
  <2>2. Credits(before \o <<d>>, sum, new)
    BY <2>1, CreditsLast
  <2>. QED BY <1>4, <2>2 DEF new, traffic
<1>5. CASE ~Positive(delta) /\ traffic = <<p>>
  <2>1. new = IF Own(p) THEN Plus(sum, p.delta) ELSE sum
    BY <1>1, <1>3, <1>5 DEF Own
  <2>. HIDE DEF new
  <2>2. Credits(before \o <<p>>, sum, new)
    BY <2>1, CreditsLast
  <2>. QED BY <1>5, <2>2 DEF new, traffic
<1>6. CASE ~Positive(delta) /\ traffic = << >>
  <2>1. About(before \o << >>, id, types)
    BY AboutParts
  <2>2. Credits(before \o << >>, sum, sum)
    BY <2>1, CreditsNone
  <2>. HIDE DEF new
  <2>. QED BY <1>3, <1>6, <2>2 DEF new, traffic
<1>. QED BY <1>2, <1>4, <1>5, <1>6

\* The gap a recovery ends has a beginning.
GapKnown == /\ pc = "recovery" => gapIsOpen
            /\ gapIsOpen => gapStart # NoTime

LEMMA BaselineAdds ==
  ASSUME NEW id, Baseline(id)
  PROVE  Adds
<1>. DEFINE st == Observed(id, Zero, frame.conns[id].ctr,
                           InitialClass(frame.conns[id].meta))
            e == ConnEvent("Bootstrap", frame.ts, id, st, Zero)
<1>1. Emit(<<e>>) /\ unique' = unique
  BY DEF Baseline
<1>. HIDE DEF st
<1>2. e.type = "Bootstrap" /\ e.conn = id
  BY DEF ConnEvent, Event
<1>. HIDE DEF e
<1>3. About(<<e>>, id, {"Bootstrap"})
  BY <1>2, AboutParts
<1>. QED BY <1>1, <1>3, CreditsNone, EmittedAdds DEF About

LEMMA RecoverKnownAdds ==
  ASSUME ConnsTyped, GapKnown, NEW id, RecoverKnown(id), unique \in Counter
  PROVE  Adds
<1>. DEFINE prev      == activeMap[id]
            ctr       == frame.conns[id].ctr
            regressed == Below(ctr, prev.last)
            delta     == IF regressed THEN Zero ELSE Monus(ctr, prev.last)
            h         == HealthEvent(frame.ts, id)
            health    == IF regressed THEN <<h>> ELSE << >>
            st        == [Evident(prev, health) EXCEPT
                            !.last = ctr, !.observedAt = frame.ts,
                            !.cum = Plus(@, delta)]
            traffic   == DeltaOrPresence(st, id, st, delta, gapStart)
<1>1. Emit(health \o traffic) /\ unique' = unique /\ pc = "recovery" /\ id \in DOMAIN activeMap
      /\ id \in todo
  BY DEF RecoverKnown, InLoop
<1>2. delta \in Counter
  <2>1. ctr \in Counter /\ prev.last \in Counter
    BY <1>1 DEF ConnsTyped, FrameConn, ConnState
  <2>. QED BY <2>1, CounterTypes
<1>3. About(health, id, {"Health"})
  <2>1. h.type = "Health" /\ h.conn = id
    BY EventParts
  <2>. HIDE DEF h
  <2>. QED BY <2>1, AboutParts
<1>4. gapStart # NoTime
  BY <1>1 DEF GapKnown
<1>. HIDE DEF delta, health, st
<1>5. Credits(health \o traffic, unique, unique)
  BY <1>2, <1>3, <1>4, TrafficCredits
<1>. QED BY <1>1, <1>5, EmittedAdds DEF Credits

LEMMA SteadyRegressedAdds ==
  ASSUME NEW id, SteadyRegressed(id)
  PROVE  Adds
<1>. DEFINE meta == MetaEvents(id, activeMap[id])
            h == HealthEvent(frame.ts, id)
<1>1. Emit(meta \o <<h>>) /\ unique' = unique
  BY DEF SteadyRegressed
<1>2. h.type = "Health"
  BY EventParts
<1>3. About(meta, id, {"Health", "MetadataUpdated"})
  BY MetaIsQuiet
<1>. HIDE DEF meta, h
<1>4. unique = IF Own(h) THEN Plus(unique, h.delta) ELSE unique
  BY <1>2 DEF Own
<1>5. Credits(meta \o <<h>>, unique, unique)
  BY <1>3, <1>4, CreditsLast
<1>. QED BY <1>1, <1>5, EmittedAdds DEF Credits

LEMMA SteadyKnownAdds ==
  ASSUME ConnsTyped, NEW id, SteadyKnown(id), unique \in Counter
  PROVE  Adds /\ unique' \in Counter
<1>. DEFINE prev    == activeMap[id]
            ctr     == frame.conns[id].ctr
            delta   == Monus(ctr, prev.last)
            class   == IF id \in frame.relays THEN Confirmed ELSE prev.class
            meta    == MetaEvents(id, prev)
            c       == [Event("RelayClassificationChanged", frame.ts)
                          EXCEPT !.conn = id, !.class = class]
            changed == IF class # prev.class THEN <<c>> ELSE << >>
            first   == meta \o changed
            was     == Evident(prev, first)
            st      == [was EXCEPT !.meta = frame.conns[id].meta, !.class = class,
                                   !.last = ctr, !.observedAt = frame.ts,
                                   !.cum = Plus(@, delta)]
            traffic == DeltaOrPresence(st, id, st, delta, NoTime)
            types   == {"Health", "MetadataUpdated", "RelayClassificationChanged"}
<1>1. /\ Emit(first \o traffic) /\ id \in todo /\ id \in DOMAIN activeMap
      /\ unique' = IF class = Confirmed THEN unique ELSE Plus(unique, delta)
  BY DEF SteadyKnown, InLoop, Credit
<1>2. delta \in Counter /\ prev \in ConnState
  <2>1. ctr \in Counter /\ prev.last \in Counter /\ prev \in ConnState
    BY <1>1 DEF ConnsTyped, FrameConn, ConnState
  <2>. QED BY <2>1, CounterTypes
<1>3. About(first, id, types)
  <2>1. c.type = "RelayClassificationChanged" /\ c.conn = id
    BY DEF Event
  <2>. HIDE DEF c
  <2>2. About(changed, id, types)
    BY <2>1, AboutParts
  <2>3. About(meta, id, types)
    BY MetaIsQuiet DEF About
  <2>. HIDE DEF meta, changed, types
  <2>. QED BY <2>2, <2>3, AboutParts
<1>4. st.class = class
  BY <1>2 DEF Evident, ConnState
<1>. HIDE DEF delta, class, first, st
<1>5. Credits(first \o traffic, unique,
              IF NoTime # NoTime \/ st.class = Confirmed THEN unique ELSE Plus(unique, delta))
  BY <1>2, <1>3, TrafficCredits
<1>6. Credits(first \o traffic, unique, unique')
  BY <1>1, <1>4, <1>5
<1>7. unique' \in Counter
  BY <1>1, <1>2, CounterTypes
<1>. QED BY <1>1, <1>6, <1>7, EmittedAdds DEF Credits

LEMMA SteadyBeginsAdds ==
  ASSUME ConnsTyped, NEW id, SteadyReobserved(id) \/ SteadyNew(id), unique \in Counter
  PROVE  Adds /\ unique' \in Counter
<1>. DEFINE ctr == frame.conns[id].ctr
<1>1. ctr \in Counter
  BY DEF SteadyReobserved, SteadyNew, InLoop, ConnsTyped, FrameConn
<1>2. CASE SteadyReobserved(id)
  <2>. DEFINE prev   == tombstones[id].state
              delta  == Monus(ctr, prev.last)
              h      == HealthEvent(frame.ts, id)
              health == IF Below(ctr, prev.last) THEN <<h>> ELSE << >>
              st     == Observed(id, Plus(prev.cum, delta), prev.base, ClassInFrame(id))
              e      == [ConnEvent("New", frame.ts, id, st, delta) EXCEPT
                           !.from = IF Positive(delta) THEN prev.observedAt ELSE NoTime,
                           !.to = IF Positive(delta) THEN frame.ts ELSE NoTime]
  <2>1. /\ Emit(health \o <<e>>)
        /\ unique' = IF st.class = Confirmed THEN unique ELSE Plus(unique, delta)
    BY <1>2 DEF SteadyReobserved, Credit
  <2>2. delta \in Counter
    <3>1. prev.last \in Counter
      BY <1>2 DEF ConnsTyped, ConnState, SteadyReobserved, Continues
    <3>. QED BY <1>1, <3>1, CounterTypes
  <2>3. h.type = "Health" /\ h.conn = id
    BY EventParts
  <2>4. e.type = "New" /\ e.class = st.class /\ e.delta = delta
    BY DEF ConnEvent, Event
  <2>. HIDE DEF h, e, st, delta
  <2>5. About(health, id, {"Health"})
    BY <2>3, AboutParts
  <2>6. unique' = IF Own(e) THEN Plus(unique, e.delta) ELSE unique
    BY <2>1, <2>4 DEF Own
  <2>. HIDE DEF health
  <2>7. Credits(health \o <<e>>, unique, unique')
    BY <2>5, <2>6, CreditsLast
  <2>. QED BY <2>1, <2>2, <2>7, CounterTypes, EmittedAdds DEF Credits
<1>3. CASE SteadyNew(id)
  <2>. DEFINE st == Observed(id, ctr, Zero, ClassInFrame(id))
              e  == ConnEvent("New", frame.ts, id, st, ctr)
  <2>1. /\ Emit(<<e>>)
        /\ unique' = IF st.class = Confirmed THEN unique ELSE Plus(unique, ctr)
    BY <1>3 DEF SteadyNew, Credit
  <2>2. e.type = "New" /\ e.class = st.class /\ e.delta = ctr
    BY DEF ConnEvent, Event
  <2>. HIDE DEF e, st, ctr
  <2>3. unique' = IF Own(e) THEN Plus(unique, e.delta) ELSE unique
    BY <2>1, <2>2 DEF Own
  <2>4. Credits(<<e>>, unique, unique')
    BY <2>3, ShortSeqs DEF Credits
  <2>. QED BY <1>1, <2>1, <2>4, CounterTypes, EmittedAdds DEF Credits
<1>. QED BY <1>2, <1>3

LEMMA ProcessConnAdds ==
  ASSUME ConnsTyped, GapKnown, ProcessConn, unique \in Counter
  PROVE  Adds /\ unique' \in Counter
<1>1. PICK id \in todo : \/ BootstrapConn(id)
                         \/ RecoverBaseline(id) \/ RecoverKnown(id)
                         \/ SteadyKnown(id) \/ SteadyRegressed(id)
                         \/ SteadyReobserved(id) \/ SteadyNew(id)
  BY DEF ProcessConn
<1>2. CASE BootstrapConn(id) \/ RecoverBaseline(id)
  <2>1. Baseline(id)
    BY <1>2 DEF BootstrapConn, RecoverBaseline
  <2>. QED BY <2>1, BaselineAdds DEF Baseline
<1>3. CASE RecoverKnown(id) \/ SteadyRegressed(id)
  <2>1. unique' = unique
    BY <1>3 DEF RecoverKnown, SteadyRegressed
  <2>. QED BY <1>3, <2>1, RecoverKnownAdds, SteadyRegressedAdds
<1>. QED BY <1>1, <1>2, <1>3, SteadyKnownAdds, SteadyBeginsAdds

\* A section, with what it makes of the frame's own bytes.
SectionTally ==
  /\ SectionStep
  /\ \/ QuietStep /\ unique' = unique
     \/ BeginStep /\ unique' = Zero
     \/ EndStep /\ outbox'[1].ev.counter = unique
     \/ \E id \in todo : ConnStep(id) /\ Adds /\ unique' \in Counter
     \/ \E id \in DOMAIN activeMap : GoneStep(id) /\ unique' = unique

LEMMA SectionTallies ==
  ASSUME Shape, ConnsTyped, GapKnown, InFrame => unique \in Counter,
         StopRun \/ StreamLost \/ Health \/ FrameArrives \/ FrameContinues
  PROVE  SectionTally
<1>0. SectionStep /\ eventSequence \in Nat
  BY SectionSteps DEF Shape, EngineShape
<1>1. CASE StopRun \/ StreamLost \/ Health
  <2>1. QuietStep
    BY <1>0, <1>1, QuietItems DEF StopRun, StreamLost, Health
  <2>2. unique' = unique
    BY <1>1 DEF StopRun, StreamLost, Health, Shutdown, GapOpened, CollectorHealth, frameVars
  <2>. QED BY <1>0, <2>1, <2>2 DEF SectionTally
<1>2. CASE FrameArrives
  <2>1. PICK f : ProcessFrame(f)
    BY <1>2 DEF FrameArrives
  <2>2. BeginStep
    BY <2>1, FrameBegins
  <2>3. unique' = Zero
    BY <2>1 DEF ProcessFrame, StartRecovery, StartEpochBreakAcrossGap, StartEpochBreak,
                StartBootstrap, StartSteady, BeginFrame
  <2>. QED BY <1>0, <2>2, <2>3 DEF SectionTally
<1>3. CASE FrameContinues
  <2>1. CASE ProcessConn
    <3>1. PICK id \in todo : ConnStep(id)
      BY <2>1, ProcessConnStep
    <3>2. unique \in Counter
      BY <3>1 DEF ConnStep, InFrame
    <3>. QED BY <1>0, <2>1, <3>1, <3>2, ProcessConnAdds DEF SectionTally
  <2>2. CASE \E id \in DOMAIN activeMap : Disappear(id)
    <3>1. PICK id \in DOMAIN activeMap : Disappear(id)
      BY <2>2
    <3>2. GoneStep(id) /\ unique' = unique
      BY <3>1, DisappearStep DEF Disappear, frameVars
    <3>. QED BY <1>0, <3>2 DEF SectionTally
  <2>3. CASE EndSteady \/ EndRecovery \/ EndBootstrap
    <3>1. EndStep
      BY <2>3, FrameEnds
    <3>2. PICK delta : Residual(delta)
      BY <2>3 DEF EndSteady, EndRecovery, EndBootstrap
    <3>. DEFINE e == [Event("Residual", frame.ts) EXCEPT !.delta = delta, !.counter = unique]
    <3>3. e.counter = unique
      BY DEF Event
    <3>4. Emit(<<e>>)
      BY <3>2 DEF Residual
    <3>. HIDE DEF e
    <3>5. outbox'[1].ev = e
      BY <3>4, ShortSeqs, EmitParts
    <3>. QED BY <1>0, <3>1, <3>3, <3>5 DEF SectionTally
  <2>4. CASE EndBootstrapLoop
    <3>1. QuietStep /\ unique' = unique
      BY <1>0, <2>4, QuietItems DEF EndBootstrapLoop
    <3>. QED BY <1>0, <3>1 DEF SectionTally
  <2>. QED BY <1>3, <2>1, <2>2, <2>3, <2>4 DEF FrameContinues
<1>. QED BY <1>1, <1>2, <1>3

LEMMA GapKnownNext ==
  ASSUME Shape, Moment, GapKnown, [Next]_vars
  PROVE  GapKnown'
<1>0. clock # NoTime
  BY DEF Moment, NoTime
<1>1. CASE Tick \/ MihomoMoves \/ Rest \/ UNCHANGED vars \/ EmitSucceeds
  BY <1>1 DEF Tick, MihomoMoves, Quiet, Rest, vars, engineVars, gapVars, frameVars,
              EmitSucceeds, GapKnown
<1>2. CASE BeginRun \/ EndRun \/ Killed \/ EmitFails
  BY <1>2 DEF BeginRun, EndRun, Killed, Exits, EngineReplaced, EmitFails, SinkFails, gapVars,
              GapKnown
<1>3. CASE StopRun \/ Health
  BY <1>3 DEF StopRun, Health, Shutdown, CollectorHealth, gapVars, frameVars, GapKnown
<1>4. CASE StreamLost
  BY <1>0, <1>4 DEF StreamLost, GapOpened, GapFrom, frameVars, Idle, GapKnown
<1>5. CASE FrameArrives
  BY <1>5 DEF FrameArrives, ProcessFrame, StartRecovery, StartEpochBreakAcrossGap,
              StartEpochBreak, StartBootstrap, StartSteady, BeginFrame, gapVars, GapKnown
<1>6. CASE ProcessConn
  BY <1>6 DEF ProcessConn, BootstrapConn, RecoverBaseline, RecoverKnown, SteadyKnown,
              SteadyRegressed, SteadyReobserved, SteadyNew, InLoop, gapVars, GapKnown
<1>7. CASE \E id \in DOMAIN activeMap : Disappear(id)
  BY <1>7 DEF Disappear, gapVars, frameVars, GapKnown
<1>8. CASE EndSteady \/ EndRecovery \/ EndBootstrap \/ EndBootstrapLoop
  BY <1>8 DEF EndSteady, EndRecovery, EndBootstrap, EndBootstrapLoop, EndFrame, GapKnown
<1>. QED BY <1>1, <1>2, <1>3, <1>4, <1>5, <1>6, <1>7, <1>8 DEF Next, FrameContinues

-----------------------------------------------------------------------------
(* The sums along the stream.                                              *)

Counted(i, s, n) == Entry(i).session = s /\ Entry(i).frame = n /\ Own(Entry(i).ev)

\* f adds up the first m of what counts for frame n of session s.
IsTally(f, s, n, m) ==
  /\ f[0] = Zero
  /\ \A i \in 1..m : f[i] = IF Counted(i, s, n) THEN Plus(f[i - 1], Entry(i).ev.delta)
                            ELSE f[i - 1]
Tallied(s, n, m, sum) == \E f : IsTally(f, s, n, m) /\ f[m] = sum

\* A tally goes on as the stream does: with nothing that counts, or with one event
\* that does and is the last.
LEMMA TallyGoesOn ==
  ASSUME NEW s, NEW n, NEW a \in Nat, NEW b \in Nat, a <= b, NEW sum, NEW new,
         Tallied(s, n, a, sum), \A i \in 1..a : Entry(i)' = Entry(i),
         \A i \in (a + 1)..b : Counted(i, s, n)' => i = b,
         new = IF a < b /\ Counted(b, s, n)' THEN Plus(sum, Entry(b)'.ev.delta) ELSE sum
  PROVE  Tallied(s, n, b, new)'
<1>1. PICK f : IsTally(f, s, n, a) /\ f[a] = sum
  BY DEF Tallied
<1>. DEFINE g == [i \in 0..b |-> IF i <= a THEN f[i] ELSE IF i = b THEN new ELSE sum]
<1>2. g[0] = Zero
  BY <1>1 DEF IsTally
<1>3. ASSUME NEW i \in 1..b
      PROVE  g[i] = IF Counted(i, s, n)' THEN Plus(g[i - 1], Entry(i)'.ev.delta) ELSE g[i - 1]
  <2>0. i \in 0..b /\ i - 1 \in 0..b
    OBVIOUS
  <2>1. CASE i <= a
    <3>1. i \in 1..a /\ i - 1 <= a
      BY <2>1
    <3>2. g[i] = f[i] /\ g[i - 1] = f[i - 1]
      BY <2>0, <2>1, <3>1
    <3>3. Entry(i)' = Entry(i) /\ (Counted(i, s, n)' <=> Counted(i, s, n))
      BY <3>1 DEF Counted
    <3>. HIDE DEF g
    <3>. QED BY <1>1, <3>1, <3>2, <3>3 DEF IsTally
  <2>2. CASE i > a /\ i < b
    <3>1. i \in (a + 1)..b /\ ~Counted(i, s, n)'
      BY <2>2
    <3>2. g[i] = sum
      BY <2>0, <2>2
    <3>3. g[i - 1] = sum
      <4>1. i - 1 = a \/ (~(i - 1 <= a) /\ i - 1 # b)
        BY <2>2
      <4>. QED BY <1>1, <2>0, <4>1
    <3>. HIDE DEF g
    <3>. QED BY <3>1, <3>2, <3>3
  <2>3. CASE i > a /\ i = b
    <3>1. g[i] = new
      BY <2>0, <2>3
    <3>2. g[i - 1] = sum
      <4>1. i - 1 = a \/ (~(i - 1 <= a) /\ i - 1 # b)
        BY <2>3
      <4>. QED BY <1>1, <2>0, <4>1
    <3>. HIDE DEF g
    <3>. QED BY <2>3, <3>1, <3>2
  <2>. QED BY <2>1, <2>2, <2>3
<1>4. g[b] = new
  BY <1>1
<1>. HIDE DEF g
<1>5. IsTally(g, s, n, b)'
  BY <1>2, <1>3 DEF IsTally
<1>. QED BY <1>4, <1>5 DEF Tallied

\* Every residual is what the frame's events before it add up to, none of them comes
\* after it, and the engine's own sum is that of the frame in work.
BalancedAt(i) ==
  Entry(i).ev.type = "Residual" =>
    Tallied(Entry(i).session, Entry(i).frame, i, Entry(i).ev.counter)
ClosedAt(i, j) ==
  Entry(i).ev.type = "Residual" => ~Counted(j, Entry(i).session, Entry(i).frame)
Balanced == \A i \in 1..Size : BalancedAt(i)
ClosedOff == \A j \in 1..Size : \A i \in 1..(j - 1) : ClosedAt(i, j)
InWork == InFrame => /\ unique \in Counter
                     /\ Tallied(Session, frameSequence, Size, unique)
BalanceInv == GapKnown /\ Balanced /\ ClosedOff /\ InWork

\* What both streams share is in balance still.
LEMMA SharedBalance ==
  ASSUME Balanced, ClosedOff, Size \in Nat, NEW m \in 0..Size,
         \A i \in 1..m : Entry(i)' = Entry(i)
  PROVE  \A j \in 1..m : BalancedAt(j)' /\ \A i \in 1..(j - 1) : ClosedAt(i, j)'
<1>1. ASSUME NEW j \in 1..m PROVE BalancedAt(j)'
  <2>1. j \in 1..Size /\ j \in Nat /\ Entry(j)' = Entry(j) /\ \A i \in 1..j : Entry(i)' = Entry(i)
    OBVIOUS
  <2>2. ASSUME Entry(j).ev.type = "Residual"
        PROVE  Tallied(Entry(j).session, Entry(j).frame, j, Entry(j).ev.counter)'
    <3>1. PICK s, n, c : s = Entry(j).session /\ n = Entry(j).frame /\ c = Entry(j).ev.counter
      OBVIOUS
    <3>2. Tallied(s, n, j, c)
      BY <2>1, <2>2, <3>1 DEF Balanced, BalancedAt
    <3>3. Tallied(s, n, j, c)'
      BY <2>1, <3>2, TallyGoesOn
    <3>. QED BY <2>1, <3>1, <3>3
  <2>. QED BY <2>1, <2>2 DEF BalancedAt
<1>2. ASSUME NEW j \in 1..m, NEW i \in 1..(j - 1) PROVE ClosedAt(i, j)'
  <2>1. j \in 1..Size /\ i \in 1..m /\ ClosedAt(i, j)
    BY DEF ClosedOff
  <2>2. Entry(j)' = Entry(j) /\ Entry(i)' = Entry(i)
    BY <2>1
  <2>. QED BY <2>1, <2>2 DEF ClosedAt, Counted
<1>. QED BY <1>1, <1>2

LEMMA KeptBalance ==
  ASSUME Balanced, ClosedOff, Size \in Nat, Size' \in Nat, Size' <= Size,
         \A i \in 1..Size' : Entry(i)' = Entry(i)
  PROVE  Balanced' /\ ClosedOff'
<1>1. \A m \in 0..Size : (\A i \in 1..m : Entry(i)' = Entry(i)) =>
        \A j \in 1..m : BalancedAt(j)' /\ \A i \in 1..(j - 1) : ClosedAt(i, j)'
  BY SharedBalance
<1>2. \A j \in 1..Size' : BalancedAt(j)' /\ \A i \in 1..(j - 1) : ClosedAt(i, j)'
  BY <1>1
<1>. QED BY <1>2 DEF Balanced, ClosedOff

LEMMA SectionBalance ==
  ASSUME Shape, NumberInv, FrameInv, Balanced, ClosedOff, InWork, SectionTally
  PROVE  Balanced' /\ ClosedOff' /\ InWork'
<1>1. /\ Extends /\ Size \in Nat /\ Size' \in Nat /\ Len(outbox') \in Nat /\ Size <= Size'
      /\ Size' = Size + Len(outbox') /\ Session' = Session /\ frameSequence \in Nat
      /\ \A i \in 1..Size : Entry(i)' = Entry(i) /\ Entry(i).frame \in Nat
  BY SectionStream, StreamParts DEF SectionTally, Extends, Shape, EngineShape
<1>2. \A j \in 1..Size : BalancedAt(j)' /\ \A i \in 1..(j - 1) : ClosedAt(i, j)'
  <2>1. Size \in 0..Size /\ \A i \in 1..Size : Entry(i)' = Entry(i)
    BY <1>1
  <2>2. PICK m \in 0..Size : m = Size
    BY <2>1
  <2>3. \A j \in 1..m : BalancedAt(j)' /\ \A i \in 1..(j - 1) : ClosedAt(i, j)'
    BY <1>1, <2>1, <2>2, SharedBalance
  <2>. QED BY <2>2, <2>3
<1>3. ASSUME NEW j \in (Size + 1)..Size'
      PROVE  /\ j - Size \in 1..Len(outbox') /\ Entry(j)'.ev = outbox'[j - Size].ev
             /\ Entry(j)'.session = Session /\ Entry(j)'.frame = frameSequence'
  BY <1>1 DEF Extends
<1>4. PICK s, n, u, b : /\ s = Session /\ n = frameSequence' /\ u = unique'
                        /\ b = Size' /\ b \in Nat /\ Size <= b
  BY <1>1
<1>. DEFINE NoneOwn == \A j \in (Size + 1)..Size' : ~Own(Entry(j)'.ev)
            Balances == \A j \in (Size + 1)..Size' : BalancedAt(j)'
            Shuts == \A j \in (Size + 1)..Size' : \A i \in 1..(j - 1) : ClosedAt(i, j)'
            GoesOn == InFrame' => u \in Counter /\ Tallied(s, n, b, u)'
<1>5. NoneOwn => Shuts
  BY DEF ClosedAt, Counted
<1>6. (\A j \in (Size + 1)..Size' : Entry(j)'.ev.type # "Residual") => Balances
  BY DEF BalancedAt
<1>7. ASSUME NoneOwn, InFrame, frameSequence' = frameSequence, unique' = unique
      PROVE  u \in Counter /\ Tallied(s, n, b, u)'
  <2>1. Tallied(s, n, Size, u) /\ u \in Counter
    BY <1>4, <1>7 DEF InWork
  <2>2. \A i \in (Size + 1)..b : ~Counted(i, s, n)'
    BY <1>4, <1>7 DEF Counted
  <2>3. u = IF Size < b /\ Counted(b, s, n)' THEN Plus(u, Entry(b)'.ev.delta) ELSE u
    BY <1>1, <1>4, <2>2
  <2>4. Tallied(s, n, b, u)'
    BY <1>1, <1>4, <2>1, <2>2, <2>3, TallyGoesOn
  <2>. QED BY <2>1, <2>4
<1>8. ASSUME Balances, Shuts, GoesOn PROVE Balanced' /\ ClosedOff' /\ InWork'
  <2>1. \A j \in 1..Size' : j \in 1..Size \/ j \in (Size + 1)..Size'
    BY <1>1
  <2>2. Balanced' /\ ClosedOff'
    BY <1>2, <1>8, <2>1 DEF Balanced, ClosedOff
  <2>3. InWork'
    BY <1>1, <1>4, <1>8 DEF InWork
  <2>. QED BY <2>2, <2>3
<1>9. CASE QuietStep /\ unique' = unique
  <2>1. ASSUME NEW j \in (Size + 1)..Size'
        PROVE  Entry(j)'.ev.type \in {"Health", "GapOpened", "GapClosed"}
    BY <1>3, <1>9 DEF QuietStep, Aside
  <2>2. NoneOwn /\ Balances
    BY <1>6, <2>1 DEF Own
  <2>3. InFrame' => InFrame /\ frameSequence' = frameSequence
    BY <1>9 DEF QuietStep, InFrame
  <2>. HIDE DEF NoneOwn, Balances, Shuts
  <2>4. GoesOn
    BY <1>7, <1>9, <2>2, <2>3
  <2>. HIDE DEF GoesOn
  <2>. QED BY <1>5, <1>8, <2>2, <2>4
<1>10. CASE BeginStep /\ unique' = Zero
  <2>1. ASSUME NEW j \in (Size + 1)..Size'
        PROVE  Entry(j)'.ev.type \in {"GapClosed", "EpochBreak"}
    BY <1>3, <1>10 DEF BeginStep
  <2>2. NoneOwn /\ Balances
    BY <1>6, <2>1 DEF Own
  <2>3. pc # "down" /\ n = frameSequence + 1
    BY <1>4, <1>10 DEF BeginStep, Idle
  <2>4. \A i \in 1..Size : ~Counted(i, s, n)'
    <3>1. \A i \in 1..Size : Mine(i) => Entry(i).frame <= frameSequence
      BY <2>3 DEF NumberInv, EngineLeads
    <3>. QED BY <1>1, <1>4, <2>3, <3>1 DEF Counted, Mine
  <2>5. \A i \in 1..Size' : ~Counted(i, s, n)'
    BY <1>1, <2>2, <2>4 DEF Counted
  <2>6. Tallied(s, n, 0, Zero)
    <3>. DEFINE f == [i \in 0..0 |-> Zero]
    <3>1. f[0] = Zero /\ 1..0 = {}
      OBVIOUS
    <3>. HIDE DEF f
    <3>2. IsTally(f, s, n, 0)
      BY <3>1 DEF IsTally
    <3>. QED BY <3>1, <3>2 DEF Tallied
  <2>8. Tallied(s, n, b, Zero)'
    <3>1. 0 \in Nat /\ 0 <= b /\ 1..0 = {}
      BY <1>4
    <3>2. \A i \in (0 + 1)..b : ~Counted(i, s, n)'
      BY <1>4, <2>5
    <3>3. Zero = IF 0 < b /\ Counted(b, s, n)' THEN Plus(Zero, Entry(b)'.ev.delta) ELSE Zero
      BY <1>4, <3>2
    <3>. QED BY <1>4, <2>6, <3>1, <3>2, <3>3, TallyGoesOn
  <2>. HIDE DEF NoneOwn, Balances, Shuts
  <2>9. GoesOn
    BY <1>4, <1>10, <2>8, CounterTypes
  <2>. HIDE DEF GoesOn
  <2>. QED BY <1>5, <1>8, <2>2, <2>9
<1>11. CASE EndStep /\ outbox'[1].ev.counter = unique
  <2>1. /\ Len(outbox') = 1 /\ Size' = Size + 1 /\ InFrame /\ frameSequence' = frameSequence
        /\ ~InFrame' /\ outbox'[1].ev.type = "Residual"
    BY <1>1, <1>11 DEF EndStep, InFrame
  <2>2. PICK j \in Nat : j = Size + 1
    BY <1>1
  <2>3. /\ j \in (Size + 1)..Size' /\ j - Size = 1
        /\ \A k \in (Size + 1)..Size' : k = j
    BY <1>1, <2>1, <2>2
  <2>4. /\ Entry(j)'.ev.type = "Residual" /\ Entry(j)'.ev.counter = unique
        /\ Entry(j)'.session = s /\ Entry(j)'.frame = n
    BY <1>3, <1>4, <1>11, <2>1, <2>3
  <2>5. NoneOwn
    BY <2>3, <2>4 DEF Own
  <2>6. PICK v : v = unique
    OBVIOUS
  <2>7. Tallied(s, n, Size, v)
    BY <1>4, <2>1, <2>6 DEF InWork
  <2>8. \A i \in (Size + 1)..j : ~Counted(i, s, n)'
    BY <1>1, <2>2, <2>3, <2>5 DEF Counted
  <2>9. v = IF Size < j /\ Counted(j, s, n)' THEN Plus(v, Entry(j)'.ev.delta) ELSE v
    BY <1>1, <2>2, <2>8
  <2>10. Tallied(s, n, j, v)'
    BY <1>1, <2>2, <2>7, <2>8, <2>9, TallyGoesOn
  <2>11. BalancedAt(j)'
    BY <2>4, <2>6, <2>10 DEF BalancedAt
  <2>12. Balances
    BY <2>3, <2>11
  <2>. HIDE DEF NoneOwn, Balances, Shuts
  <2>13. GoesOn
    BY <2>1
  <2>. HIDE DEF GoesOn
  <2>. QED BY <1>5, <1>8, <2>5, <2>12, <2>13
<1>12. ASSUME NEW id \in todo, ConnStep(id), Adds, unique' \in Counter
       PROVE  Balanced' /\ ClosedOff' /\ InWork'
  <2>1. InFrame /\ frameSequence' = frameSequence
    BY <1>12 DEF ConnStep, InFrame
  <2>2. ASSUME NEW j \in (Size + 1)..Size'
        PROVE  Entry(j)'.ev.type # "Residual"
    <3>1. outbox'[j - Size].ev.type \in Touches \cup Starts
      BY <1>1, <1>3, <1>12 DEF ConnStep, Touched, Begun, Touches, Starts
    <3>. QED BY <1>3, <3>1 DEF Touches, Starts
  <2>3. Balances
    BY <1>6, <2>2
  <2>4. Shuts
    <3>. SUFFICES ASSUME NEW j \in (Size + 1)..Size', NEW i \in 1..(j - 1),
                         Entry(i)'.ev.type = "Residual",
                         Counted(j, Entry(i).session, Entry(i).frame)'
                  PROVE  FALSE
      BY DEF ClosedAt
    <3>1. i \in 1..Size
      BY <1>1, <2>2
    <3>2. Entry(i)'.session = Session /\ Entry(i)'.frame = frameSequence
      BY <1>3, <2>1 DEF Counted
    <3>3. Ends(i, frameSequence)
      BY <1>1, <3>1, <3>2 DEF Ends, Mine
    <3>. QED BY <2>1, <3>1, <3>3 DEF FrameInv, FrameOpen, HasResidual
  <2>. DEFINE events == [k \in 1..Len(outbox') |-> outbox'[k].ev]
  <2>5. /\ IsSeq(events) /\ Len(events) = Len(outbox')
        /\ \A k \in 1..Len(outbox') : events[k] = outbox'[k].ev
    BY <1>1, SeqMade
  <2>6. /\ \A k \in 1..Len(outbox') : Own(outbox'[k].ev) => k = Len(outbox')
        /\ u = IF Len(outbox') > 0 /\ Own(outbox'[Len(outbox')].ev)
                 THEN Plus(unique, outbox'[Len(outbox')].ev.delta) ELSE unique
    <3>. HIDE DEF events
    <3>1. Credits(events, unique, u)
      BY <1>4, <1>12 DEF Adds, events
    <3>. QED BY <1>1, <2>5, <3>1 DEF Credits
  <2>7. PICK v : v = unique
    OBVIOUS
  <2>8. Tallied(s, n, Size, v)
    BY <1>4, <2>1, <2>7 DEF InWork
  <2>10. \A i \in (Size + 1)..b : /\ Counted(i, s, n)' <=> Own(outbox'[i - Size].ev)
                                  /\ Entry(i)'.ev = outbox'[i - Size].ev
                                  /\ i - Size \in 1..Len(outbox')
    BY <1>3, <1>4 DEF Counted
  <2>11. \A i \in (Size + 1)..b : Counted(i, s, n)' => i = b
    <3>. HIDE DEF events
    <3>. SUFFICES ASSUME NEW i \in (Size + 1)..b, Counted(i, s, n)' PROVE i = b
      OBVIOUS
    <3>1. i - Size = Len(outbox')
      BY <2>6, <2>10
    <3>. QED BY <1>1, <1>4, <3>1
  <2>12. u = IF Size < b /\ Counted(b, s, n)' THEN Plus(v, Entry(b)'.ev.delta) ELSE v
    <3>1. b - Size = Len(outbox') /\ (Size < b <=> Len(outbox') > 0)
      BY <1>1, <1>4
    <3>2. CASE Size < b
      <4>1. b \in (Size + 1)..b
        BY <1>1, <1>4, <3>2
      <4>2. /\ Counted(b, s, n)' <=> Own(outbox'[Len(outbox')].ev)
            /\ Entry(b)'.ev = outbox'[Len(outbox')].ev
        BY <2>10, <3>1, <4>1
      <4>. QED BY <2>6, <2>7, <3>1, <3>2, <4>2
    <3>3. CASE ~(Size < b)
      BY <2>6, <2>7, <3>1, <3>3
    <3>. QED BY <3>2, <3>3
  <2>13. Tallied(s, n, b, u)'
    BY <1>1, <1>4, <2>8, <2>11, <2>12, TallyGoesOn
  <2>. HIDE DEF Balances, Shuts
  <2>14. GoesOn
    BY <1>4, <1>12, <2>13
  <2>. HIDE DEF GoesOn
  <2>. QED BY <1>8, <2>3, <2>4, <2>14
<1>13. ASSUME NEW id \in DOMAIN activeMap, GoneStep(id), unique' = unique
       PROVE  Balanced' /\ ClosedOff' /\ InWork'
  <2>1. Len(outbox') = 1 /\ outbox'[1].ev.type = "Disappeared" /\ frameSequence' = frameSequence
        /\ InFrame
    BY <1>13 DEF GoneStep, InFrame
  <2>2. ASSUME NEW j \in (Size + 1)..Size' PROVE Entry(j)'.ev.type = "Disappeared"
    <3>1. j - Size = 1
      BY <1>1, <2>1
    <3>. QED BY <1>3, <2>1, <3>1
  <2>3. NoneOwn /\ Balances
    BY <1>6, <2>2 DEF Own
  <2>. HIDE DEF NoneOwn, Balances, Shuts
  <2>4. GoesOn
    BY <1>7, <1>13, <2>1, <2>3
  <2>. HIDE DEF GoesOn
  <2>. QED BY <1>5, <1>8, <2>3, <2>4
<1>. HIDE DEF NoneOwn, Balances, Shuts, GoesOn
<1>. QED BY <1>9, <1>10, <1>11, <1>12, <1>13 DEF SectionTally

LEMMA BalanceNext ==
  ASSUME IInv, ValueInv, BalanceInv, [Next]_vars
  PROVE  BalanceInv'
<1>1. Shape /\ NumberInv /\ FrameInv /\ ConnsTyped /\ Moment
  BY DEF IInv, ValueInv
<1>2. GapKnown'
  BY <1>1, GapKnownNext DEF BalanceInv
<1>3. CASE WorldStep \/ EmitSucceeds
  <2>1. Cut /\ UNCHANGED <<pc, frameSequence, unique>>
    BY <1>1, <1>3, CutStream
       DEF WorldStep, engineVars, seqVars, frameVars, EmitSucceeds
  <2>2. Size' = Size /\ Size \in Nat /\ Session' = Session
    BY <1>1, <1>3, <2>1, TakenStream, StreamParts DEF WorldStep, engineVars, Size, Cut
  <2>3. Balanced' /\ ClosedOff'
    BY <2>1, <2>2, KeptBalance DEF Cut, BalanceInv
  <2>4. ASSUME InFrame
        PROVE  unique \in Counter /\ Tallied(Session, frameSequence, Size, unique)'
    <3>1. PICK s, n, u, b : s = Session /\ n = frameSequence /\ u = unique /\ b = Size
      OBVIOUS
    <3>2. Tallied(s, n, b, u) /\ u \in Counter /\ b \in Nat
      BY <2>2, <2>4, <3>1 DEF BalanceInv, InWork
    <3>3. Tallied(s, n, b, u)'
      BY <2>1, <2>2, <3>1, <3>2, TallyGoesOn DEF Cut
    <3>. QED BY <2>1, <2>2, <3>1, <3>2, <3>3
  <2>5. InWork'
    BY <2>1, <2>4 DEF InWork, InFrame
  <2>. QED BY <1>2, <2>3, <2>5 DEF BalanceInv
<1>4. CASE BeginRun \/ EndRun \/ Killed \/ EmitFails
  <2>1. ~InFrame'
    BY <1>4 DEF BeginRun, EndRun, Killed, Exits, EngineReplaced, EmitFails, SinkFails, InFrame
  <2>2. Size \in Nat /\ Size' \in Nat /\ Size' <= Size /\ \A i \in 1..Size' : Entry(i)' = Entry(i)
    <3>1. CASE BeginRun
      <4>1. journal' = journal /\ outbox' = << >> /\ Len(journal) \in Nat /\ Len(outbox) \in Nat
        BY <1>1, <3>1, StreamParts
           DEF BeginRun, BeginSession, FirstSession, NextSession, EngineReplaced
      <4>2. Size' = Len(journal) /\ Size \in Nat /\ Len(journal) <= Size
        BY <4>1, ShortSeqs DEF Size
      <4>3. \A i \in 1..Size' : i <= Len(journal) /\ i <= Len(journal)'
        BY <4>1, <4>2
      <4>. QED BY <4>1, <4>2, <4>3 DEF Entry
    <3>2. CASE EndRun \/ Killed \/ EmitFails
      BY <1>1, <3>2, CutStream, StreamParts DEF Cut
    <3>. QED BY <1>4, <3>1, <3>2
  <2>. QED BY <1>2, <2>1, <2>2, KeptBalance DEF BalanceInv, InWork
<1>5. CASE StopRun \/ StreamLost \/ Health \/ FrameArrives \/ FrameContinues
  <2>1. SectionTally
    BY <1>1, <1>5, SectionTallies DEF BalanceInv, InWork
  <2>. QED BY <1>1, <1>2, <2>1, SectionBalance DEF BalanceInv
<1>. QED BY <1>1, <1>3, <1>4, <1>5, WorldSteps DEF Next

\* At every moment the residuals in the stream set off what was counted for their
\* frames, and the frame in work has counted what its events in the stream say.
THEOREM FramesInBalance == Spec => []BalanceInv
<1>1. Init => BalanceInv
  <2>. SUFFICES ASSUME Init PROVE BalanceInv
    OBVIOUS
  <2>1. /\ pc = "down" /\ ~gapIsOpen /\ journal = << >> /\ outbox = << >>
    BY DEF Init, StoreInit, EngineInit
  <2>2. Size = 0
    BY <2>1, ShortSeqs DEF Size
  <2>. QED BY <2>1, <2>2
           DEF BalanceInv, GapKnown, Balanced, ClosedOff, InWork, InFrame
<1>2. IInv /\ ValueInv /\ BalanceInv /\ [Next]_vars => BalanceInv'
  BY BalanceNext
<1>. QED BY <1>1, <1>2, StreamInOrder, RowsInStep, PTL DEF Spec

\* The least element of a set of numbers.
LEMMA FirstOf ==
  ASSUME NEW S \in SUBSET Nat, S # {}
  PROVE  \E n \in S : \A m \in Nat : m < n => m \notin S
<1>1. IsWellFoundedOn(OpToRel(<, Nat), Nat)
  BY NatLessThanWellFounded
<1>2. PICK n \in S : \A k \in S : ~(<<k, n>> \in OpToRel(<, Nat))
  BY <1>1, WFMin
<1>3. ASSUME NEW m \in Nat, m < n PROVE m \notin S
  BY <1>2, <1>3 DEF OpToRel
<1>. QED BY <1>3

\* A residual sets off exactly what counts for its frame (engine.go 1193-1213): it is
\* taken when the last of it is in the stream, and nothing of the frame follows.
THEOREM ResidualsBalance == Spec => []ResidualBalances
<1>1. ASSUME IInv, BalanceInv PROVE ResidualBalances
  <2>1. /\ Len(journal) \in Nat /\ DOMAIN journal = 1..Len(journal)
        /\ Len(journal) <= Size /\ Size \in Nat
        /\ \A i \in 1..Len(journal) : Entry(i) = journal[i]
    <3>1. IsSeq(journal) /\ Len(journal) \in Nat /\ Len(outbox) \in Nat
      BY <1>1, StreamParts DEF IInv, Shape, JournalShape
    <3>. QED BY <3>1, SeqParts DEF Size, Entry
  <2>. SUFFICES ASSUME NEW i \in 1..Len(journal), journal[i].ev.type = "Residual"
                PROVE  journal[i].ev.counter = Attributed(journal[i])
    BY <2>1 DEF ResidualBalances
  <2>. DEFINE L == Len(journal)
              r == journal[i]
              Body(sum) == [n \in 0..L |->
                IF n = 0 THEN Zero
                ELSE IF CountsFor(journal[n], r) THEN Plus(sum[n - 1], journal[n].ev.delta)
                ELSE sum[n - 1]]
              whole == CHOOSE sum : sum = Body(sum)
  <2>2. PICK f : IsTally(f, r.session, r.frame, i) /\ f[i] = r.ev.counter
    BY <1>1, <2>1 DEF BalanceInv, Balanced, BalancedAt, Tallied
  <2>3. \A n \in 1..L : CountsFor(journal[n], r) <=> Counted(n, r.session, r.frame)
    BY <2>1 DEF CountsFor, Counted, Own
  <2>4. \A n \in (i + 1)..L : ~CountsFor(journal[n], r)
    <3>1. ASSUME NEW n \in (i + 1)..L PROVE ~Counted(n, r.session, r.frame)
      <4>1. n \in 1..Size /\ i \in 1..(n - 1) /\ Entry(i) = r
        BY <2>1
      <4>. QED BY <1>1, <4>1 DEF BalanceInv, ClosedOff, ClosedAt
    <3>. QED BY <2>1, <2>3, <3>1
  <2>5. Attributed(r) = whole[L]
    BY Zenon DEF Attributed
  <2>. DEFINE h == [n \in 0..L |-> IF n <= i THEN f[n] ELSE f[i]]
  <2>6. h = Body(h)
    <3>1. ASSUME NEW n \in 0..L
          PROVE  h[n] = IF n = 0 THEN Zero
                        ELSE IF CountsFor(journal[n], r)
                          THEN Plus(h[n - 1], journal[n].ev.delta)
                        ELSE h[n - 1]
      <4>1. CASE n = 0
        BY <2>1, <2>2, <4>1 DEF IsTally
      <4>2. CASE n # 0 /\ n <= i
        <5>1. n \in 1..i /\ n \in 1..L /\ n - 1 \in 0..L /\ n - 1 <= i
          BY <2>1, <4>2
        <5>2. h[n] = f[n] /\ h[n - 1] = f[n - 1] /\ Entry(n) = journal[n]
          BY <2>1, <4>2, <5>1
        <5>. HIDE DEF h
        <5>. QED BY <2>2, <2>3, <4>2, <5>1, <5>2 DEF IsTally
      <4>3. CASE n > i
        <5>1. n \in (i + 1)..L /\ n - 1 \in 0..L /\ n - 1 >= i /\ n # 0
          BY <2>1, <4>3
        <5>2. h[n] = f[i] /\ h[n - 1] = f[i]
          BY <2>1, <4>3, <5>1
        <5>. HIDE DEF h
        <5>. QED BY <2>4, <5>1, <5>2
      <4>. QED BY <2>1, <4>1, <4>2, <4>3
    <3>2. h = [n \in 0..L |-> h[n]]
      OBVIOUS
    <3>. HIDE DEF h
    <3>. QED BY <3>1, <3>2
  <2>7. whole = Body(whole)
    <3>. HIDE DEF h, Body
    <3>. QED BY <2>6 DEF whole
  <2>8. \A n \in 0..L : whole[n] = h[n]
    <3>. DEFINE S == {n \in 0..L : whole[n] # h[n]}
    <3>. SUFFICES ASSUME S # {} PROVE FALSE
      OBVIOUS
    <3>. HIDE DEF whole, h
    <3>1. PICK n \in S : \A m \in Nat : m < n => m \notin S
      <4>1. S \in SUBSET Nat
        BY <2>1
      <4>. HIDE DEF S
      <4>. QED BY <4>1, FirstOf
    <3>2. n \in 0..L /\ whole[n] # h[n]
      OBVIOUS
    <3>3. n # 0 => n - 1 \in 0..L /\ whole[n - 1] = h[n - 1]
      BY <2>1, <3>1, <3>2
    <3>4. \A g : g = Body(g) =>
            g[n] = IF n = 0 THEN Zero
                   ELSE IF CountsFor(journal[n], r) THEN Plus(g[n - 1], journal[n].ev.delta)
                   ELSE g[n - 1]
      BY <3>2
    <3>. HIDE DEF Body
    <3>. QED BY <2>6, <2>7, <3>2, <3>3, <3>4
  <2>9. h[L] = f[i]
    BY <2>1
  <2>. QED BY <2>1, <2>2, <2>5, <2>8, <2>9
<1>. QED BY <1>1, StreamInOrder, FramesInBalance, PTL

-----------------------------------------------------------------------------
(* The journal replayed: what the projections of the store were made from. *)

\* Entries are recorded in the order a rebuild replays them in.
Sorted == \A j \in 1..Len(journal) : \A i \in 1..(j - 1) : Before(journal[i], journal[j])

IsMap(f) == f = [k \in DOMAIN f |-> f[k]]

\* A row once its session is over, if it was open then.
OverAt(ses) == IF ses.status = "interrupted"
                 THEN FirstKnown(ses.lastEventAt, ses.endedAt, ses.startedAt)
               ELSE FirstKnown(ses.endedAt, ses.lastEventAt, ses.startedAt)
OverRow(row, ses) ==
  IF ses.status # "running" /\ row.endedAt = NoTime
    THEN [row EXCEPT !.endedAt = OverAt(ses), !.reason = EndReason(ses.status)] ELSE row

\* p is what the journal makes of the projections, entry by entry; a gap that is
\* closed is the only one open.
IsReplay(p) ==
  /\ p[0] = [rows |-> << >>, gaps |-> BoundaryGaps]
  /\ \A i \in 1..Len(journal) :
       /\ p[i] = Project(p[i - 1], journal[i])
       /\ journal[i].ev.type = "GapClosed" =>
            \E g : g.from \in Nat /\ OpenStreamGaps(p[i - 1].gaps, journal[i].session) = {g}

\* The rows of the store are those, but for what sessions that are over have ended.
RowsOf(rows) ==
  /\ IsMap(rows) /\ IsMap(store.rows) /\ DOMAIN store.rows = DOMAIN rows
  /\ \A k \in DOMAIN rows : store.rows[k] = OverRow(rows[k], sessions[k[1]])
ReplayInv ==
  /\ Sorted
  /\ \E p : /\ IsReplay(p) /\ RowsOf(p[Len(journal)].rows)
            /\ store.gaps = p[Len(journal)].gaps

\* An event makes the same of the rows of its session, whatever the others are.
LEMMA SameProjection ==
  ASSUME NEW a, NEW b, NEW e, IsMap(a), IsMap(b), DOMAIN a = DOMAIN b,
         \A k \in DOMAIN a : k[1] = e.session => a[k] = b[k]
  PROVE  /\ IsMap(ProjectRows(a, e)) /\ IsMap(ProjectRows(b, e))
         /\ DOMAIN ProjectRows(a, e) = DOMAIN ProjectRows(b, e)
         /\ \A k \in DOMAIN ProjectRows(a, e) :
              IF k[1] = e.session THEN ProjectRows(a, e)[k] = ProjectRows(b, e)[k]
              ELSE /\ k \in DOMAIN a
                   /\ ProjectRows(a, e)[k] = a[k] /\ ProjectRows(b, e)[k] = b[k]
<1>. DEFINE A == ProjectRows(a, e)
            B == ProjectRows(b, e)
            Goal(f, g) == /\ IsMap(f) /\ IsMap(g) /\ DOMAIN f = DOMAIN g
                          /\ \A k \in DOMAIN f :
                               IF k[1] = e.session THEN f[k] = g[k]
                               ELSE k \in DOMAIN a /\ f[k] = a[k] /\ g[k] = b[k]
<1>0. Key(e)[1] = e.session
  BY DEF Key
<1>1. PICK key : key = Key(e) /\ key[1] = e.session
  BY <1>0
<1>2. CASE e.ev.type \in {"Bootstrap", "New"}
  <2>1. PICK u, v : /\ A = With(a, key, u) /\ B = With(b, key, v) /\ u = v
    <3>1. CASE e.ev.type = "New"
      BY <1>1, <3>1 DEF ProjectRows
    <3>2. CASE e.ev.type = "Bootstrap"
      BY <1>1, <3>2 DEF ProjectRows, BootstrapRow
    <3>. QED BY <1>2, <3>1, <3>2
  <2>. HIDE DEF A, B
  <2>2. /\ DOMAIN A = DOMAIN a \cup {key} /\ DOMAIN B = DOMAIN A
        /\ IsMap(A) /\ IsMap(B)
        /\ \A k \in DOMAIN A : /\ A[k] = IF k = key THEN u ELSE a[k]
                               /\ B[k] = IF k = key THEN u ELSE b[k]
    BY <2>1 DEF With, IsMap
  <2>3. Goal(A, B)
    BY <1>1, <2>2
  <2>. QED BY <2>3 DEF A, B
<1>3. CASE e.ev.type = "EpochBreak"
  <2>. DEFINE Ending(f, k) == IF k \in OfEpoch(f, e.session, e.epoch) /\ f[k].endedAt = NoTime
                              THEN [f[k] EXCEPT !.endedAt = e.ev.ts, !.reason = "epoch_boundary"]
                            ELSE f[k]
  <2>1. /\ A = [k \in DOMAIN a |-> Ending(a, k)]
        /\ B = [k \in DOMAIN b |-> Ending(b, k)]
    BY <1>3 DEF ProjectRows, EndObservations
  <2>2. \A k \in DOMAIN a : IF k[1] = e.session THEN Ending(a, k) = Ending(b, k)
                            ELSE Ending(a, k) = a[k] /\ Ending(b, k) = b[k]
    BY DEF OfEpoch, OfSession
  <2>. HIDE DEF A, B, Ending
  <2>3. /\ DOMAIN A = DOMAIN a /\ DOMAIN B = DOMAIN a /\ IsMap(A) /\ IsMap(B)
        /\ \A k \in DOMAIN a : A[k] = Ending(a, k) /\ B[k] = Ending(b, k)
    BY <2>1 DEF IsMap
  <2>4. Goal(A, B)
    BY <2>2, <2>3
  <2>. QED BY <2>4 DEF A, B
<1>4. CASE e.ev.type \notin {"Bootstrap", "New", "EpochBreak"}
  <2>. DEFINE Upd(f) == IF key \in DOMAIN f THEN [f EXCEPT ![key] = UpdatedRow(f[key], e)] ELSE f
  <2>1. A = Upd(a) /\ B = Upd(b)
    BY <1>1, <1>4 DEF ProjectRows
  <2>. HIDE DEF A, B
  <2>2. CASE key \in DOMAIN a
    <3>1. PICK u, v : u = UpdatedRow(a[key], e) /\ v = UpdatedRow(b[key], e)
      OBVIOUS
    <3>2. u = v
      BY <1>1, <2>2, <3>1
    <3>3. A = [a EXCEPT ![key] = u] /\ B = [b EXCEPT ![key] = u]
      BY <2>1, <2>2, <3>1, <3>2
    <3>4. /\ DOMAIN A = DOMAIN a /\ DOMAIN B = DOMAIN a /\ IsMap(A) /\ IsMap(B)
          /\ \A k \in DOMAIN a : /\ A[k] = IF k = key THEN u ELSE a[k]
                                 /\ B[k] = IF k = key THEN u ELSE b[k]
      BY <3>3 DEF IsMap
    <3>5. Goal(A, B)
      BY <1>1, <3>4
    <3>. QED BY <3>5 DEF A, B
  <2>3. CASE key \notin DOMAIN a
    <3>1. A = a /\ B = b
      BY <2>1, <2>3
    <3>2. Goal(A, B)
      BY <3>1
    <3>. QED BY <3>2 DEF A, B
  <2>. QED BY <2>2, <2>3
<1>. QED BY <1>2, <1>3, <1>4

\* A boundary gap makes no difference to what is said of the stream's.
LEMMA BoundaryApart ==
  ASSUME NEW gaps, NEW e, NEW b, b.source # "controller_stream",
         e.ev.type = "GapClosed" =>
           \E g : g.from \in Nat /\ OpenStreamGaps(gaps, e.session) = {g}
  PROVE  /\ ProjectGaps(gaps \cup {b}, e) = ProjectGaps(gaps, e) \cup {b}
         /\ OpenStreamGaps(gaps \cup {b}, e.session) = OpenStreamGaps(gaps, e.session)
<1>1. OpenStreamGaps(gaps \cup {b}, e.session) = OpenStreamGaps(gaps, e.session)
  BY DEF OpenStreamGaps
<1>2. CASE e.ev.type = "GapClosed"
  <2>1. PICK g : g.from \in Nat /\ OpenStreamGaps(gaps, e.session) = {g}
    BY <1>2
  <2>. DEFINE last == CHOOSE x \in {g} : \A h \in {g} : h.from <= x.from
  <2>2. last = g
    <3>1. \A h \in {g} : h.from <= g.from
      BY <2>1
    <3>. QED BY <3>1
  <2>3. /\ ProjectGaps(gaps, e) = (gaps \ {last}) \cup {[last EXCEPT !.to = e.ev.ts]}
        /\ ProjectGaps(gaps \cup {b}, e)
             = ((gaps \cup {b}) \ {last}) \cup {[last EXCEPT !.to = e.ev.ts]}
    BY <1>1, <1>2, <2>1 DEF ProjectGaps
  <2>. HIDE DEF last
  <2>4. b # g
    BY <2>1 DEF OpenStreamGaps
  <2>. QED BY <1>1, <2>2, <2>3, <2>4
<1>3. CASE e.ev.type # "GapClosed"
  BY <1>1, <1>3 DEF ProjectGaps
<1>. QED BY <1>2, <1>3

\* The entry added is after all there are.
LEMMA SortedTaken ==
  ASSUME Shape, NumberInv, Sorted, EmitSucceeds
  PROVE  Sorted'
<1>1. /\ Len(journal) \in Nat /\ Len(journal') = Len(journal) + 1
      /\ journal'[Len(journal) + 1] = Offered
      /\ \A i \in 1..Len(journal) : journal'[i] = journal[i]
      /\ outbox # << >>
  BY TakenOutbox, StreamParts DEF EmitSucceeds, SinkTakes
<1>2. PICK l : l = Len(journal) + 1
  OBVIOUS
<1>3. /\ l \in 1..Size /\ Mine(l) /\ Entry(l) = Offered /\ Offered.session = Session
      /\ \A i \in 1..Len(journal) : /\ i \in 1..Size /\ i < l /\ Entry(i) = journal[i]
                                    /\ Mine(i) <=> journal[i].session = Session
  BY <1>1, <1>2, OfferedEntry
<1>4. ASSUME NEW i \in 1..Len(journal) PROVE Before(journal[i], Offered)
  <2>1. /\ Entry(i).epoch \in Nat /\ Entry(i).frame \in Nat /\ Entry(i).seq \in Nat
        /\ Entry(l).epoch \in Nat /\ Entry(l).frame \in Nat /\ Entry(l).seq \in Nat
        /\ Entry(i).session \in 1..Session /\ Session \in Nat
    BY <1>3, StreamParts, SessionCount
  <2>2. CASE journal[i].session = Session
    <3>1. /\ Entry(i).epoch <= Entry(l).epoch /\ Entry(i).frame <= Entry(l).frame
          /\ Entry(i).frame = Entry(l).frame => Entry(i).seq < Entry(l).seq
      BY <1>3, <2>2 DEF NumberInv, NumbersRise
    <3>. QED BY <1>3, <2>1, <2>2, <3>1 DEF Before
  <2>3. CASE journal[i].session # Session
    BY <1>3, <2>1, <2>3 DEF Before
  <2>. QED BY <2>2, <2>3
<1>5. ASSUME NEW j \in 1..Len(journal'), NEW i \in 1..(j - 1)
      PROVE  Before(journal'[i], journal'[j])
  <2>1. i \in 1..Len(journal) /\ (j = Len(journal) + 1 \/ j \in 1..Len(journal))
    BY <1>1
  <2>. QED BY <1>1, <1>4, <2>1 DEF Sorted
<1>. QED BY <1>5 DEF Sorted

LEMMA ReplayTaken ==
  ASSUME IInv, ValueInv, GapTimes, ReplayInv, EmitSucceeds
  PROVE  ReplayInv'
<1>0. /\ Shape /\ NumberInv /\ Moment /\ SessionsTyped /\ RowsKeyed /\ GapsTyped /\ OneGap
  BY DEF IInv, ValueInv, GapTimes
<1>1. /\ Len(journal) \in Nat /\ Len(journal') = Len(journal) + 1
      /\ journal'[Len(journal) + 1] = Offered /\ Offered.ev = outbox[1].ev
      /\ \A i \in 1..Len(journal) : journal'[i] = journal[i]
      /\ Offered.session = Session
  BY <1>0, TakenOutbox, StreamParts
<1>2. /\ store'.rows = ProjectRows(store.rows, Offered)
      /\ store'.gaps = ProjectGaps(store.gaps, Offered)
      /\ Projectable(store, Offered)
  BY DEF EmitSucceeds, Record, Project, Acceptable
<1>3. /\ Session \in 1..Session /\ sessions'[Session].status = "running"
      /\ sessions[Session].status = "running"
      /\ \A s \in 1..(Session - 1) : sessions'[s] = sessions[s]
  <2>1. Session \in 1..Session /\ sessions'[Session].status = sessions[Session].status
    BY <1>0, RecordSessions
  <2>2. pc # "down"
    BY <1>0, RecordSessions
  <2>. QED BY <1>0, <2>1, <2>2, TakenSession DEF Shape, SessionsShape, Running
<1>4. PICK p : /\ IsReplay(p) /\ RowsOf(p[Len(journal)].rows)
               /\ store.gaps = p[Len(journal)].gaps
  BY DEF ReplayInv
<1>l. PICK l \in Nat : l = Len(journal) /\ Len(journal') = l + 1
  BY <1>1
<1>q. PICK q : q = Project(p[l], Offered)
  OBVIOUS
<1>r. PICK r : r = [i \in 0..(l + 1) |-> IF i <= l THEN p[i] ELSE q]
  OBVIOUS
<1>5. BoundaryGaps' = BoundaryGaps
  <2>1. GapTaken
    BY <1>0, TakesGap
  <2>2. SentGap.source = "controller_stream"
    BY DEF SentGap
  <2>3. \A g \in OpenGaps : /\ g.source = "controller_stream"
                            /\ ClosedNow(g).source = "controller_stream"
    <3>. SUFFICES ASSUME NEW g \in OpenGaps
                  PROVE  /\ g.source = "controller_stream"
                         /\ ClosedNow(g).source = "controller_stream"
      OBVIOUS
    <3>1. g \in GapRow /\ g.source = "controller_stream" /\ clock \in Nat
      BY <1>0 DEF OpenGaps, OpenStreamGaps, GapsTyped, Moment
    <3>. QED BY <3>1, ClosedNowRow
  <2>. QED BY <2>1, <2>2, <2>3 DEF GapTaken, BoundaryGaps
<1>6. r[0] = p[0] /\ r[l + 1] = q /\ \A i \in 1..l : r[i] = p[i] /\ r[i - 1] = p[i - 1]
      /\ r[l] = p[l]
  BY <1>r, <1>l
<1>7. IsReplay(r)'
  <2>1. r[0] = [rows |-> << >>, gaps |-> BoundaryGaps']
    BY <1>4, <1>5, <1>6 DEF IsReplay
  <2>2. ASSUME NEW i \in 1..(l + 1)
        PROVE  /\ r[i] = Project(r[i - 1], journal'[i])
               /\ journal'[i].ev.type = "GapClosed" =>
                    \E g : /\ g.from \in Nat
                           /\ OpenStreamGaps(r[i - 1].gaps, journal'[i].session) = {g}
    <3>1. CASE i \in 1..l
      BY <1>1, <1>l, <1>4, <1>6, <3>1 DEF IsReplay
    <3>2. CASE i = l + 1
      <4>1. i - 1 = l /\ journal'[i] = Offered
        BY <1>1, <1>l, <3>2
      <4>2. r[i] = Project(r[i - 1], journal'[i])
        BY <1>6, <1>q, <3>2, <4>1
      <4>3. ASSUME Offered.ev.type = "GapClosed"
            PROVE  \E g : g.from \in Nat /\ OpenStreamGaps(store.gaps, Session) = {g}
        <5>1. OpenGaps # {}
          BY <1>1, <1>2, <4>3 DEF Projectable, OpenGaps
        <5>2. PICK g \in OpenGaps : TRUE
          BY <5>1
        <5>3. OpenGaps = {g}
          BY <1>0, <5>2 DEF OneGap
        <5>4. g.from \in Nat
          BY <1>0 DEF OpenGaps, OpenStreamGaps, GapsTyped, GapRow
        <5>. QED BY <5>3, <5>4 DEF OpenGaps
      <4>. QED BY <1>1, <1>l, <1>4, <1>6, <4>1, <4>2, <4>3
    <3>. QED BY <1>l, <3>1, <3>2
  <2>. QED BY <1>l, <2>1, <2>2 DEF IsReplay
<1>8. r[Len(journal')] = q /\ store'.gaps = q.gaps /\ q.rows = ProjectRows(p[l].rows, Offered)
  BY <1>l, <1>q, <1>2, <1>4, <1>6 DEF Project
<1>9. RowsOf(q.rows)'
  <2>. DEFINE a == store.rows
              b == p[l].rows
              A == ProjectRows(a, Offered)
              B == ProjectRows(b, Offered)
  <2>1. IsMap(a) /\ IsMap(b) /\ DOMAIN a = DOMAIN b
    BY <1>4, <1>l DEF RowsOf
  <2>2. \A k \in DOMAIN a : a[k] = OverRow(b[k], sessions[k[1]])
    BY <1>4, <1>l DEF RowsOf
  <2>3. \A k \in DOMAIN a : k[1] = Session => a[k] = b[k]
    BY <1>3, <2>2 DEF OverRow
  <2>. HIDE DEF a, b
  <2>4. /\ IsMap(A) /\ IsMap(B) /\ DOMAIN A = DOMAIN B
        /\ \A k \in DOMAIN A : IF k[1] = Session THEN A[k] = B[k]
                               ELSE k \in DOMAIN a /\ A[k] = a[k] /\ B[k] = b[k]
    BY <1>1, <2>1, <2>3, SameProjection
  <2>. HIDE DEF A, B
  <2>5. ASSUME NEW k \in DOMAIN B PROVE A[k] = OverRow(B[k], sessions'[k[1]])
    <3>1. CASE k[1] = Session
      BY <1>3, <2>4, <3>1 DEF OverRow
    <3>2. CASE k[1] # Session
      <4>1. k \in DOMAIN a /\ A[k] = a[k] /\ B[k] = b[k]
        BY <2>4, <3>2
      <4>2. k[1] \in 1..(Session - 1)
        BY <1>0, <1>3, <3>2, <4>1 DEF RowsKeyed, a
      <4>. QED BY <1>3, <2>2, <4>1, <4>2
    <3>. QED BY <3>1, <3>2
  <2>6. store'.rows = A /\ q.rows = B
    BY <1>2, <1>8 DEF A, B, a, b
  <2>. QED BY <2>4, <2>5, <2>6 DEF RowsOf
<1>10. Sorted'
  BY <1>0, SortedTaken DEF ReplayInv
<1>. QED BY <1>l, <1>7, <1>8, <1>9, <1>10 DEF ReplayInv

\* What leaves the journal and the boundary gaps alone leaves the replay.
LEMMA SameReplay ==
  ASSUME NEW p, IsReplay(p), UNCHANGED journal, BoundaryGaps' = BoundaryGaps
  PROVE  IsReplay(p)'
BY DEF IsReplay

LEMMA SameSorted ==
  ASSUME Sorted, UNCHANGED journal
  PROVE  Sorted'
BY DEF Sorted

LEMMA QuietReplay ==
  ASSUME ValueInv, ReplayInv, UNCHANGED <<journal, store>>,
         \A s \in 1..Session : \/ sessions'[s] = sessions[s]
                               \/ sessions'[s] = [sessions[s] EXCEPT !.heartbeatAt = clock']
  PROVE  ReplayInv'
<1>0. SessionsTyped /\ RowsKeyed
  BY DEF ValueInv
<1>1. PICK p : /\ IsReplay(p) /\ RowsOf(p[Len(journal)].rows)
               /\ store.gaps = p[Len(journal)].gaps
  BY DEF ReplayInv
<1>2. PICK rows : rows = p[Len(journal)].rows
  OBVIOUS
<1>3. ASSUME NEW k \in DOMAIN rows
      PROVE  OverRow(rows[k], sessions'[k[1]]) = OverRow(rows[k], sessions[k[1]])
  <2>1. k[1] \in 1..Session
    BY <1>0, <1>1, <1>2 DEF RowsKeyed, RowsOf
  <2>2. PICK ses, new : ses = sessions[k[1]] /\ new = sessions'[k[1]]
    OBVIOUS
  <2>3. ses \in SessionRow
    BY <1>0, <2>1, <2>2 DEF SessionsTyped
  <2>4. /\ new.status = ses.status /\ new.endedAt = ses.endedAt
        /\ new.lastEventAt = ses.lastEventAt /\ new.startedAt = ses.startedAt
    BY <2>1, <2>2, <2>3 DEF SessionRow
  <2>5. OverRow(rows[k], new) = OverRow(rows[k], ses)
    BY <2>4 DEF OverRow, OverAt
  <2>. QED BY <2>2, <2>5
<1>4. RowsOf(rows)'
  BY <1>1, <1>2, <1>3 DEF RowsOf
<1>5. IsReplay(p)' /\ Sorted'
  BY <1>1, SameReplay, SameSorted DEF ReplayInv, BoundaryGaps
<1>. QED BY <1>1, <1>2, <1>4, <1>5 DEF ReplayInv

\* A session that is over has ended its rows as a rebuild would.
LEMMA EndedReplay ==
  ASSUME RowsKeyed, NEW rows, RowsOf(rows), NEW at, NEW reason, Session \in Nat,
         store'.rows = EndObservations(store.rows, OfSession(store.rows, Session), at, reason),
         sessions[Session].status = "running", sessions'[Session].status # "running",
         OverAt(sessions'[Session]) = at, EndReason(sessions'[Session].status) = reason,
         \A s \in 1..(Session - 1) : sessions'[s] = sessions[s]
  PROVE  RowsOf(rows)'
<1>1. /\ IsMap(rows) /\ DOMAIN store.rows = DOMAIN rows
      /\ \A k \in DOMAIN rows : store.rows[k] = OverRow(rows[k], sessions[k[1]])
  BY DEF RowsOf
<1>2. IsMap(store'.rows) /\ DOMAIN store'.rows = DOMAIN rows
  BY <1>1 DEF EndObservations, IsMap
<1>3. ASSUME NEW k \in DOMAIN rows PROVE store'.rows[k] = OverRow(rows[k], sessions'[k[1]])
  <2>1. store'.rows[k] = IF k[1] = Session /\ store.rows[k].endedAt = NoTime
                           THEN [store.rows[k] EXCEPT !.endedAt = at, !.reason = reason]
                         ELSE store.rows[k]
    BY <1>1 DEF EndObservations, OfSession
  <2>2. CASE k[1] = Session
    <3>1. store.rows[k] = rows[k]
      BY <1>1, <2>2 DEF OverRow
    <3>2. store'.rows[k] = IF rows[k].endedAt = NoTime
                             THEN [rows[k] EXCEPT !.endedAt = at, !.reason = reason]
                           ELSE rows[k]
      BY <2>1, <2>2, <3>1
    <3>. QED BY <2>2, <3>2 DEF OverRow
  <2>3. CASE k[1] # Session
    <3>1. k[1] \in 1..(Session - 1)
      BY <1>1, <2>3 DEF RowsKeyed
    <3>. QED BY <1>1, <2>1, <2>3, <3>1
  <2>. QED BY <2>2, <2>3
<1>. QED BY <1>1, <1>2, <1>3 DEF RowsOf

LEMMA EndRunReplay ==
  ASSUME IInv, ValueInv, ReplayInv, EndRun
  PROVE  ReplayInv'
<1>0. Shape /\ Moment /\ SessionsTyped /\ RowsKeyed
  BY DEF IInv, ValueInv
<1>1. PICK p : /\ IsReplay(p) /\ RowsOf(p[Len(journal)].rows)
               /\ store.gaps = p[Len(journal)].gaps
  BY DEF ReplayInv
<1>2. PICK rows : rows = p[Len(journal)].rows
  OBVIOUS
<1>3. UNCHANGED journal /\ store'.gaps = store.gaps
  BY <1>0 DEF EndRun, EndSession, Shape, StoreShape
<1>4. PICK old, new, status :
        /\ old = sessions[Session] /\ new = sessions'[Session]
        /\ status = IF fatal THEN "interrupted" ELSE "closed_clean"
  OBVIOUS
<1>5. /\ Session \in 1..Session /\ Session \in Nat
      /\ \A s \in 1..(Session - 1) : sessions'[s] = sessions[s]
      /\ new = [old EXCEPT !.status = status, !.endedAt = clock, !.heartbeatAt = clock]
  BY <1>0, <1>4, EndedSession, SessionCount
<1>6. old \in SessionRow /\ old.status = "running"
  <2>1. pc # "down"
    BY DEF EndRun
  <2>. QED BY <1>0, <1>4, <1>5, <2>1 DEF SessionsTyped, Shape, SessionsShape, Running
<1>7. /\ new.status = status /\ new.endedAt = clock /\ new.lastEventAt = old.lastEventAt
      /\ new.startedAt = old.startedAt /\ status # "running"
  BY <1>4, <1>5, <1>6 DEF SessionRow
<1>8. store'.rows = EndObservations(store.rows, OfSession(store.rows, Session), EndsAt,
                                    EndReason(status))
  <2>. DEFINE at == IF status = "interrupted"
                      THEN FirstKnown(sessions[Session].lastEventAt, clock, clock) ELSE clock
  <2>1. store' = [store EXCEPT !.rows =
                    EndObservations(@, OfSession(@, Session), at, EndReason(status))]
    BY <1>4 DEF EndRun, EndSession
  <2>2. at = EndsAt
    BY <1>4 DEF EndsAt
  <2>. HIDE DEF at
  <2>3. "rows" \in DOMAIN store
    BY <1>0 DEF Shape, StoreShape
  <2>. QED BY <2>1, <2>2, <2>3
<1>9. OverAt(new) = EndsAt
  BY <1>0, <1>4, <1>7 DEF OverAt, EndsAt, FirstKnown, Moment, NoTime
<1>10. RowsOf(rows)'
  <2>1. PICK at, reason : at = EndsAt /\ reason = EndReason(status)
    OBVIOUS
  <2>2. EndReason(new.status) = reason
    BY <1>7, <2>1
  <2>. QED BY <1>0, <1>1, <1>2, <1>4, <1>5, <1>6, <1>7, <1>8, <1>9, <2>1, <2>2, EndedReplay
<1>11. IsReplay(p)' /\ Sorted'
  BY <1>1, <1>3, SameReplay, SameSorted DEF ReplayInv, BoundaryGaps
<1>. QED BY <1>1, <1>2, <1>3, <1>10, <1>11 DEF ReplayInv

\* A boundary gap is in the replay from its beginning.
LEMMA BoundaryReplay ==
  ASSUME NEW p, IsReplay(p), NEW b, b.source = "collector_session_boundary",
         UNCHANGED journal, store'.gaps = store.gaps \cup {b}, Len(journal) \in Nat
  PROVE  \E r : /\ IsReplay(r)' /\ r[Len(journal)].rows = p[Len(journal)].rows
                /\ r[Len(journal)].gaps = p[Len(journal)].gaps \cup {b}
<1>1. PICK l \in Nat : l = Len(journal)
  OBVIOUS
<1>2. PICK r : r = [i \in 0..l |-> [rows |-> p[i].rows, gaps |-> p[i].gaps \cup {b}]]
  OBVIOUS
<1>3. \A i \in 0..l : r[i].rows = p[i].rows /\ r[i].gaps = p[i].gaps \cup {b}
  BY <1>2
<1>4. BoundaryGaps' = BoundaryGaps \cup {b}
  BY DEF BoundaryGaps
<1>5. r[0] = [rows |-> << >>, gaps |-> BoundaryGaps']
  <2>1. p[0] = [rows |-> << >>, gaps |-> BoundaryGaps]
    BY DEF IsReplay
  <2>2. p[0].rows = << >> /\ p[0].gaps = BoundaryGaps /\ 0 \in 0..l
    BY <2>1
  <2>3. r[0] = [rows |-> p[0].rows, gaps |-> p[0].gaps \cup {b}]
    BY <1>2, <2>2
  <2>. QED BY <1>4, <2>2, <2>3
<1>6. ASSUME NEW i \in 1..l
      PROVE  /\ r[i] = Project(r[i - 1], journal[i])
             /\ journal[i].ev.type = "GapClosed" =>
                  \E g : /\ g.from \in Nat
                         /\ OpenStreamGaps(r[i - 1].gaps, journal[i].session) = {g}
  <2>1. PICK e, gaps : e = journal[i] /\ gaps = p[i - 1].gaps
    OBVIOUS
  <2>2. /\ p[i] = Project(p[i - 1], e)
        /\ e.ev.type = "GapClosed" =>
             \E g : g.from \in Nat /\ OpenStreamGaps(gaps, e.session) = {g}
    BY <1>1, <2>1 DEF IsReplay
  <2>3. /\ ProjectGaps(gaps \cup {b}, e) = ProjectGaps(gaps, e) \cup {b}
        /\ OpenStreamGaps(gaps \cup {b}, e.session) = OpenStreamGaps(gaps, e.session)
    BY <2>2, BoundaryApart
  <2>4. i \in 0..l /\ i - 1 \in 0..l
    OBVIOUS
  <2>5. r[i - 1].rows = p[i - 1].rows /\ r[i - 1].gaps = gaps \cup {b}
    BY <1>3, <2>1, <2>4
  <2>6. r[i] = [rows |-> p[i].rows, gaps |-> p[i].gaps \cup {b}]
    BY <1>2, <2>4
  <2>7. p[i].rows = ProjectRows(p[i - 1].rows, e) /\ p[i].gaps = ProjectGaps(gaps, e)
    BY <2>1, <2>2 DEF Project
  <2>8. r[i] = Project(r[i - 1], e)
    BY <2>3, <2>5, <2>6, <2>7 DEF Project
  <2>. QED BY <2>1, <2>2, <2>3, <2>5, <2>8
<1>7. IsReplay(r)'
  BY <1>1, <1>5, <1>6 DEF IsReplay
<1>. QED BY <1>1, <1>3, <1>7

LEMMA BeginRunReplay ==
  ASSUME IInv, ValueInv, ReplayInv, BeginRun
  PROVE  ReplayInv'
<1>0. Shape /\ Moment /\ SessionsTyped /\ RowsKeyed
  BY DEF IInv, ValueInv
<1>1. PICK p : /\ IsReplay(p) /\ RowsOf(p[Len(journal)].rows)
               /\ store.gaps = p[Len(journal)].gaps
  BY DEF ReplayInv
<1>2. PICK rows, s, old, new :
        /\ rows = p[Len(journal)].rows /\ s = Session
        /\ old = sessions[Session] /\ new = sessions'[Session]
  OBVIOUS
<1>3. UNCHANGED journal /\ Len(journal) \in Nat
  BY <1>0, StreamParts DEF BeginRun, BeginSession, FirstSession, NextSession
<1>4. s \in Nat /\ \A t \in 1..(s - 1) : sessions'[t] = sessions[t]
  BY <1>0, <1>2, BegunSession
<1>5. RowsOf(rows)'
  <2>1. CASE s = 0
    <3>1. store' = store
      BY <1>0, <1>2, <2>1, BegunSession DEF FirstSession
    <3>2. DOMAIN store.rows = {}
      BY <1>0, <1>2, <2>1 DEF RowsKeyed
    <3>. QED BY <1>1, <1>2, <3>1, <3>2 DEF RowsOf
  <2>2. CASE s # 0
    <3>1. /\ NextSession(clock) /\ Last(sessions) = old
          /\ new = IF old.status = "running"
                     THEN [old EXCEPT !.status = "interrupted", !.endedAt = clock] ELSE old
      BY <1>0, <1>2, <1>4, <2>2, BegunSession
    <3>2. old \in SessionRow
      BY <1>0, <1>2, <1>4, <2>2 DEF SessionsTyped
    <3>3. CASE old.status = "running"
      <4>1. /\ new.status = "interrupted" /\ new.endedAt = clock
            /\ new.lastEventAt = old.lastEventAt /\ new.startedAt = old.startedAt
        BY <3>1, <3>2, <3>3 DEF SessionRow
      <4>2. PICK at, reason : /\ at = OfflineSince(old, clock)
                              /\ reason = "collector_session_interrupted"
        OBVIOUS
      <4>3. store'.rows = EndObservations(store.rows, OfSession(store.rows, Session), at,
                                          reason)
        BY <3>1, <3>3, <4>2 DEF NextSession
      <4>4. OverAt(new) = at /\ EndReason(new.status) = reason
        BY <1>0, <3>3, <4>1, <4>2
           DEF OverAt, OfflineSince, FirstKnown, EndReason, Moment, NoTime
      <4>. QED BY <1>0, <1>1, <1>2, <1>4, <3>3, <4>1, <4>3, <4>4, EndedReplay
    <3>4. CASE old.status # "running"
      <4>1. store'.rows = store.rows
        BY <3>1, <3>4 DEF NextSession
      <4>2. \A t \in 1..s : sessions'[t] = sessions[t]
        <5>1. sessions'[s] = sessions[s]
          BY <1>2, <3>1, <3>4
        <5>2. \A t \in 1..s : t = s \/ t \in 1..(s - 1)
          BY <1>4, <2>2
        <5>. QED BY <1>4, <5>1, <5>2
      <4>3. \A k \in DOMAIN rows : k[1] \in 1..s
        BY <1>0, <1>1, <1>2 DEF RowsKeyed, RowsOf
      <4>. QED BY <1>1, <1>2, <4>1, <4>2, <4>3 DEF RowsOf
    <3>. QED BY <3>3, <3>4
  <2>. QED BY <2>1, <2>2
<1>6. \E r : /\ IsReplay(r)' /\ r[Len(journal)].rows = rows
             /\ store'.gaps = r[Len(journal)].gaps
  <2>1. CASE store'.gaps = store.gaps
    BY <1>1, <1>2, <1>3, <2>1, SameReplay DEF BoundaryGaps
  <2>2. CASE store'.gaps # store.gaps
    <3>1. PICK b : b.source = "collector_session_boundary" /\ store'.gaps = store.gaps \cup {b}
      <4>1. \A from, to : BoundaryGap(Session, from, to).source = "collector_session_boundary"
        BY DEF BoundaryGap
      <4>. QED BY <1>0, <2>2, <4>1, BegunGaps
    <3>2. PICK r : /\ IsReplay(r)' /\ r[Len(journal)].rows = p[Len(journal)].rows
                   /\ r[Len(journal)].gaps = p[Len(journal)].gaps \cup {b}
      BY <1>1, <1>3, <3>1, BoundaryReplay
    <3>. QED BY <1>1, <1>2, <3>1, <3>2
  <2>. QED BY <2>1, <2>2
<1>7. Sorted'
  BY <1>3, SameSorted DEF ReplayInv
<1>. QED BY <1>3, <1>5, <1>6, <1>7 DEF ReplayInv

LEMMA ReplayNext ==
  ASSUME IInv, ValueInv, GapTimes, ReplayInv, [Next]_vars
  PROVE  ReplayInv'
<1>0. Shape /\ ConnsTyped /\ Moment
  BY DEF IInv, ValueInv
<1>1. CASE WorldValues
  <2>1. UNCHANGED <<journal, store>>
    BY <1>1 DEF WorldValues, WorldStep
  <2>. QED BY <1>1, <2>1, QuietReplay DEF WorldValues
<1>2. CASE SectionValues \/ Killed \/ EmitFails
  <2>1. UNCHANGED storeVars
    BY <1>2 DEF SectionValues, SectionStep, Killed, EmitFails
  <2>. QED BY <2>1, QuietReplay DEF storeVars
<1>3. CASE BeginRun \/ EndRun \/ EmitSucceeds
  BY <1>3, BeginRunReplay, EndRunReplay, ReplayTaken
<1>. QED BY <1>0, <1>1, <1>2, <1>3, Values

LEMMA ReplayBegins == Init => ReplayInv
<1>. SUFFICES ASSUME Init PROVE ReplayInv
  OBVIOUS
<1>1. Len(journal) = 0 /\ store = EmptyStore
  BY ShortSeqs DEF Init, StoreInit
<1>2. PICK p : p = [i \in {0} |-> EmptyStore]
  OBVIOUS
<1>3. p[0] = [rows |-> << >>, gaps |-> {}] /\ BoundaryGaps = {}
  BY <1>1, <1>2 DEF EmptyStore, BoundaryGaps
<1>4. IsReplay(p)
  BY <1>1, <1>3 DEF IsReplay
<1>5. RowsOf(p[0].rows)
  BY <1>1, <1>3 DEF RowsOf, EmptyStore, IsMap
<1>. QED BY <1>1, <1>3, <1>4, <1>5 DEF ReplayInv, Sorted, EmptyStore

\* The store is, at every moment, what its journal makes of the projections, but for
\* what sessions that are over have ended.
THEOREM RebuildInStep == Spec => []ReplayInv
<1>1. IInv /\ ValueInv /\ GapTimes /\ ReplayInv /\ [Next]_vars => ReplayInv'
  BY ReplayNext
<1>. QED BY <1>1, ReplayBegins, StreamInOrder, RowsInStep, GapsInStep, PTL DEF Spec

\* A rebuild replays the journal in the order it was recorded in.
LEMMA OrderIsKept ==
  ASSUME Shape, Sorted
  PROVE  InOrder = journal
<1>1. PICK l \in Nat : /\ l = Len(journal) /\ DOMAIN journal = 1..l
                       /\ journal = [i \in 1..l |-> journal[i]]
  BY SeqParts DEF Shape, JournalShape
<1>2. \A i \in 1..l : /\ journal[i].session \in Nat /\ journal[i].epoch \in Nat
                      /\ journal[i].frame \in Nat /\ journal[i].seq \in Nat
  <2>1. Session \in Nat
    BY SessionCount
  <2>2. \A n \in 1..Session : n \in Nat
    BY <2>1
  <2>. QED BY <1>1, <2>2 DEF Shape, JournalShape
<1>3. ASSUME NEW i \in 1..l, NEW j \in 1..l
      PROVE  Before(journal[j], journal[i]) <=> j < i
  <2>1. j < i => Before(journal[j], journal[i])
    <3>1. j < i => j \in 1..(i - 1)
      OBVIOUS
    <3>. QED BY <1>1, <3>1 DEF Sorted
  <2>2. i < j => Before(journal[i], journal[j])
    <3>1. i < j => i \in 1..(j - 1)
      OBVIOUS
    <3>. QED BY <1>1, <3>1 DEF Sorted
  <2>3. Before(journal[i], journal[j]) => ~Before(journal[j], journal[i])
    BY <1>2 DEF Before
  <2>4. ~Before(journal[i], journal[i])
    BY <1>2 DEF Before
  <2>5. j < i \/ i < j \/ i = j
    BY <1>1
  <2>. QED BY <2>1, <2>2, <2>3, <2>4, <2>5
<1>. DEFINE rank == [i \in DOMAIN journal |->
              1 + Cardinality({j \in DOMAIN journal : Before(journal[j], journal[i])})]
<1>4. ASSUME NEW i \in 1..l PROVE rank[i] = i
  <2>1. {j \in 1..l : Before(journal[j], journal[i])} = 1..(i - 1)
    <3>1. {j \in 1..l : Before(journal[j], journal[i])} = {j \in 1..l : j < i}
      BY <1>3
    <3>2. {j \in 1..l : j < i} = 1..(i - 1)
      OBVIOUS
    <3>. QED BY <3>1, <3>2
  <2>2. Cardinality(1..(i - 1)) = i - 1
    BY FS_Interval
  <2>3. rank[i] = 1 + Cardinality(1..(i - 1))
    BY <1>1, <2>1
  <2>. QED BY <2>2, <2>3
<1>5. InOrder = [n \in DOMAIN journal |->
                   journal[CHOOSE i \in DOMAIN journal : rank[i] = n]]
  BY Zenon DEF InOrder
<1>. HIDE DEF rank
<1>6. ASSUME NEW n \in DOMAIN journal PROVE (CHOOSE i \in DOMAIN journal : rank[i] = n) = n
  <2>1. \A i \in DOMAIN journal : rank[i] = i
    BY <1>1, <1>4
  <2>. QED BY <2>1
<1>7. InOrder = [n \in DOMAIN journal |-> journal[n]]
  BY <1>5, <1>6
<1>. QED BY <1>1, <1>7

\* Functions that begin alike and go on alike are alike.
LEMMA SameFromFirst ==
  ASSUME NEW n \in Nat, NEW f, NEW g, f[0] = g[0],
         \A i \in 1..n : f[i - 1] = g[i - 1] => f[i] = g[i]
  PROVE  f[n] = g[n]
<1>. DEFINE S == {i \in 0..n : f[i] # g[i]}
<1>. SUFFICES ASSUME f[n] # g[n] PROVE FALSE
  OBVIOUS
<1>1. PICK i \in S : \A m \in Nat : m < i => m \notin S
  <2>1. S \in SUBSET Nat /\ n \in S
    OBVIOUS
  <2>. HIDE DEF S
  <2>. QED BY <2>1, FirstOf
<1>2. i \in 1..n /\ i - 1 \in 0..n /\ i - 1 < i /\ i - 1 \in Nat
  OBVIOUS
<1>3. f[i - 1] = g[i - 1]
  BY <1>1, <1>2
<1>. QED BY <1>2, <1>3

LEMMA ReplayedIs ==
  ASSUME Shape, Sorted, NEW p, IsReplay(p)
  PROVE  Replayed = p[Len(journal)]
<1>1. PICK l \in Nat : l = Len(journal)
  BY StreamParts
<1>. DEFINE Body(f) == [n \in 0..l |->
              IF n = 0 THEN [rows |-> << >>, gaps |-> BoundaryGaps]
              ELSE Project(f[n - 1], journal[n])]
            after == CHOOSE f : f = Body(f)
            q == [n \in 0..l |-> p[n]]
<1>2. Replayed = after[l]
  BY <1>1, OrderIsKept, Zenon DEF Replayed
<1>3. q = Body(q)
  <2>1. ASSUME NEW n \in 0..l
        PROVE  q[n] = IF n = 0 THEN [rows |-> << >>, gaps |-> BoundaryGaps]
                      ELSE Project(q[n - 1], journal[n])
    <3>1. CASE n = 0
      BY <3>1 DEF IsReplay
    <3>2. CASE n # 0
      <4>1. n \in 1..l /\ n - 1 \in 0..l
        BY <3>2
      <4>2. q[n] = p[n] /\ q[n - 1] = p[n - 1]
        BY <4>1
      <4>3. p[n] = Project(p[n - 1], journal[n])
        BY <1>1, <4>1 DEF IsReplay
      <4>. QED BY <3>2, <4>2, <4>3
    <3>. QED BY <3>1, <3>2
  <2>2. q = [n \in 0..l |-> q[n]]
    OBVIOUS
  <2>. HIDE DEF q
  <2>. QED BY <2>1, <2>2
<1>4. after = Body(after)
  <2>. HIDE DEF q, Body
  <2>. QED BY <1>3 DEF after
<1>5. \A g : g = Body(g) =>
        /\ g[0] = [rows |-> << >>, gaps |-> BoundaryGaps]
        /\ \A n \in 1..l : g[n] = Project(g[n - 1], journal[n])
  OBVIOUS
<1>6. q[l] = p[l]
  OBVIOUS
<1>. HIDE DEF q, after, Body
<1>7. PICK f, g : f = after /\ g = q
  OBVIOUS
<1>8. f[l] = g[l]
  <2>1. /\ f[0] = g[0]
        /\ \A n \in 1..l : /\ f[n] = Project(f[n - 1], journal[n])
                           /\ g[n] = Project(g[n - 1], journal[n])
    BY <1>3, <1>4, <1>5, <1>7
  <2>2. \A n \in 1..l : f[n - 1] = g[n - 1] => f[n] = g[n]
    BY <2>1
  <2>. QED BY <2>1, <2>2, SameFromFirst
<1>. QED BY <1>1, <1>2, <1>6, <1>7, <1>8

\* Ending the observations of a session that is over ends what its rows had open.
LEMMA ReconciledAre ==
  ASSUME NEW rows, IsMap(rows), NEW s
  PROVE  /\ Reconciled(rows, s) =
              [k \in DOMAIN rows |-> IF k[1] = s THEN OverRow(rows[k], sessions[s])
                                     ELSE rows[k]]
<1>1. CASE sessions[s].status = "running"
  <2>1. Reconciled(rows, s) = rows
    BY <1>1 DEF Reconciled
  <2>2. \A k \in DOMAIN rows : OverRow(rows[k], sessions[s]) = rows[k]
    BY <1>1 DEF OverRow
  <2>. QED BY <2>1, <2>2 DEF IsMap
<1>2. CASE sessions[s].status # "running"
  <2>1. PICK at, reason : /\ at = OverAt(sessions[s])
                          /\ reason = EndReason(sessions[s].status)
    OBVIOUS
  <2>2. Reconciled(rows, s) = EndObservations(rows, OfSession(rows, s), at, reason)
    BY <1>2, <2>1 DEF Reconciled, OverAt
  <2>3. ASSUME NEW k \in DOMAIN rows
        PROVE  (IF k \in OfSession(rows, s) /\ rows[k].endedAt = NoTime
                  THEN [rows[k] EXCEPT !.endedAt = at, !.reason = reason] ELSE rows[k])
                 = IF k[1] = s THEN OverRow(rows[k], sessions[s]) ELSE rows[k]
    BY <1>2, <2>1 DEF OfSession, OverRow
  <2>. QED BY <2>2, <2>3 DEF EndObservations
<1>. QED BY <1>1, <1>2

\* Rebuilding the projections from the journal at any moment gives what is there
\* (recovery.go 13: "100%"; projector.go 200-201).
THEOREM RebuildsTheSame == Spec => []RebuildIsIdentity
<1>1. ASSUME IInv, ValueInv, ReplayInv PROVE RebuildIsIdentity
  <2>1. Shape /\ RowsKeyed /\ Sorted /\ Session \in Nat
    BY <1>1, SessionCount DEF IInv, ValueInv, ReplayInv
  <2>2. PICK p : /\ IsReplay(p) /\ RowsOf(p[Len(journal)].rows)
                 /\ store.gaps = p[Len(journal)].gaps
    BY <1>1 DEF ReplayInv
  <2>3. PICK whole, q, L : /\ whole = p[Len(journal)] /\ q = whole.rows /\ L = Session
    OBVIOUS
  <2>4. Replayed = whole /\ L \in Nat
    BY <2>1, <2>2, <2>3, ReplayedIs
  <2>5. whole = [rows |-> q, gaps |-> store.gaps]
    <3>1. CASE Len(journal) = 0
      BY <2>2, <2>3, <3>1 DEF IsReplay
    <3>2. CASE Len(journal) # 0
      <4>1. Len(journal) \in 1..Len(journal)
        BY <2>1, <3>2, StreamParts
      <4>2. whole = Project(p[Len(journal) - 1], journal[Len(journal)])
        BY <2>2, <2>3, <4>1 DEF IsReplay
      <4>. QED BY <2>2, <2>3, <4>2 DEF Project
    <3>. QED BY <3>1, <3>2
  <2>6. /\ IsMap(q) /\ IsMap(store.rows) /\ DOMAIN store.rows = DOMAIN q
        /\ \A k \in DOMAIN q : /\ store.rows[k] = OverRow(q[k], sessions[k[1]])
                               /\ k[1] \in 1..L
    BY <2>1, <2>2, <2>3 DEF RowsOf, RowsKeyed
  <2>. DEFINE Upto(s) == [k \in DOMAIN q |->
                IF k[1] <= s THEN OverRow(q[k], sessions[k[1]]) ELSE q[k]]
              Body(f) == [s \in 0..L |-> IF s = 0 THEN q ELSE Reconciled(f[s - 1], s)]
              upTo == CHOOSE f : f = Body(f)
              u == [s \in 0..L |-> Upto(s)]
  <2>7. Rebuilt = [Replayed EXCEPT !.rows = upTo[L]]
    BY <2>3, <2>4, Zenon DEF Rebuilt
  <2>8. Upto(0) = q
    BY <2>6 DEF IsMap
  <2>9. ASSUME NEW s \in 1..L PROVE Upto(s) = Reconciled(Upto(s - 1), s)
    <3>1. PICK b : b = Upto(s - 1)
      OBVIOUS
    <3>2. /\ IsMap(b) /\ DOMAIN b = DOMAIN q
          /\ \A k \in DOMAIN q :
               b[k] = IF k[1] <= s - 1 THEN OverRow(q[k], sessions[k[1]]) ELSE q[k]
      BY <3>1 DEF IsMap
    <3>3. Reconciled(b, s) = [k \in DOMAIN q |-> IF k[1] = s THEN OverRow(b[k], sessions[s])
                                                 ELSE b[k]]
      BY <3>2, ReconciledAre
    <3>4. ASSUME NEW k \in DOMAIN q
          PROVE  (IF k[1] = s THEN OverRow(b[k], sessions[s]) ELSE b[k])
                   = IF k[1] <= s THEN OverRow(q[k], sessions[k[1]]) ELSE q[k]
      <4>1. k[1] \in 1..L
        BY <2>6
      <4>. QED BY <3>2, <4>1
    <3>. QED BY <3>1, <3>3, <3>4
  <2>10. u = Body(u)
    <3>. HIDE DEF Upto
    <3>1. ASSUME NEW s \in 0..L
          PROVE  u[s] = IF s = 0 THEN q ELSE Reconciled(u[s - 1], s)
      <4>1. CASE s = 0
        BY <2>4, <2>8, <4>1
      <4>2. CASE s # 0
        <5>1. s \in 1..L /\ s - 1 \in 0..L
          BY <2>4, <4>2
        <5>2. u[s] = Upto(s) /\ u[s - 1] = Upto(s - 1)
          BY <5>1
        <5>. QED BY <2>9, <4>2, <5>1, <5>2
      <4>. QED BY <4>1, <4>2
    <3>2. u = [s \in 0..L |-> u[s]]
      OBVIOUS
    <3>. HIDE DEF u
    <3>. QED BY <3>1, <3>2
  <2>11. u[L] = store.rows
    <3>1. u[L] = Upto(L)
      BY <2>4
    <3>2. \A k \in DOMAIN q :
            store.rows[k] = IF k[1] <= L THEN OverRow(q[k], sessions[k[1]]) ELSE q[k]
      BY <2>4, <2>6
    <3>3. store.rows = [k \in DOMAIN q |-> store.rows[k]]
      BY <2>6 DEF IsMap
    <3>. QED BY <3>1, <3>2, <3>3
  <2>12. upTo = Body(upTo)
    <3>. HIDE DEF u, Body
    <3>. QED BY <2>10 DEF upTo
  <2>13. \A g : g = Body(g) =>
           g[0] = q /\ \A s \in 1..L : g[s] = Reconciled(g[s - 1], s)
    BY <2>4
  <2>. HIDE DEF Upto, Body, upTo, u
  <2>14. PICK f, g : f = upTo /\ g = u
    OBVIOUS
  <2>15. f[L] = g[L]
    <3>1. /\ f[0] = g[0]
          /\ \A s \in 1..L : /\ f[s] = Reconciled(f[s - 1], s)
                             /\ g[s] = Reconciled(g[s - 1], s)
      BY <2>10, <2>12, <2>13, <2>14
    <3>2. \A s \in 1..L : f[s - 1] = g[s - 1] => f[s] = g[s]
      BY <3>1
    <3>. QED BY <2>4, <3>1, <3>2, SameFromFirst
  <2>16. Rebuilt = [rows |-> store.rows, gaps |-> store.gaps]
    BY <2>4, <2>5, <2>7, <2>11, <2>14, <2>15
  <2>. QED BY <2>1, <2>16 DEF Shape, StoreShape, RebuildIsIdentity
<1>. QED BY <1>1, StreamInOrder, RowsInStep, RebuildInStep, PTL

=============================================================================
