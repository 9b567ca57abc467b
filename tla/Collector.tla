----------------------------- MODULE Collector -----------------------------
(***************************************************************************)
(* The collector over several sessions (runtime/collector.go): each run    *)
(* begins a session in the store, feeds the state engine from the queue,   *)
(* hands every event to the store in a transaction of its own, and ends    *)
(* the session, unless the process is killed first.  What the process held *)
(* in memory is gone with it; the next session starts from the store.      *)
(***************************************************************************)
EXTENDS StateEngine, Mihomo, EventStore

CONSTANTS MaxTime, MaxFrames, MaxSeq, MaxSessions, MaxJournal   \* bounds

ASSUME LimitsAssumption == {MaxTime, MaxFrames, MaxSeq, MaxSessions, MaxJournal} \subseteq Nat

VARIABLES
  clock,
  fatal,     \* the worker recorded a fatal error
  \* What an outside observer knows of the session's stream:
  lastFrame, \* when its last frame was completed, NoTime before the first
  lost,      \* the stream was lost since
  watched,   \* moments between two frames the stream was not lost between
  excused,   \* moments at a session's edges that need no gap
  blind,     \* moments of sessions that died before their first frame
  rebased    \* rows a bootstrap met

ghostVars == <<lastFrame, lost, watched, excused, blind, rebased>>
vars == <<engineVars, mihomoVars, storeVars, clock, fatal, ghostVars>>

Down == pc = "down"
Moments(from, to) == from .. (to - 1)

-----------------------------------------------------------------------------
(* The world moves while the collector is down or between two items.       *)

Quiet == (Down \/ Idle) /\ UNCHANGED <<engineVars, fatal, ghostVars>>

\* A tick is longer than the interval of heartbeats.
Tick ==
  /\ Quiet /\ clock < MaxTime /\ clock' = clock + 1
  /\ IF Down THEN UNCHANGED storeVars ELSE Heartbeat(clock')
  /\ UNCHANGED mihomoVars

MihomoMoves ==
  /\ Quiet /\ UNCHANGED <<clock, storeVars>>
  /\ \/ \E id \in Conn \ DOMAIN activeMap, m \in Meta : Open(id, m)
     \/ \E id \in Conn, d \in Dir : Carry(id, d)
     \/ \E id \in Conn : Shut(id)
     \/ Restart

WorldStays == UNCHANGED <<mihomoVars, clock>>

-----------------------------------------------------------------------------
(* A session's life.                                                       *)

\* Nothing of the process survives.
Exits == EngineReplaced("down", NoTime)

CompletedFrame ==
  \E i \in DOMAIN journal : journal[i].session = Session /\ journal[i].ev.type = "Residual"

\* What a killed session that completed no frame leaves without a gap.
LeftBlind ==
  IF sessions = << >> \/ Last(sessions).status # "running" \/ CompletedFrame
    THEN {}
  ELSE Moments(Last(sessions).startedAt,
               FirstKnown(Last(sessions).lastEventAt, clock, clock))

\* Run: BeginSession, then a new engine.
BeginRun ==
  /\ Down /\ Session < MaxSessions
  /\ BeginSession(clock)
  /\ WorldStays
  /\ EngineReplaced("idle", clock)
  /\ fatal' = FALSE
  /\ lastFrame' = NoTime /\ lost' = FALSE
  /\ blind' = blind \cup LeftBlind
  /\ UNCHANGED <<watched, excused, rebased>>

\* Moments that need no gap: after the last frame, unless a loss is on record,
\* and before the first, when that is sooner than the least gap.
Edge ==
  LET first == IF lastFrame = NoTime THEN lastHealthyAt ELSE lastFrame
      short == IF hasEverBeenHealthy THEN lastHealthyAt ELSE clock
  IN  (IF hasEverBeenHealthy /\ OpenStreamGaps(store.gaps, Session) = {}
         THEN Moments(first, clock) ELSE {})
      \cup (IF lastFrame = NoTime /\ short - createdAt < MinGap
              THEN Moments(createdAt, short) ELSE {})

LeaveSession ==
  /\ excused' = excused \cup Edge
  /\ UNCHANGED <<lastFrame, lost, watched, rebased>>

\* Run after the worker has joined.  EndSession is the last thing written.
StopRun ==
  /\ Shutdown(clock)
  /\ WorldStays /\ UNCHANGED <<storeVars, fatal, ghostVars>>

EndRun ==
  /\ pc = "stopped" /\ Settled
  /\ EndSession(clock, IF fatal THEN "interrupted" ELSE "closed_clean")
  /\ Exits
  /\ LeaveSession
  /\ WorldStays /\ UNCHANGED <<fatal, blind>>

\* The process is killed, or EndSession fails: the session stays "running".
Killed ==
  /\ ~Down
  /\ Exits
  /\ LeaveSession
  /\ WorldStays /\ UNCHANGED <<storeVars, fatal, blind>>

\* The bounds are used up.
Rest == Down /\ Session = MaxSessions /\ UNCHANGED vars

-----------------------------------------------------------------------------
(* Items and frames.                                                       *)

StreamLost ==
  /\ GapOpened(clock)
  /\ lost' = TRUE
  /\ WorldStays
  /\ UNCHANGED <<storeVars, fatal, lastFrame, watched, excused, blind, rebased>>

Health ==
  /\ eventSequence < MaxSeq /\ Len(journal) < MaxJournal /\ pc = "idle"
  /\ CollectorHealth(clock)
  /\ WorldStays /\ UNCHANGED <<storeVars, fatal, ghostVars>>

FrameArrives ==
  /\ frameSequence < MaxFrames /\ Len(journal) < MaxJournal
  /\ \E missing \in SUBSET LiveConns :
       \E R \in RelayChoices(Snapshot(missing)) :
         ProcessFrame([ts |-> clock, conns |-> Snapshot(missing),
                       total |-> total, relays |-> R])
  /\ WorldStays /\ UNCHANGED <<storeVars, fatal, ghostVars>>

FrameContinues ==
  /\ \/ ProcessConn
     \/ \E id \in DOMAIN activeMap : Disappear(id)
     \/ EndSteady \/ EndRecovery \/ EndBootstrapLoop \/ EndBootstrap
  /\ WorldStays /\ UNCHANGED <<storeVars, fatal, ghostVars>>

-----------------------------------------------------------------------------
(* Emissions.                                                              *)

Offered ==
  LET head == Head(outbox)
  IN  [session |-> Session, epoch |-> head.epoch, frame |-> head.frame,
       seq |-> head.seq, ev |-> head.ev]

FrameDone(ts) ==
  /\ lastFrame' = ts /\ lost' = FALSE
  /\ watched' = IF lastFrame = NoTime \/ lost THEN watched
                ELSE watched \cup Moments(lastFrame, ts)
  /\ excused' = IF lastFrame = NoTime /\ ts - createdAt < MinGap
                THEN excused \cup Moments(createdAt, ts) ELSE excused

EmitSucceeds ==
  /\ SinkTakes
  /\ Record(Offered, clock)
  /\ IF Offered.ev.type = "Residual" THEN FrameDone(Offered.ev.ts)
     ELSE UNCHANGED <<lastFrame, lost, watched, excused>>
  /\ rebased' = IF Offered.ev.type = "Bootstrap" /\ Key(Offered) \in DOMAIN store.rows
                THEN rebased \cup {Key(Offered)}
                ELSE IF Offered.ev.type = "New" THEN rebased \ {Key(Offered)}
                ELSE rebased
  /\ UNCHANGED <<seqVars, connVars, gapVars, seenVars, frameVars, fatal, blind>>
  /\ WorldStays

\* The store refuses: disk full, a timeout of 30s, or a contract violation.
EmitFails ==
  /\ SinkFails
  /\ fatal' = (fatal \/ pc # "stopped")
  /\ blind' = IF ~hasEverBeenHealthy /\ Offered.ev.type = "GapOpened"
              THEN blind \cup Moments(createdAt, clock) ELSE blind
  /\ WorldStays
  /\ UNCHANGED <<storeVars, lastFrame, lost, watched, excused, rebased>>

-----------------------------------------------------------------------------
Init ==
  /\ MihomoInit /\ StoreInit
  /\ clock = 1 /\ fatal = FALSE
  /\ EngineInit("down", NoTime)
  /\ lastFrame = NoTime /\ lost = FALSE
  /\ watched = {} /\ excused = {} /\ blind = {} /\ rebased = {}

Next ==
  \/ Tick \/ MihomoMoves
  \/ BeginRun \/ StopRun \/ EndRun \/ Killed \/ Rest
  \/ StreamLost \/ Health \/ FrameArrives \/ FrameContinues
  \/ EmitSucceeds \/ EmitFails

Spec == Init /\ [][Next]_vars

-----------------------------------------------------------------------------
(* Properties.                                                             *)

\* The engine never offers the store an event it must refuse: no ordering
\* violation, no update of a missing row, no close without an open gap.  Any
\* of them ends the collector (journal.go 53-75, projector.go 284-523).
NoContractViolation == outbox # << >> => Acceptable(Offered)

\* Between two frames the open rows of the running session are exactly the
\* engine's active connections, with its monitored bytes (projector.go,
\* engine.go 515-1160); rows a recovery bootstrap met are excluded.
RowsFollowEngine ==
  Idle =>
    /\ {k \in DOMAIN store.rows : k[1] = Session /\ store.rows[k].endedAt = NoTime}
         \subseteq {<<Session, epochID, id>> : id \in DOMAIN activeMap}
    /\ \A id \in DOMAIN activeMap :
         LET k == <<Session, epochID, id>>
         IN  /\ k \in DOMAIN store.rows
             /\ k \in rebased \/
                  (/\ store.rows[k].active /\ store.rows[k].endedAt = NoTime
                   /\ store.rows[k].cum = activeMap[id].cum
                   /\ store.rows[k].base = activeMap[id].base
                   /\ store.rows[k].class = activeMap[id].class)

\* The same of every active connection (projector.go 197-199: a connection
\* observed again after Disappeared "must reopen the existing row").
ReobservedRowReopens ==
  Idle => \A id \in DOMAIN activeMap :
            store.rows[<<Session, epochID, id>>].endedAt = NoTime

\* A completed frame is on record whole: one residual, after every event of
\* the frame's connections (engine.go 676, 797, 1199: "to complete the snapshot
\* frame").  Accounting cuts the journal on it.
FrameComplete ==
  Idle =>
    \A n \in 1..frameSequence :
      LET mine == {i \in DOMAIN journal : journal[i].session = Session
                                           /\ journal[i].frame = n}
      IN  \E r \in mine :
            /\ journal[r].ev.type = "Residual"
            /\ \A i \in mine \ {r} : /\ journal[i].ev.type # "Residual"
                                     /\ journal[i].ev.conn # NoConn => i < r

\* The deltas of a frame that count as its own: neither a relay's duplicates
\* nor what is attributed over a gap.
CountsFor(e, r) ==
  /\ e.session = r.session /\ e.frame = r.frame
  /\ e.ev.type = "New" \/ (e.ev.type = "Delta" /\ e.ev.from = NoTime)
  /\ e.ev.class # Confirmed

\* Their sum, along the journal.
Attributed(r) ==
  LET sum[n \in 0..Len(journal)] ==
        IF n = 0 THEN Zero
        ELSE IF CountsFor(journal[n], r) THEN Plus(sum[n - 1], journal[n].ev.delta)
        ELSE sum[n - 1]
  IN  sum[Len(journal)]

\* The residual of a frame sets off exactly those (engine.go 1193-1213).
ResidualBalances ==
  \A i \in DOMAIN journal :
    journal[i].ev.type = "Residual" => journal[i].ev.counter = Attributed(journal[i])

\* To a reader of the journal the collector keeps the order accounting relies
\* on: frames follow each other complete, a connection is new before it is
\* seen or gone, sessions do not overlap (engine.go 515-1215, journal.go 53-75,
\* sqlite_sink.go 64-188; accounting_v2.go 1165-1172 names it as its premise).
Kind(e) ==
  IF e.type \in {"New", "Bootstrap"} THEN "New"
  ELSE IF e.type = "Disappeared" THEN "Gone"
  ELSE IF e.type = "Residual" THEN "Residual"
  ELSE IF e.conn = NoConn THEN "Other" ELSE "Seen"
Told(e) == [session |-> e.session, epoch |-> e.epoch, frame |-> e.frame,
            conn |-> e.ev.conn, type |-> Kind(e.ev)]
Growth == INSTANCE JournalGrowth WITH
  log <- [i \in DOMAIN journal |-> Told(journal[i])],
  running <- [s \in DOMAIN sessions |-> sessions[s].status = "running"]
GrowsAsPromised == Growth!GrowthSpec

\* Rebuilding the projections from the journal at any moment gives what is
\* there (recovery.go 13: "100%"; projector.go 200-201).
RebuildIsIdentity == Rebuilt = store

\* No observation outlives its session: rows of a session that is over are
\* closed, at a moment that is not before their last observation
\* (sqlite_sink.go 92-123, 285-335); rows a recovery bootstrap met may be.
ClosedWithSession ==
  \A k \in DOMAIN store.rows :
    LET row == store.rows[k]
    IN  /\ sessions[k[1]].status # "running" => row.endedAt # NoTime
        /\ (row.endedAt # NoTime /\ k \notin rebased) => row.observedAt <= row.endedAt

\* What a killed session leaves open: its heartbeat must be old enough, and without a
\* frame it has left nothing before that.
Undecided ==
  LET last == Last(sessions)
  IN  IF last.status # "running" THEN {}
      ELSE Moments(IF CompletedFrame THEN last.heartbeatAt ELSE last.startedAt,
                   last.heartbeatAt + Grace)

\* Once a frame is complete, and while the collector is down, every moment since the
\* first session that was not watched is inside a recorded gap or reported by coverage
\* (sqlite_sink.go 64-188, engine.go 224-269, 317-354, analytics.go 893-954), but for
\* sessions killed before their first frame and the allowance for a late heartbeat.
SilenceRecorded ==
  LET known == watched \cup excused \cup blind \cup Uncovered(clock)
  IN  /\ Idle /\ lastFrame # NoTime => Moments(sessions[1].startedAt, lastFrame) \subseteq known
      /\ Down /\ sessions # << >> =>
           Moments(sessions[1].startedAt, clock) \subseteq known \cup Undecided

\* A closed gap, or an open one of the running session, holds no moment the
\* controller was watched.
GapsHoldNoWatchedTime ==
  \A g \in store.gaps :
    (g.to # NoTime \/ g.session = Session)
       => watched \cap Within(g, clock) = {}

\* Coverage counts no watched moment as uncovered.
CoverageTruthful == Idle => watched \cap Uncovered(clock) = {}
=============================================================================
