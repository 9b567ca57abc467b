----------------------------- MODULE EventStore -----------------------------
(***************************************************************************)
(* The SQLite store behind the collector's sink: collector sessions, the   *)
(* event journal with its cursor, and the projections derived from it      *)
(* (storage/sqlite_sink.go, journal.go, projector.go, recovery.go,         *)
(* analytics.go).  One event is one transaction: journal, projection and   *)
(* session progress commit together.                                       *)
(*                                                                         *)
(* Sessions are numbered in the order they begin.  Rows of `connections`   *)
(* are keyed by session, epoch and connection ID; metadata columns are     *)
(* left out.                                                               *)
(***************************************************************************)
EXTENDS Connections, SequencesExt

CONSTANT Grace   \* silence of a heartbeat before coverage takes the session for dead

ASSUME GraceAssumption == Grace \in Nat \ {0}

VARIABLES
  sessions,   \* <<[startedAt, status, endedAt, lastEventAt, heartbeatAt]>>
  journal,    \* <<[session, epoch, frame, seq, ev]>> in journal_sequence order
  store       \* the projections: [rows, gaps]

storeVars == <<sessions, journal, store>>

Session == Len(sessions)
EmptyStore == [rows |-> << >>, gaps |-> {}]
Key(e) == <<e.session, e.epoch, e.ev.conn>>

-----------------------------------------------------------------------------
(* ApplyEventProjection, one operator per event type that changes a row.   *)

OpenRow(e, cum) ==
  [start |-> e.ev.start, active |-> TRUE, tail |-> FALSE,
   observedAt |-> e.ev.ts, last |-> e.ev.counter, base |-> e.ev.base,
   cum |-> cum, class |-> e.ev.class, endedAt |-> NoTime, reason |-> "none"]

\* A bootstrap that meets a row refreshes nothing but last_observed_at.
BootstrapRow(rows, e) ==
  With(rows, Key(e),
       IF Key(e) \in DOMAIN rows
         THEN [rows[Key(e)] EXCEPT !.observedAt = e.ev.ts]
         ELSE OpenRow(e, Zero))

UpdatedRow(row, e) ==
  CASE e.ev.type = "Delta" ->
         [row EXCEPT !.observedAt = e.ev.ts, !.last = e.ev.counter, !.cum = e.ev.cum]
    [] e.ev.type = "Presence" ->
         [row EXCEPT !.observedAt = e.ev.ts, !.last = e.ev.counter]
    [] e.ev.type = "Disappeared" ->
         [row EXCEPT !.active = FALSE, !.tail = TRUE, !.endedAt = e.ev.ts,
                     !.reason = "disappeared_from_snapshot",
                     !.observedAt = e.ev.from, !.last = e.ev.counter]
    [] e.ev.type = "RelayClassificationChanged" -> [row EXCEPT !.class = e.ev.class]
    [] OTHER -> row

\* The keys of a session's rows, and of one of its epochs.
OfSession(rows, s) == {k \in DOMAIN rows : k[1] = s}
OfEpoch(rows, s, epoch) == {k \in OfSession(rows, s) : k[2] = epoch}

\* The observation of every row of `keys` that is still open ends.
EndObservations(rows, keys, at, reason) ==
  [k \in DOMAIN rows |->
     IF k \in keys /\ rows[k].endedAt = NoTime
       THEN [rows[k] EXCEPT !.endedAt = at, !.reason = reason] ELSE rows[k]]

ProjectRows_NewRestarts(rows, e) ==
  CASE e.ev.type = "Bootstrap" -> BootstrapRow(rows, e)
    [] e.ev.type = "New" ->
         With(rows, Key(e), [OpenRow(e, e.ev.delta) EXCEPT !.base = Zero])
    [] OTHER -> IF Key(e) \in DOMAIN rows
                  THEN [rows EXCEPT ![Key(e)] = UpdatedRow(@, e)] ELSE rows

ProjectRows(rows, e) ==
  CASE e.ev.type = "Bootstrap" -> BootstrapRow(rows, e)
    [] e.ev.type = "New" -> With(rows, Key(e), OpenRow(e, e.ev.cum))
    [] e.ev.type = "EpochBreak" ->
         EndObservations(rows, OfEpoch(rows, e.session, e.epoch),
                         e.ev.ts, "epoch_boundary")
    [] OTHER -> IF Key(e) \in DOMAIN rows
                  THEN [rows EXCEPT ![Key(e)] = UpdatedRow(@, e)] ELSE rows

StreamGap(e) ==
  [source |-> "controller_stream", session |-> e.session,
   id |-> <<e.frame, e.seq>>, from |-> e.ev.from, to |-> NoTime]
BoundaryGap(before, from, to) ==
  [source |-> "collector_session_boundary", session |-> before + 1,
   id |-> <<0, 0>>, from |-> from, to |-> to]

OpenStreamGaps(gaps, s) ==
  {g \in gaps : g.session = s /\ g.source = "controller_stream" /\ g.to = NoTime}

ProjectGaps(gaps, e) ==
  CASE e.ev.type = "GapOpened" -> gaps \cup {StreamGap(e)}
    [] e.ev.type = "GapClosed" ->
         LET open == OpenStreamGaps(gaps, e.session)
             last == CHOOSE g \in open : \A h \in open : h.from <= g.from
         IN  (gaps \ {last}) \cup {[last EXCEPT !.to = e.ev.ts]}
    [] OTHER -> gaps

Project(p, e) ==
  [rows |-> ProjectRows(p.rows, e), gaps |-> ProjectGaps(p.gaps, e)]

\* What the projector refuses: ErrProjectionContractViolation.
Projectable(p, e) ==
  /\ e.ev.type \in {"Delta", "Presence", "MetadataUpdated", "Disappeared",
                    "RelayClassificationChanged"} => Key(e) \in DOMAIN p.rows
  /\ e.ev.type = "GapClosed" => OpenStreamGaps(p.gaps, e.session) # {}

\* What the journal refuses: ErrOrderingViolation.
Cursor(s) ==
  LET mine == {i \in DOMAIN journal : journal[i].session = s}
  IN  IF mine = {} THEN <<0, 0, 0>>
      ELSE LET e == journal[CHOOSE i \in mine : \A j \in mine : j <= i]
           IN  <<e.epoch, e.frame, e.seq>>

Forward(e) ==
  LET c == Cursor(e.session)
  IN  \/ e.epoch > c[1]
      \/ e.epoch = c[1] /\ e.frame > c[2]
      \/ e.epoch = c[1] /\ e.frame = c[2] /\ e.seq > c[3]

Acceptable(e) == Forward(e) /\ Projectable(store, e)

-----------------------------------------------------------------------------
(* Transactions.                                                           *)

\* SQLiteEventSink.Emit.
Record(e, now) ==
  /\ Acceptable(e)
  /\ journal' = Append(journal, e)
  /\ store' = Project(store, e)
  /\ sessions' = [sessions EXCEPT ![e.session].lastEventAt = e.ev.ts,
                                  ![e.session].heartbeatAt = now]

\* heartbeatLoop: a beat is written, or fails and is only counted.
Heartbeat(now) ==
  /\ sessions' \in {sessions, [sessions EXCEPT ![Session].heartbeatAt = now]}
  /\ UNCHANGED <<journal, store>>

NewSession(now) ==
  [startedAt |-> now, status |-> "running", endedAt |-> NoTime,
   lastEventAt |-> NoTime, heartbeatAt |-> now]

FirstKnown(a, b, c) == IF a # NoTime THEN a ELSE IF b # NoTime THEN b ELSE c

OfflineSince_Now(prev, now) ==
  IF prev.status = "running" THEN now ELSE FirstKnown(prev.endedAt, now, now)
OfflineSince_Start(prev, now) == prev.startedAt
\* Where the boundary gap before a session begins, NoTime for none.
OfflineSince(prev, now) ==
  CASE prev.status = "running" -> FirstKnown(prev.lastEventAt, now, now)
    [] prev.status = "interrupted" ->
         FirstKnown(prev.lastEventAt, prev.endedAt, now)
    [] OTHER -> FirstKnown(prev.endedAt, prev.lastEventAt, NoTime)

\* BeginSession settles what the previous session left behind.
FirstSession(now) ==
  /\ sessions = << >>
  /\ sessions' = <<NewSession(now)>>
  /\ UNCHANGED <<journal, store>>

NextSession(now) ==
  /\ sessions # << >>
  /\ LET prev    == Last(sessions)
         crashed == prev.status = "running"
         from    == OfflineSince(prev, now)
     IN  /\ sessions' =
              Append(IF crashed
                       THEN [sessions EXCEPT ![Session].status = "interrupted",
                                             ![Session].endedAt = now]
                       ELSE sessions,
                     NewSession(now))
         /\ store' =
              [rows |-> IF crashed
                          THEN EndObservations(store.rows,
                                 OfSession(store.rows, Session), from,
                                 "collector_session_interrupted")
                          ELSE store.rows,
               gaps |-> IF from = NoTime THEN store.gaps
                        ELSE store.gaps \cup {BoundaryGap(Session, from, now)}]
  /\ UNCHANGED journal

BeginSession(now) == FirstSession(now) \/ NextSession(now)

EndReason(status) ==
  IF status = "interrupted" THEN "collector_session_interrupted"
  ELSE "collector_session_closed"

EndSession_LeavesRows(now, status) ==
  /\ sessions' = [sessions EXCEPT ![Session].status = status, ![Session].endedAt = now,
                                  ![Session].heartbeatAt = now]
  /\ UNCHANGED <<journal, store>>

EndSession(now, status) ==
  LET at == IF status = "interrupted"
              THEN FirstKnown(sessions[Session].lastEventAt, now, now) ELSE now
  IN  /\ sessions' = [sessions EXCEPT ![Session].status = status, ![Session].endedAt = now,
                                      ![Session].heartbeatAt = now]
      /\ store' = [store EXCEPT !.rows =
                     EndObservations(@, OfSession(@, Session), at,
                                     EndReason(status))]
      /\ UNCHANGED journal

-----------------------------------------------------------------------------
(* RebuildProjections: replay by session, epoch, frame and sequence, then  *)
(* end the observations of sessions that are over.  Boundary gaps stay.    *)

Before(a, b) ==
  \/ a.session < b.session
  \/ a.session = b.session /\ a.epoch < b.epoch
  \/ a.session = b.session /\ a.epoch = b.epoch /\ a.frame < b.frame
  \/ a.session = b.session /\ a.epoch = b.epoch /\ a.frame = b.frame /\ a.seq < b.seq

InOrder ==
  LET rank == [i \in DOMAIN journal |->
                 1 + Cardinality({j \in DOMAIN journal : Before(journal[j], journal[i])})]
  IN  [n \in DOMAIN journal |-> journal[CHOOSE i \in DOMAIN journal : rank[i] = n]]

BoundaryGaps == {g \in store.gaps : g.source = "collector_session_boundary"}

Replayed ==
  LET log == InOrder
      after[n \in 0..Len(log)] ==
        IF n = 0 THEN [rows |-> << >>, gaps |-> BoundaryGaps]
        ELSE Project(after[n - 1], log[n])
  IN  after[Len(log)]

Reconciled_EndedAt(rows, s) ==
  IF sessions[s].status = "running" THEN rows
  ELSE EndObservations(rows, OfSession(rows, s), sessions[s].endedAt,
                       EndReason(sessions[s].status))

Reconciled(rows, s) ==
  LET ses == sessions[s]
      at  == IF ses.status = "interrupted"
               THEN FirstKnown(ses.lastEventAt, ses.endedAt, ses.startedAt)
               ELSE FirstKnown(ses.endedAt, ses.lastEventAt, ses.startedAt)
  IN  IF ses.status = "running" THEN rows
      ELSE EndObservations(rows, OfSession(rows, s), at, EndReason(ses.status))

Rebuilt ==
  LET p == Replayed
      upTo[s \in 0..Session] ==
        IF s = 0 THEN p.rows ELSE Reconciled(upTo[s - 1], s)
  IN  [p EXCEPT !.rows = upTo[Session]]

-----------------------------------------------------------------------------
(* GetCoverage over the known scope up to `now`: the moments some gap      *)
(* covers, a moment t standing for [t, t+1).                               *)

Within(g, now) == g.from .. ((IF g.to = NoTime THEN now ELSE g.to) - 1)

Trailing(now) ==
  IF sessions = << >> \/ Last(sessions).status = "running" THEN {}
  ELSE FirstKnown(Last(sessions).endedAt, Last(sessions).lastEventAt, now) .. (now - 1)

\* Mutant: a session that runs on record is taken to run.
Stale_Trusting(now) == {}

\* A running session without a heartbeat since is dead, for all coverage knows.
Stale(now) ==
  IF sessions # << >> /\ Last(sessions).status = "running"
    THEN (Last(sessions).heartbeatAt + Grace) .. (now - 1) ELSE {}

Uncovered(now) ==
  (UNION {Within(g, now) : g \in store.gaps}) \cup Trailing(now) \cup Stale(now)

StoreInit == sessions = << >> /\ journal = << >> /\ store = EmptyStore
=============================================================================
