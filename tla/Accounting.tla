---------------------------- MODULE Accounting ----------------------------
(***************************************************************************)
(* Incremental accounting (storage/accounting_v2.go): a generation of      *)
(* derived rows is seeded from the journal in chunks and activated, then   *)
(* follows the journal, each chunk published in one transaction, while the *)
(* collector keeps writing.                                                *)
(*                                                                         *)
(* Workers are callers of AdvanceAccountingV2: the scheduler's tick, the   *)
(* flush at shutdown, `collector storage seed-v2`.  A chunk is cut and     *)
(* prepared outside any transaction, in several reads, and applied later.  *)
(* A seed has the database to itself (cmd/collector/main.go 360).          *)
(***************************************************************************)
EXTENDS Classification

CONSTANTS Worker, Conn, Epochs, Types, Bytes, Spans, Chunk,
          MaxLog, MaxFrames, MaxSessions, MaxGens, MaxFaults   \* bounds

ASSUME BoundsAssumption ==
  /\ App \cup Relay \subseteq Conn
  /\ Types \subseteq ConnTypes \cup {"Residual", "Other"}
  /\ Epochs \subseteq Nat \ {0} /\ Bytes \subseteq Nat /\ Spans \subseteq Nat \ {0}
  /\ Chunk \in Nat \ {0}
  /\ {MaxLog, MaxFrames, MaxSessions, MaxGens, MaxFaults} \subseteq Nat

VARIABLES
  gen,      \* the latest generation, with the rows derived under it
  job,      \* worker -> the chunk it is working on
  faults    \* workers that gave up: an error, a cancelled context, a crash

vars == <<growthVars, gen, job, faults>>

NoJob == [stage |-> "none"]
NoPlan == << >>

Buckets == (1..MaxSessions) \X (0..HourOf(MaxFrames))
NoHours == [b \in Buckets |-> 0]

\* rows: journal sequence -> accounted bytes and class, of an event with bytes.
NewGen(id, boundary) ==
  [id |-> id, status |-> "seeding", boundary |-> boundary, seedLast |-> 0,
   matLast |-> 0, published |-> 0, raw |-> 0, acc |-> 0,
   conns |-> << >>, rows |-> << >>, exact |-> NoHours, estimated |-> NoHours,
   counted |-> {}]

-----------------------------------------------------------------------------
(* The collector, as far as the journal shows it.                          *)

\* One event of a connection in a frame stands for all of them.
OncePerFrame(e) ==
  NamesConn(e) => ~\E i \in DOMAIN log : /\ NamesConn(log[i]) /\ KeyOf(log[i]) = KeyOf(e)
                                         /\ log[i].frame = e.frame

\* Bytes over an interval are those of a connection not watched for a while.
SpreadSinceSeen(e) ==
  e.from # NoFrame =>
    \E i \in DOMAIN log : NamesConn(log[i]) /\ KeyOf(log[i]) = KeyOf(e) /\ log[i].frame <= e.from

\* Bytes come with "New" and "Seen", over an interval after a gap or a flap.
Payloads(type, frame) ==
  IF type \in {"New", "Seen"}
    THEN [bytes : Bytes, from : {NoFrame} \cup {frame - n : n \in {m \in Spans : m < frame}}]
  ELSE {[bytes |-> 0, from |-> NoFrame]}

CollectorWrites ==
  /\ Len(log) < MaxLog /\ Current > 0
  /\ LET n == Latest(log, Current, "frame")
     IN  \E frame \in {n, n + 1} \cap 0..MaxFrames, epoch \in Epochs :
         \/ \E type \in Types \cap ConnTypes, c \in Conn :
              \E p \in Payloads(type, frame) :
                LET e == [session |-> Current, epoch |-> epoch, frame |-> frame,
                          type |-> type, conn |-> c, bytes |-> p.bytes, from |-> p.from]
                IN  OncePerFrame(e) /\ SpreadSinceSeen(e) /\ Appends(e)
         \/ \E type \in Types \ ConnTypes :
              Appends([session |-> Current, epoch |-> epoch, frame |-> frame,
                       type |-> type, bytes |-> 0, from |-> NoFrame])
  /\ UNCHANGED <<gen, job, faults>>

SessionBegins ==
  Current < MaxSessions /\ Begins /\ UNCHANGED <<gen, job, faults>>
SessionEnds == Ends /\ UNCHANGED <<gen, job, faults>>

-----------------------------------------------------------------------------
(* The cut of a chunk.                                                     *)

InFrameOf(i) ==
  {j \in DOMAIN log : log[j].session = log[i].session /\ log[j].frame = log[i].frame}

FrameIsComplete_NeedsEvents(i, boundary) ==
  \/ \E j \in 1..boundary : log[j].session = log[i].session /\ log[j].frame > log[i].frame
  \/ \E j \in InFrameOf(i) : j <= boundary /\ log[j].type = "Residual"

\* isFrameComplete.
FrameIsComplete(i, boundary) ==
  \/ \E j \in 1..boundary : log[j].session = log[i].session /\ log[j].frame > log[i].frame
  \/ ~running[log[i].session]
  \/ \E j \in InFrameOf(i) : j <= boundary /\ log[j].type = "Residual"

\* What AdvanceAccountingV2 finds to do in the generation.
Pending ==
  CASE gen.status = "active" -> [from |-> gen.published, boundary |-> Len(log)]
    [] gen.status = "seeding" -> [from |-> gen.seedLast, boundary |-> gen.boundary]
    [] OTHER -> [from |-> gen.matLast, boundary |-> gen.boundary]

Seeding == gen.status \in {"seeding", "materializing"}
Alone(w) == \A v \in Worker \ {w} : job[v] = NoJob

\* The boundary is captured and the cut located in its frame.
StartTick(w) ==
  /\ job[w] = NoJob
  /\ gen.status = "active" \/ (Seeding /\ Alone(w))
  /\ Pending.from < Pending.boundary
  /\ job' = [job EXCEPT ![w] =
       [stage |-> "measure", gen |-> gen.id, mode |-> gen.status,
        from |-> Pending.from, boundary |-> Pending.boundary,
        to |-> Min({Pending.from + Chunk, Pending.boundary}), plan |-> NoPlan]]
  /\ UNCHANGED <<growthVars, gen, faults>>

-----------------------------------------------------------------------------
(* prepareIncrementalChunk: what the chunk's connections are by now.       *)

DirtyKeys(from, to) == {KeyOf(log[i]) : i \in {j \in from+1..to : NamesConn(log[j])}}

Closure_Live(conns, dirty, cutoff) ==
  dirty \cup {k \in DOMAIN conns : /\ \E d \in dirty : SameGroup(d, k)
                                   /\ conns[k].gone = NoFrame}

\* The dirty keys, and of their groups what is live or ended late enough.
Closure(conns, dirty, cutoff) ==
  dirty \cup
  {k \in DOMAIN conns : /\ \E d \in dirty : SameGroup(d, k)
                        /\ \/ conns[k].gone = NoFrame
                           \/ conns[k].gone >= cutoff
                           \/ conns[k].last >= cutoff
                           \/ conns[k].last > conns[k].gone}

\* The classes of the closure, each connection seen among the closure alone.
Prepare(from, to) ==
  LET dirty  == DirtyKeys(from, to)
      merged == MergeRange(gen.conns, from, to)
      cutoff == Min({merged[k].first : k \in dirty})
      scope  == Restrict(merged, Closure(gen.conns, dirty, cutoff))
  IN  IF dirty = {} THEN << >>
      ELSE [k \in DOMAIN scope |-> ClassIn(scope, k, to)]

Settle(w, to) ==
  job' = [job EXCEPT ![w] =
            IF to <= job[w].from THEN NoJob
            ELSE [job[w] EXCEPT !.stage = "ready", !.to = to,
                    !.plan = IF job[w].mode = "active"
                               THEN Prepare(job[w].from, to) ELSE NoPlan]]

\* extendCutToFrameEnd: a frame that goes on past the boundary is left out.
Measure(w) ==
  /\ job[w].stage = "measure"
  /\ LET frame == InFrameOf(job[w].to)
     IN  IF Max(frame) > job[w].boundary
           THEN Settle(w, Min(frame) - 1)
           ELSE job' = [job EXCEPT ![w].stage = "verify", ![w].to = Max(frame)]
  /\ UNCHANGED <<growthVars, gen, faults>>

Verify_Trusting(w) ==
  /\ job[w].stage = "verify"
  /\ Settle(w, job[w].to)
  /\ UNCHANGED <<growthVars, gen, faults>>

Verify(w) ==
  /\ job[w].stage = "verify"
  /\ Settle(w, IF FrameIsComplete(job[w].to, job[w].boundary) THEN job[w].to
               ELSE Min(InFrameOf(job[w].to)) - 1)
  /\ UNCHANGED <<growthVars, gen, faults>>

-----------------------------------------------------------------------------
(* Writes to the rows of a generation.                                     *)

BucketsOf(i) == {<<log[i].session, h>> : h \in HoursOf(log[i])}

\* `amount[i]` more bytes of each row i, in the column of their precision.
AddHours(hours, amount, exact) ==
  LET in(b) == {i \in DOMAIN amount : IsExact(log[i]) = exact /\ b \in BucketsOf(i)}
  IN  [b \in Buckets |->
         hours[b] + Total([i \in in(b) |-> InHour(log[i], b[2], amount[i])])]

\* connection_count: the connections with accounted bytes in a bucket.
CountedIn(rows) ==
  UNION {{<<b, KeyOf(log[i])>> : b \in BucketsOf(i)} : i \in {j \in DOMAIN rows : rows[j].acc # 0}}

\* buildAccountedPlan, applyAccountedPlan: a row for each event with bytes.
Traffic(from, to) ==
  {i \in from+1..to : log[i].type \in {"New", "Seen"} /\ log[i].bytes > 0}

NewRows(from, to, class) ==
  [i \in Traffic(from, to) |->
     [acc   |-> Accounted(log[i].bytes, class[KeyOf(log[i])]),
      class |-> class[KeyOf(log[i])]]]

Insert(g, rows) ==
  LET amount == [i \in DOMAIN rows |-> rows[i].acc]
  IN  [g EXCEPT !.rows = With(rows, @),
                !.exact = AddHours(@, amount, TRUE),
                !.estimated = AddHours(@, amount, FALSE),
                !.counted = @ \cup CountedIn(rows)]

Changed_OnlyCopies(g, plan) ==
  {k \in DOMAIN plan : /\ k \in DOMAIN g.conns => g.conns[k].class # plan[k]
                       /\ plan[k] = "confirmed"}

\* Connections whose class the plan changes.
Changed(g, plan) ==
  {k \in DOMAIN plan : k \in DOMAIN g.conns => g.conns[k].class # plan[k]}

\* applyClassCorrection: rows of a changed connection whose bytes change.
Corrections(g, plan) ==
  LET of(i) == KeyOf(log[i])
      stale == {i \in DOMAIN g.rows :
                  /\ of(i) \in Changed(g, plan)
                  /\ g.rows[i].acc # Accounted(log[i].bytes, plan[of(i)])}
  IN  [i \in stale |-> Accounted(log[i].bytes, plan[of(i)]) - g.rows[i].acc]

CorrectedRows(g, plan) ==
  With([i \in DOMAIN Corrections(g, plan) |->
          [acc |-> g.rows[i].acc + Corrections(g, plan)[i], class |-> plan[KeyOf(log[i])]]],
       g.rows)

Correct_KeepsCounts(g, plan) ==
  LET delta == Corrections(g, plan)
      rows  == CorrectedRows(g, plan)
  IN  [g EXCEPT !.rows = rows,
                !.exact = AddHours(@, delta, TRUE),
                !.estimated = AddHours(@, delta, FALSE)]

\* A connection no longer counts once it is confirmed a copy, and counts again
\* when it turns out not to be.
Correct(g, plan) ==
  LET delta   == Corrections(g, plan)
      rows    == CorrectedRows(g, plan)
      was(k)  == IF k \in DOMAIN g.conns THEN g.conns[k].class ELSE "none"
      copies  == {k \in Changed(g, plan) : plan[k] = "confirmed"}
      cleared == {k \in Changed(g, plan) : was(k) = "confirmed"}
  IN  [g EXCEPT !.rows = rows,
                !.exact = AddHours(@, delta, TRUE),
                !.estimated = AddHours(@, delta, FALSE),
                !.counted = {p \in @ : p[2] \notin copies} \cup
                            {p \in CountedIn(rows) : p[2] \in cleared}]

-----------------------------------------------------------------------------
(* The transactions.                                                       *)

Done(w) == job' = [job EXCEPT ![w] = NoJob]
Ready(w, mode) == job[w].stage = "ready" /\ job[w].mode = mode
Untouched(w) == gen.id = job[w].gen /\ gen.published = job[w].from

AddedBytes(rows) == Total([i \in DOMAIN rows |-> log[i].bytes])
AddedAccounted(rows) == Total([i \in DOMAIN rows |-> rows[i].acc])

Published(from, to, plan) ==
  LET rows  == NewRows(from, to, plan)
      conns == MergeRange(gen.conns, from, to)
  IN  [Insert(Correct(gen, plan), rows) EXCEPT
         !.conns = [k \in DOMAIN conns |->
                      IF k \in DOMAIN plan THEN [conns[k] EXCEPT !.class = plan[k]]
                      ELSE conns[k]],
         !.published = to,
         !.raw = @ + AddedBytes(rows),
         !.acc = @ + AddedAccounted(rows) + Total(Corrections(gen, plan))]

Commit_Unchecked(w) ==
  /\ Ready(w, "active")
  /\ gen' = IF gen.id = job[w].gen
              THEN Published(job[w].from, job[w].to, job[w].plan) ELSE gen
  /\ Done(w)
  /\ UNCHANGED <<growthVars, faults>>

\* A chunk prepared before someone else published is dropped.
Commit(w) ==
  /\ Ready(w, "active")
  /\ gen' = IF Untouched(w) THEN Published(job[w].from, job[w].to, job[w].plan) ELSE gen
  /\ gen'.acc <= gen'.raw
  /\ Done(w)
  /\ UNCHANGED <<growthVars, faults>>

\* createSeedGeneration, after what a failed one left was cleaned up.
CreateSeed(w) ==
  /\ job[w] = NoJob /\ Alone(w)
  /\ gen.status \in {"none", "failed", "superseded"} /\ gen.id < MaxGens
  /\ gen' = NewGen(gen.id + 1, Len(log))
  /\ UNCHANGED <<growthVars, job, faults>>

SeedChunk(w) ==
  /\ Ready(w, "seeding")
  /\ gen' = [gen EXCEPT !.conns = MergeRange(@, job[w].from, job[w].to),
                        !.seedLast = job[w].to]
  /\ Done(w)
  /\ UNCHANGED <<growthVars, faults>>

ClassifySeed(w) ==
  /\ job[w] = NoJob /\ Alone(w)
  /\ gen.status = "seeding" /\ gen.seedLast >= gen.boundary
  /\ gen' = [gen EXCEPT !.status = "materializing", !.matLast = 0,
                        !.conns = Classified(@, gen.boundary)]
  /\ UNCHANGED <<growthVars, job, faults>>

MaterializeChunk(w) ==
  /\ Ready(w, "materializing")
  /\ gen' = [Insert(gen, NewRows(job[w].from, job[w].to,
                                 [k \in DOMAIN gen.conns |-> gen.conns[k].class]))
             EXCEPT !.matLast = job[w].to]
  /\ Done(w)
  /\ UNCHANGED <<growthVars, faults>>

Materialized(w) ==
  job[w] = NoJob /\ Alone(w)
  /\ gen.status = "materializing" /\ gen.matLast >= gen.boundary

Activate(w) ==
  /\ Materialized(w)
  /\ gen' = [gen EXCEPT !.status = "active", !.published = gen.boundary,
                        !.raw = AddedBytes(gen.rows),
                        !.acc = AddedAccounted(gen.rows)]
  /\ gen'.acc <= gen'.raw
  /\ UNCHANGED <<growthVars, job, faults>>

\* Any error of that transaction, cancellation included, fails the generation.
ActivationFails(w) ==
  /\ Materialized(w)
  /\ faults < MaxFaults /\ faults' = faults + 1
  /\ gen' = [gen EXCEPT !.status = "failed"]
  /\ UNCHANGED <<growthVars, job>>

\* `collector storage seed-v2 --force`.
Supersede ==
  /\ gen.status = "active" /\ gen.id < MaxGens
  /\ gen' = [gen EXCEPT !.status = "superseded"]
  /\ UNCHANGED <<growthVars, job, faults>>

\* An error, a cancelled context or a crash before the transaction commits.
GivesUp(w) ==
  /\ job[w] # NoJob
  /\ faults < MaxFaults /\ faults' = faults + 1
  /\ Done(w)
  /\ UNCHANGED <<growthVars, gen>>

-----------------------------------------------------------------------------
Init ==
  /\ GrowthInit
  /\ gen = [NewGen(0, 0) EXCEPT !.status = "none"]
  /\ job = [w \in Worker |-> NoJob]
  /\ faults = 0

Work(w) ==
  \/ CreateSeed(w) \/ StartTick(w) \/ Measure(w) \/ Verify(w)
  \/ SeedChunk(w) \/ ClassifySeed(w) \/ MaterializeChunk(w) \/ Activate(w)
  \/ Commit(w)

Next ==
  \/ SessionBegins \/ CollectorWrites \/ SessionEnds
  \/ \E w \in Worker : Work(w) \/ GivesUp(w) \/ ActivationFails(w)
  \/ Supersede

Spec == Init /\ [][Next]_vars

\* The scheduler ticks for as long as the runtime is up.
FairSpec == Spec /\ \A w \in Worker : WF_vars(Work(w))

-----------------------------------------------------------------------------
(* Properties.                                                             *)

Active == gen.status = "active"
Plain(conns) == [k \in DOMAIN conns |-> [conns[k] EXCEPT !.class = "unique"]]
Covered == CASE gen.status = "seeding" -> gen.seedLast
             [] gen.status = "none" -> 0
             [] gen.status \in {"active", "superseded"} -> gen.published
             [] OTHER -> gen.boundary

\* The connection state is what the covered journal amounts to, no event twice
\* and none left out, whatever gave up and whoever else worked at it
\* (accounting_v2.go 706-826, 430-465: "retries are idempotent").
StateFollowsJournal == Plain(gen.conns) = MergeRange(<< >>, 0, Covered)

\* An active generation holds one row for each event with bytes up to what it
\* has published, accounted by the class of its connection, and totals that
\* add up (accounting_v2.go 552-616, 1929-2047, 2262-2467).
RowsFollowClasses ==
  Active =>
    /\ DOMAIN gen.rows = Traffic(0, gen.published)
    /\ \A i \in DOMAIN gen.rows :
         gen.rows[i].acc = Accounted(log[i].bytes, gen.conns[KeyOf(log[i])].class)
    /\ gen.raw = AddedBytes(gen.rows)
    /\ gen.acc = AddedAccounted(gen.rows)

HoursOfRows(exact) ==
  AddHours(NoHours, [i \in DOMAIN gen.rows |-> gen.rows[i].acc], exact)

\* The hourly bytes of exact rows and the connections counted in an hour are
\* those of the rows, through every correction (accounting_v2.go 1942-2151).
HoursFollowRows ==
  gen.exact = HoursOfRows(TRUE) /\ gen.counted = CountedIn(gen.rows)

\* The same of bytes attributed over an interval (ADR 0010, 2.2: corrections
\* are "byte re-write + hourly aggregate adjustment").
EstimatesFollowRows == gen.estimated = HoursOfRows(FALSE)

\* What is published never ends inside the connections of a frame that a
\* running session may still be writing (accounting_v2.go 1062-1064).
FramesWhole ==
  (Active /\ gen.published > 0 /\ running[log[gen.published].session]) =>
    ~\E i \in InFrameOf(gen.published) : i > gen.published /\ NamesConn(log[i])

\* The classes a rebuild of everything published would give.
FromScratch == Classified(MergeRange(<< >>, 0, gen.published), gen.published)

\* Every two connections that could be a relay's and an application's ended in
\* the same frame, or neither has ended, as effectiveLastObs has it (1781-1801):
\* one seen again after it was gone has not ended.
PairsEndTogether ==
  \A k, j \in DOMAIN gen.conns :
    SameGroup(k, j) /\ Pairs(k, j) => EndOf(gen.conns[k]) = EndOf(gen.conns[j])

\* Then the bounded closure decides as a rebuild does (accounting_v2.go
\* 866-873: "the SQL filter below is a sound superset").
ClosureIsEnough == (Active /\ PairsEndTogether) => gen.conns = FromScratch

\* Decided or not, incremental accounting agrees with a rebuild (ADR 0010, 2.2:
\* "v2 and legacy provably agree").
AgreesWithRebuild == Active => gen.conns = FromScratch

Over == \A s \in DOMAIN running : ~running[s]

\* Once the collector has stopped, what it wrote is published in the end
\* (runtime.go 265-290, accounting_scheduler.go 149-230).
LagCloses == (Active /\ Over) ~> (~Active \/ ~Over \/ gen.published = Len(log))

\* And so does a seed come to its end (runtime.go 268: "this also drives a
\* still-running seed to completion").
SeedCompletes == (gen.status = "seeding" /\ Over) ~> (gen.status # "seeding" \/ ~Over)
=============================================================================
