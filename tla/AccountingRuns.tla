--------------------------- MODULE AccountingRuns ---------------------------
(***************************************************************************)
(* The runs of the legacy accounting: rebuilds of the derived tables up to *)
(* a boundary of the journal (RebuildAccounting), the cleanup of old runs  *)
(* (PlanDerivedRetention, ApplyDerivedRetention) and a reader of the       *)
(* latest run, when no generation of Accounting is active.                 *)
(*                                                                         *)
(* Each is a process of its own and works in many short transactions.  Its *)
(* run is the only thing a rebuild shares with the others; the rows of a   *)
(* run are told apart by their number alone.  What they hold is in         *)
(* Classification.                                                         *)
(***************************************************************************)
EXTENDS Integers, FiniteSets, FiniteSetsExt, Functions

CONSTANTS Rebuilders, Cleaners,      \* processes
          Keeps,                     \* values of --keep-runs
          Batch,                     \* rows in a transaction
          MaxRuns, MaxEvents, MaxFaults   \* bounds

ASSUME RunsAssumption ==
  /\ Keeps \subseteq Nat \ {0} /\ Batch \in Nat \ {0}
  /\ {MaxRuns, MaxEvents, MaxFaults} \subseteq Nat

VARIABLES
  journal,    \* events in the journal
  tickets,    \* rebuilds called so far; a run's number is its place by started_at
  runs,       \* accounting_runs: number -> status, boundary, age
  rows,       \* number -> rows of the run in each derived table
  rebuild,    \* process -> where its rebuild is
  clean,      \* process -> where its cleanup is
  reader,     \* the query under way
  faults

vars == <<journal, tickets, runs, rows, rebuild, clean, reader, faults>>

Numbers == 1..MaxRuns
Tables == {"relations", "traffic", "hours"}
NoRows == [t \in Tables |-> 0]

With(status) == {r \in DOMAIN runs : runs[r].status = status}
Sets(r, status) == IF r \in DOMAIN runs THEN [runs EXCEPT ![r].status = status] ELSE runs
Least(m, n) == IF m < n THEN m ELSE n

-----------------------------------------------------------------------------
(* The rebuild.                                                            *)

Idle == [pc |-> "idle", run |-> 0, boundary |-> 0, hours |-> 0, written |-> 0]
At(p, l) == rebuild[p].pc = l
Goes(p, l) == rebuild' = [rebuild EXCEPT ![p].pc = l]

rebuildOnly == UNCHANGED <<journal, clean, reader>>

\* started_at and the run's name are taken before the transaction that inserts it.
Call(p) ==
  /\ At(p, "idle") /\ tickets < MaxRuns /\ tickets' = tickets + 1
  /\ rebuild' = [rebuild EXCEPT ![p] = [Idle EXCEPT !.pc = "capture", !.run = tickets + 1]]
  /\ UNCHANGED <<runs, rows, faults>> /\ rebuildOnly

Abandoned == {r \in With("running") : r = Max(With("running")) /\ runs[r].age # "young"}

Captured(p) == [status |-> "running", boundary |-> journal, age |-> "young"]

\* Mutant: whether another run is running is not asked.
Capture_Unasked(p) ==
  /\ At(p, "capture")
  /\ runs' = [r \in DOMAIN runs \cup {rebuild[p].run} |->
                IF r = rebuild[p].run THEN Captured(p) ELSE runs[r]]
  /\ rebuild' = [rebuild EXCEPT ![p].pc = "relations", ![p].boundary = journal]
  /\ UNCHANGED <<tickets, rows, faults>> /\ rebuildOnly

\* A run that has been running for ten minutes is marked failed, a younger one
\* is in the way.
Capture(p) ==
  /\ At(p, "capture")
  /\ \/ /\ With("running") = Abandoned
        /\ runs' = [r \in DOMAIN runs \cup {rebuild[p].run} |->
                      IF r = rebuild[p].run THEN Captured(p)
                      ELSE IF r \in Abandoned THEN [runs[r] EXCEPT !.status = "failed"]
                      ELSE runs[r]]
        /\ rebuild' = [rebuild EXCEPT ![p].pc = "relations", ![p].boundary = journal]
     \/ /\ With("running") # Abandoned
        /\ rebuild' = [rebuild EXCEPT ![p] = Idle] /\ UNCHANGED runs
  /\ UNCHANGED <<tickets, rows, faults>> /\ rebuildOnly

\* A relation and a row of traffic for every event stand for as many as there are.
Need(p) == [relations |-> rebuild[p].boundary, traffic |-> rebuild[p].boundary,
            hours |-> rebuild[p].hours]
After == [relations |-> "traffic", traffic |-> "aggregate", hours |-> "publish"]

\* One transaction of a batch, or the end of the table.  Only this process knows how
\* many rows it has written: what is there may have been deleted meanwhile.
WriteBatch(p) ==
  \E t \in Tables :
    /\ At(p, t)
    /\ LET left == Need(p)[t] - rebuild[p].written
           n == Least(Batch, left)
       IN IF left = 0
            THEN /\ rebuild' = [rebuild EXCEPT ![p].pc = After[t], ![p].written = 0]
                 /\ UNCHANGED rows
            ELSE /\ rebuild' = [rebuild EXCEPT ![p].written = @ + n]
                 /\ rows' = [rows EXCEPT ![rebuild[p].run][t] = @ + n]
    /\ UNCHANGED <<tickets, runs, faults>> /\ rebuildOnly

\* The hours are computed from the traffic rows there are.
Aggregate(p) ==
  /\ At(p, "aggregate")
  /\ rebuild' = [rebuild EXCEPT ![p].pc = "hours", ![p].hours = rows[rebuild[p].run].traffic]
  /\ UNCHANGED <<tickets, runs, rows, faults>> /\ rebuildOnly

\* Whatever became of the run meanwhile.
Publish(p) ==
  /\ At(p, "publish")
  /\ runs' = Sets(rebuild[p].run, "completed")
  /\ rebuild' = [rebuild EXCEPT ![p] = Idle]
  /\ UNCHANGED <<tickets, rows, faults>> /\ rebuildOnly

\* An error before the transaction at hand, then markFailed, whose own error is ignored.
Fails(p) ==
  /\ ~At(p, "idle") /\ ~At(p, "markFailed") /\ faults < MaxFaults /\ faults' = faults + 1
  /\ IF At(p, "capture") THEN rebuild' = [rebuild EXCEPT ![p] = Idle] ELSE Goes(p, "markFailed")
  /\ UNCHANGED <<tickets, runs, rows>> /\ rebuildOnly

MarkFailed(p) ==
  /\ At(p, "markFailed")
  /\ runs' \in {runs, Sets(rebuild[p].run, "failed")}
  /\ rebuild' = [rebuild EXCEPT ![p] = Idle]
  /\ UNCHANGED <<tickets, rows, faults>> /\ rebuildOnly

Dies(p) ==
  /\ ~At(p, "idle") /\ faults < MaxFaults /\ faults' = faults + 1
  /\ rebuild' = [rebuild EXCEPT ![p] = Idle]
  /\ UNCHANGED <<tickets, runs, rows>> /\ rebuildOnly

RebuildAccounting(p) ==
  \/ Call(p) \/ Capture(p) \/ WriteBatch(p) \/ Aggregate(p) \/ Publish(p)
  \/ Fails(p) \/ MarkFailed(p) \/ Dies(p)

-----------------------------------------------------------------------------
(* The cleanup.                                                            *)

Resting == [pc |-> "idle", completed |-> {}, failed |-> {}, run |-> 0]
cleanOnly == UNCHANGED <<journal, tickets, rebuild, reader>>

\* The completed runs after the first keep, newest first.
Beyond(keep) ==
  {r \in With("completed") : Cardinality({q \in With("completed") : q > r}) >= keep}

\* Mutant: the last of the runs to keep is planned as well.
PlanCompleted_OneMore(c) ==
  /\ clean[c].pc = "idle"
  /\ \E keep \in Keeps :
       clean' = [clean EXCEPT ![c].pc = "planFailed", ![c].completed = Beyond(keep - 1)]
  /\ UNCHANGED <<runs, rows, faults>> /\ cleanOnly

\* PlanDerivedRetention reads the completed runs and the failed ones in two queries,
\* and ApplyDerivedRetention does not read them again.
PlanCompleted(c) ==
  /\ clean[c].pc = "idle"
  /\ \E keep \in Keeps :
       clean' = [clean EXCEPT ![c].pc = "planFailed", ![c].completed = Beyond(keep)]
  /\ UNCHANGED <<runs, rows, faults>> /\ cleanOnly

PlanFailed(c) ==
  /\ clean[c].pc = "planFailed"
  /\ clean' = [clean EXCEPT ![c].pc = "next",
                            ![c].failed = {r \in With("failed") : runs[r].age = "expired"}]
  /\ UNCHANGED <<runs, rows, faults>> /\ cleanOnly

\* The completed runs go first, newest first; the failed ones are in no order.
Planned(c) ==
  IF clean[c].completed # {} THEN {Max(clean[c].completed)} ELSE clean[c].failed

NextRun(c) ==
  /\ clean[c].pc = "next"
  /\ \E r \in Planned(c) :
       clean' = [clean EXCEPT ![c].pc = "hours", ![c].run = r,
                              ![c].completed = @ \ {r}, ![c].failed = @ \ {r}]
  /\ UNCHANGED <<runs, rows, faults>> /\ cleanOnly

Then == [hours |-> "traffic", traffic |-> "relations", relations |-> "metadata"]

\* Mutant: the run's record goes first.
DeleteBatch_RunFirst(c) ==
  /\ \E t \in Tables :
       /\ clean[c].pc = t
       /\ IF rows[clean[c].run][t] = 0
            THEN clean' = [clean EXCEPT ![c].pc = Then[t]] /\ UNCHANGED rows
            ELSE /\ rows' = [rows EXCEPT ![clean[c].run][t] = @ - Least(Batch, @)]
                 /\ UNCHANGED clean
       /\ runs' = Restrict(runs, DOMAIN runs \ {clean[c].run})
  /\ UNCHANGED faults /\ cleanOnly

\* A batch of some rows of the table, until none is found.
DeleteBatch(c) ==
  /\ \E t \in Tables :
       /\ clean[c].pc = t
       /\ IF rows[clean[c].run][t] = 0
            THEN clean' = [clean EXCEPT ![c].pc = Then[t]] /\ UNCHANGED rows
            ELSE /\ rows' = [rows EXCEPT ![clean[c].run][t] = @ - Least(Batch, @)]
                 /\ UNCHANGED clean
  /\ UNCHANGED <<runs, faults>> /\ cleanOnly

DeleteRun(c) ==
  /\ clean[c].pc = "metadata"
  /\ runs' = Restrict(runs, DOMAIN runs \ {clean[c].run})
  /\ clean' = [clean EXCEPT ![c].pc = "next"]
  /\ UNCHANGED <<rows, faults>> /\ cleanOnly

\* All done, or an error or the death of the process between two transactions.
CleanupEnds(c) ==
  /\ clean[c].pc # "idle"
  /\ \/ clean[c].pc = "next" /\ Planned(c) = {} /\ UNCHANGED faults
     \/ faults < MaxFaults /\ faults' = faults + 1
  /\ clean' = [clean EXCEPT ![c] = Resting]
  /\ UNCHANGED <<runs, rows>> /\ cleanOnly

Cleanup(c) ==
  \/ PlanCompleted(c) \/ PlanFailed(c) \/ NextRun(c)
  \/ DeleteBatch(c) \/ DeleteRun(c) \/ CleanupEnds(c)

-----------------------------------------------------------------------------
(* The reader.                                                             *)

Waiting == [pc |-> "idle", run |-> 0, boundary |-> 0, seen |-> NoRows,
            asked |-> 0, max |-> 0, fresh |-> FALSE, overtaken |-> FALSE]
readOnly == UNCHANGED <<journal, tickets, runs, rows, rebuild, clean, faults>>

\* GetLatestCompletedAccountingRun: by started_at.
Latest == IF With("completed") = {} THEN 0 ELSE Max(With("completed"))

\* GetUsageSummary sums up the rows of the run it was sent to, then asks for the last
\* event of the journal, then for the latest run again: four queries, no transaction.
ResolveScope ==
  /\ reader.pc = "idle" /\ Latest # 0
  /\ reader' = [Waiting EXCEPT !.pc = "rows", !.run = Latest,
                               !.boundary = runs[Latest].boundary, !.asked = journal]
  /\ readOnly

ReadRows ==
  /\ reader.pc = "rows"
  /\ reader' = [reader EXCEPT !.pc = "journal", !.seen = rows[reader.run]]
  /\ readOnly

ReadJournal ==
  /\ reader.pc = "journal"
  /\ reader' = [reader EXCEPT !.pc = "freshness", !.max = journal]
  /\ readOnly

\* Of the events there were, those after the run's boundary.
Lag(run) ==
  LET boundary == IF run = 0 THEN 0 ELSE runs[run].boundary
  IN IF reader.max > boundary THEN reader.max - boundary ELSE 0

\* Mutant: a run that is being rebuilt counts already.
ReadFreshness_Running ==
  /\ reader.pc = "freshness"
  /\ LET run == Max(With("completed") \cup With("running"))
     IN reader' = [reader EXCEPT !.pc = "answered", !.overtaken = Latest > reader.run,
                                 !.fresh = Lag(run) = 0]
  /\ readOnly

ReadFreshness ==
  /\ reader.pc = "freshness"
  /\ reader' = [reader EXCEPT !.pc = "answered", !.overtaken = Latest > reader.run,
                              !.fresh = Lag(Latest) = 0]
  /\ readOnly

Forget == reader.pc = "answered" /\ reader' = Waiting /\ readOnly

Reader == ResolveScope \/ ReadRows \/ ReadJournal \/ ReadFreshness \/ Forget

-----------------------------------------------------------------------------
(* The rest of the world.                                                  *)

CollectorWrites ==
  /\ journal < MaxEvents /\ journal' = journal + 1
  /\ UNCHANGED <<tickets, runs, rows, rebuild, clean, reader, faults>>

WorksOn(p, r) == rebuild[p].run = r /\ ~At(p, "idle")

\* Ten minutes are over, more than a rebuild waits for its first transaction (15 tries
\* of ten seconds); then the days after which a failed run is no longer kept, more
\* than a rebuild takes.  Nobody asks how old a completed run is.
Ages(r) ==
  /\ runs[r].status # "completed"
  /\ \/ /\ runs[r].age = "young"
        /\ \A p \in Rebuilders : At(p, "capture") => rebuild[p].run > r
        /\ runs' = [runs EXCEPT ![r].age = "stale"]
     \/ /\ runs[r].age = "stale"
        /\ \A p \in Rebuilders : ~WorksOn(p, r)
        /\ runs' = [runs EXCEPT ![r].age = "expired"]
  /\ UNCHANGED <<journal, tickets, rows, rebuild, clean, reader, faults>>

Init ==
  /\ journal = 0 /\ tickets = 0 /\ faults = 0
  /\ runs = << >> /\ rows = [r \in Numbers |-> NoRows]
  /\ rebuild = [p \in Rebuilders |-> Idle] /\ clean = [c \in Cleaners |-> Resting]
  /\ reader = Waiting

Next ==
  \/ \E p \in Rebuilders : RebuildAccounting(p)
  \/ \E c \in Cleaners : Cleanup(c)
  \/ Reader
  \/ CollectorWrites
  \/ \E r \in DOMAIN runs : Ages(r)

Spec == Init /\ [][Next]_vars

-----------------------------------------------------------------------------
(* Properties.                                                             *)

Whole(boundary, seen) ==
  seen = [relations |-> boundary, traffic |-> boundary, hours |-> boundary]

\* The run readers are sent to has all its rows, whoever rebuilds, cleans up, fails or
\* dies at the time.
LatestIsWhole == Latest # 0 => Whole(runs[Latest].boundary, rows[Latest])

\* Only if a newer run was published since a query was sent to one may it find that one
\* half deleted, or be told that it is fresh without the events that were in the
\* journal when it was asked.
AnswerHolds ==
  reader.pc = "answered" /\ ~reader.overtaken =>
    /\ Whole(reader.boundary, reader.seen)
    /\ reader.fresh => reader.boundary >= reader.asked

\* Rows without a run on record could never be cleaned up again.
RowsHaveRun == \A r \in Numbers \ DOMAIN runs : rows[r] = NoRows

\* No publication and no cleanup sends readers back to an older boundary, or to none.
BoundaryForward ==
  [][Latest # 0 => Latest' # 0 /\ runs'[Latest'].boundary >= runs[Latest].boundary]_vars
=============================================================================
