------------------------ MODULE AccountingRunsProofs ------------------------
(***************************************************************************)
(* Theorems about AccountingRuns, for any number of rebuilds, cleanups and *)
(* runs, any batch and any number of runs to keep: the run readers are     *)
(* sent to is whole and never gives way to an older boundary, what they    *)
(* are answered holds, and no rows are left without a run.                 *)
(*                                                                         *)
(* The invariant says whose a run is: of the one rebuild that works on it, *)
(* with the rows that rebuild has come to, or of nobody, and only then of  *)
(* the cleanups, which have only what is older than the latest run.        *)
(***************************************************************************)
EXTENDS AccountingRuns, WellFoundedInduction, FiniteSetTheorems, TLAPS

Writing == {"relations", "traffic", "aggregate", "hours", "publish", "markFailed"}
Deleting == {"hours", "traffic", "relations", "metadata"}

Run == [status : {"running", "completed", "failed"}, boundary : Nat,
        age : {"young", "stale", "expired"}]
Row == [Tables -> Nat]
Rebuilding == [pc : Writing \cup {"idle", "capture"}, run : Nat, boundary : Nat,
               hours : Nat, written : Nat]
Cleaning == [pc : Deleting \cup {"idle", "planFailed", "next"}, completed : SUBSET Nat,
             failed : SUBSET Nat, run : Nat]
Reading == [pc : {"idle", "rows", "journal", "freshness", "answered"}, run : Nat,
            boundary : Nat, seen : Row, asked : Nat, max : Nat,
            fresh : BOOLEAN, overtaken : BOOLEAN]

TypeInv ==
  /\ journal \in Nat /\ faults \in Nat /\ tickets \in Nat /\ tickets <= MaxRuns
  /\ runs \in [DOMAIN runs -> Run] /\ DOMAIN runs \subseteq 1..tickets
  /\ rows \in [Numbers -> Row]
  /\ rebuild \in [Rebuilders -> Rebuilding]
  /\ clean \in [Cleaners -> Cleaning]
  /\ reader \in Reading

-----------------------------------------------------------------------------
(* Whose a run is.                                                         *)

\* A run number belongs to one rebuild, which has yet to put it on record or to finish it.
OwnerInv ==
  /\ \A p \in Rebuilders : ~At(p, "idle") => rebuild[p].run \in 1..tickets
  /\ \A p, q \in Rebuilders :
       p # q /\ ~At(p, "idle") /\ ~At(q, "idle") => rebuild[p].run # rebuild[q].run
  /\ \A p \in Rebuilders : At(p, "capture") => rebuild[p].run \notin DOMAIN runs
  /\ \A p \in Rebuilders : rebuild[p].pc \in Writing =>
       /\ rebuild[p].run \in DOMAIN runs
       /\ runs[rebuild[p].run].boundary = rebuild[p].boundary
       /\ runs[rebuild[p].run].status # "completed"
       /\ runs[rebuild[p].run].status = "running" \/ runs[rebuild[p].run].age # "young"

\* What a run's age says of the rebuilds.
AgeInv ==
  \A r \in DOMAIN runs :
    /\ runs[r].boundary <= journal
    /\ runs[r].age # "young" =>
         \A p \in Rebuilders : At(p, "capture") => rebuild[p].run > r
    /\ runs[r].age = "expired" => \A p \in Rebuilders : ~WorksOn(p, r)

\* No earlier run has a later boundary than a run that is still written.
RisingInv ==
  \A p \in Rebuilders : rebuild[p].pc \in Writing =>
    \A r \in DOMAIN runs :
      r < rebuild[p].run => runs[r].boundary <= runs[rebuild[p].run].boundary

\* The rows of a run that is written are those its rebuild has come to.
Holds(row, relations, traffic, hours) ==
  row = [relations |-> relations, traffic |-> traffic, hours |-> hours]
ProgressInv ==
  /\ RowsHaveRun
  /\ \A p \in Rebuilders :
       LET b == rebuild[p].boundary
           w == rebuild[p].written
           row == rows[rebuild[p].run]
       IN /\ At(p, "capture") => w = 0
          /\ At(p, "relations") => w <= b /\ Holds(row, w, 0, 0)
          /\ At(p, "traffic") => w <= b /\ Holds(row, b, w, 0)
          /\ At(p, "aggregate") => w = 0 /\ Holds(row, b, b, 0)
          /\ At(p, "hours") => w <= b /\ rebuild[p].hours = b /\ Holds(row, b, b, w)
          /\ At(p, "publish") => Holds(row, b, b, b)

\* What a cleanup has planned nobody works on, and it is not the latest run.
Spent(r) ==
  /\ r \in 1..tickets
  /\ \A p \in Rebuilders : ~WorksOn(p, r)
  /\ r \in DOMAIN runs => \/ runs[r].status = "completed" /\ r < Latest
                          \/ runs[r].status = "failed"
CleanOf(c) ==
  /\ \A r \in clean[c].completed \cup clean[c].failed : Spent(r)
  /\ clean[c].pc \in Deleting => Spent(clean[c].run)
  /\ clean[c].pc \in {"traffic", "relations", "metadata"} => rows[clean[c].run].hours = 0
  /\ clean[c].pc \in {"relations", "metadata"} => rows[clean[c].run].traffic = 0
  /\ clean[c].pc = "metadata" => rows[clean[c].run].relations = 0
CleanInv == \A c \in Cleaners : CleanOf(c)

\* Only behind the latest run is a completed one not whole.
WholeInv ==
  \A r \in With("completed") : Whole(runs[r].boundary, rows[r]) \/ r < Latest

\* A query is behind, or what it has read is of the latest run.
ReaderInv ==
  reader.pc # "idle" =>
    /\ 0 < reader.run /\ reader.run <= Latest /\ reader.asked <= journal
    /\ reader.run = Latest => reader.boundary = runs[Latest].boundary
    /\ reader.pc \in {"journal", "freshness"} /\ reader.run = Latest =>
         Whole(reader.boundary, reader.seen)
    /\ reader.pc = "freshness" => reader.asked <= reader.max
    /\ AnswerHolds

RunsInv ==
  /\ TypeInv /\ OwnerInv /\ AgeInv /\ RisingInv /\ ProgressInv
  /\ CleanInv /\ WholeInv /\ ReaderInv

-----------------------------------------------------------------------------
(* The latest run.                                                         *)

LEMMA GreatestOf ==
  ASSUME NEW n \in Nat, NEW S \in SUBSET (1..n), S # {}
  PROVE  Max(S) \in S /\ \A x \in S : x <= Max(S)
<1> DEFINE T == {n - x : x \in S}
<1>1. T \subseteq Nat /\ T # {}
  <2>1. PICK x \in S : TRUE
    OBVIOUS
  <2>2. n - x \in T
    BY <2>1
  <2>3. \A y \in S : n - y \in Nat
    OBVIOUS
  <2> QED BY <2>2, <2>3
<1>2. IsWellFoundedOn(OpToRel(<, Nat), Nat)
  BY NatLessThanWellFounded
<1>3. PICK m \in T : \A y \in T : ~(<<y, m>> \in OpToRel(<, Nat))
  BY <1>1, <1>2, WFMin
<1>4. \A y \in T : ~(y < m)
  BY <1>1, <1>3 DEF OpToRel
<1>5. PICK x \in S : m = n - x
  OBVIOUS
<1>6. \A y \in S : y <= x
  <2> TAKE y \in S
  <2>1. n - y \in T
    OBVIOUS
  <2>2. ~(n - y < n - x)
    BY <2>1, <1>4, <1>5
  <2> QED BY <2>2
<1> QED BY <1>6 DEF Max

\* The latest of some completed runs, whichever they are.
LEMMA LatestOf ==
  ASSUME NEW n \in Nat, NEW S \in SUBSET (1..n), NEW latest,
         latest = IF S = {} THEN 0 ELSE Max(S)
  PROVE  /\ latest \in 0..n /\ \A r \in S : r <= latest
         /\ S = {} => latest = 0
         /\ S # {} => latest \in S /\ latest > 0
<1>1. CASE S = {}
  BY <1>1
<1>2. CASE S # {}
  <2>1. latest = Max(S) /\ latest \in S /\ \A r \in S : r <= latest
    BY <1>2, GreatestOf
  <2> QED BY <1>2, <2>1
<1> QED BY <1>1, <1>2

-----------------------------------------------------------------------------
(* Types.                                                                  *)

LEMMA LatestTyped ==
  ASSUME TypeInv
  PROVE  /\ Latest \in 0..tickets /\ \A r \in With("completed") : r <= Latest
         /\ With("completed") = {} => Latest = 0
         /\ With("completed") # {} => Latest \in With("completed") /\ Latest > 0
<1>1. tickets \in Nat /\ With("completed") \in SUBSET (1..tickets)
  BY DEF TypeInv, With
<1>2. Latest = IF With("completed") = {} THEN 0 ELSE Max(With("completed"))
  BY DEF Latest
<1> QED BY ONLY <1>1, <1>2, LatestOf

LEMMA LatestTyped2 ==
  ASSUME TypeInv'
  PROVE  /\ Latest' \in 0..tickets' /\ \A r \in With("completed")' : r <= Latest'
         /\ With("completed")' = {} => Latest' = 0
         /\ With("completed")' # {} => Latest' \in With("completed")' /\ Latest' > 0
<1>1. tickets' \in Nat /\ With("completed")' \in SUBSET (1..tickets')
  BY DEF TypeInv, With
<1>2. Latest' = IF With("completed")' = {} THEN 0 ELSE Max(With("completed")')
  BY DEF Latest
<1> QED BY ONLY <1>1, <1>2, LatestOf

LEMMA SetsTyped ==
  ASSUME TypeInv, NEW r \in Nat, NEW s \in {"running", "completed", "failed"}
  PROVE  /\ DOMAIN Sets(r, s) = DOMAIN runs
         /\ Sets(r, s) \in [DOMAIN runs -> Run]
         /\ \A q \in DOMAIN runs :
              Sets(r, s)[q] = IF q = r THEN [runs[q] EXCEPT !.status = s] ELSE runs[q]
BY DEF TypeInv, Sets, Run

LEMMA RowsPut ==
  ASSUME NEW all \in [Numbers -> Row], NEW r \in Numbers, NEW t \in Tables, NEW n \in Nat
  PROVE  /\ [all EXCEPT ![r][t] = n] \in [Numbers -> Row]
         /\ [all EXCEPT ![r][t] = n][r] = [all[r] EXCEPT ![t] = n]
         /\ \A q \in Numbers \ {r} : [all EXCEPT ![r][t] = n][q] = all[q]
<1>1. [all[r] EXCEPT ![t] = n] \in Row
  BY DEF Row
<1> QED BY <1>1

\* A batch is a part of what is left, and the next table comes when nothing is.
LEMMA BatchWritten ==
  ASSUME TypeInv, OwnerInv, ProgressInv, NEW p \in Rebuilders, WriteBatch(p)
  PROVE  \E t \in Tables :
           /\ At(p, t) /\ rebuild[p].run \in Numbers /\ Need(p)[t] \in Nat
           /\ \/ /\ rebuild[p].written = Need(p)[t] /\ rows' = rows
                 /\ rebuild' = [rebuild EXCEPT ![p].pc = After[t], ![p].written = 0]
              \/ \E n \in Nat :
                   /\ rebuild[p].written + n <= Need(p)[t]
                   /\ rebuild' = [rebuild EXCEPT ![p].written = @ + n]
                   /\ rows' = [rows EXCEPT ![rebuild[p].run][t] = @ + n]
<1>1. PICK t \in Tables :
        /\ At(p, t)
        /\ LET left == Need(p)[t] - rebuild[p].written
               n == Least(Batch, left)
           IN IF left = 0
                THEN /\ rebuild' = [rebuild EXCEPT ![p].pc = After[t], ![p].written = 0]
                     /\ rows' = rows
                ELSE /\ rebuild' = [rebuild EXCEPT ![p].written = @ + n]
                     /\ rows' = [rows EXCEPT ![rebuild[p].run][t] = @ + n]
  BY DEF WriteBatch
<1>2. rebuild[p] \in Rebuilding /\ rebuild[p].run \in 1..tickets
  BY <1>1 DEF TypeInv, OwnerInv, At, Tables
<1>3. rebuild[p].run \in Numbers /\ tickets <= MaxRuns /\ MaxRuns \in Nat
  BY <1>2, RunsAssumption DEF TypeInv, Numbers
<1>4. Need(p)[t] \in Nat /\ rebuild[p].written \in Nat /\ rebuild[p].written <= Need(p)[t]
  BY <1>1, <1>2 DEF Need, ProgressInv, Tables, Rebuilding
<1>5. CASE Need(p)[t] - rebuild[p].written = 0
  <2>1. rebuild[p].written = Need(p)[t]
    BY <1>4, <1>5
  <2> QED BY <1>1, <1>3, <1>4, <1>5, <2>1
<1>6. CASE Need(p)[t] - rebuild[p].written # 0
  <2> DEFINE n == Least(Batch, Need(p)[t] - rebuild[p].written)
  <2>1. n \in Nat /\ rebuild[p].written + n <= Need(p)[t]
    BY <1>4, RunsAssumption DEF Least
  <2> QED BY <1>1, <1>3, <1>4, <1>6, <2>1
<1> QED BY <1>5, <1>6

LEMMA TypeOfRebuild ==
  ASSUME TypeInv, OwnerInv, ProgressInv, NEW p \in Rebuilders, RebuildAccounting(p)
  PROVE  TypeInv'
<1> USE RunsAssumption DEF TypeInv
<1>1. rebuild[p] \in Rebuilding
  OBVIOUS
<1>2. CASE Call(p)
  <2>1. rebuild' \in [Rebuilders -> Rebuilding]
    <3>1. [Idle EXCEPT !.pc = "capture", !.run = tickets + 1] \in Rebuilding
      <4>1. tickets + 1 \in Nat
        OBVIOUS
      <4> QED BY ONLY <4>1 DEF Idle, Rebuilding
    <3> QED BY <1>2, <3>1 DEF Call
  <2>2. tickets' \in Nat /\ tickets' <= MaxRuns /\ DOMAIN runs' \subseteq 1..tickets'
    BY <1>2 DEF Call
  <2> QED BY <1>2, <2>1, <2>2 DEF Call, rebuildOnly
<1>3. CASE Capture(p)
  <2>1. rebuild' \in [Rebuilders -> Rebuilding] /\ rebuild[p].run \in 1..tickets
    BY <1>3 DEF Capture, Idle, Rebuilding, Writing, OwnerInv, At
  <2>2. Captured(p) \in Run /\ \A r \in DOMAIN runs : [runs[r] EXCEPT !.status = "failed"] \in Run
    BY DEF Captured, Run
  <2>3. runs' \in [DOMAIN runs' -> Run] /\ DOMAIN runs' \subseteq 1..tickets
    BY <1>3, <2>1, <2>2 DEF Capture
  <2> QED BY <1>3, <2>1, <2>3 DEF Capture, rebuildOnly
<1>4. CASE WriteBatch(p)
  <2>1. PICK t \in Tables :
          /\ At(p, t) /\ rebuild[p].run \in Numbers /\ Need(p)[t] \in Nat
          /\ \/ /\ rebuild[p].written = Need(p)[t] /\ rows' = rows
                /\ rebuild' = [rebuild EXCEPT ![p].pc = After[t], ![p].written = 0]
             \/ \E n \in Nat :
                  /\ rebuild[p].written + n <= Need(p)[t]
                  /\ rebuild' = [rebuild EXCEPT ![p].written = @ + n]
                  /\ rows' = [rows EXCEPT ![rebuild[p].run][t] = @ + n]
    BY <1>4, BatchWritten
  <2>2. rebuild' \in [Rebuilders -> Rebuilding] /\ rows' \in [Numbers -> Row]
    <3>1. rows \in [Numbers -> Row] /\ rebuild \in [Rebuilders -> Rebuilding]
      OBVIOUS
    <3>2. CASE \E n \in Nat : /\ rebuild' = [rebuild EXCEPT ![p].written = @ + n]
                              /\ rows' = [rows EXCEPT ![rebuild[p].run][t] = @ + n]
      <4>1. PICK n \in Nat : /\ rebuild' = [rebuild EXCEPT ![p].written = @ + n]
                             /\ rows' = [rows EXCEPT ![rebuild[p].run][t] = @ + n]
        BY <3>2
      <4>2. rows[rebuild[p].run][t] + n \in Nat
        BY <2>1, <3>1 DEF Row
      <4>3. rows' \in [Numbers -> Row]
        BY ONLY <2>1, <3>1, <4>1, <4>2, RowsPut, SMTT(30)
      <4>4. [rebuild[p] EXCEPT !.written = @ + n] \in Rebuilding
        BY <1>1 DEF Rebuilding
      <4> QED BY ONLY <3>1, <4>1, <4>3, <4>4
    <3>3. CASE /\ rows' = rows
               /\ rebuild' = [rebuild EXCEPT ![p].pc = After[t], ![p].written = 0]
      <4>1. After[t] \in Writing
        BY DEF After, Writing, Tables
      <4>2. [rebuild[p] EXCEPT !.pc = After[t], !.written = 0] \in Rebuilding
        BY ONLY <1>1, <4>1 DEF Rebuilding
      <4> QED BY ONLY <3>1, <3>3, <4>2
    <3> QED BY <2>1, <3>2, <3>3
  <2> QED BY <1>4, <2>2 DEF WriteBatch, rebuildOnly
<1>5. CASE Aggregate(p)
  <2>1. rebuild[p].run \in Numbers
    BY <1>5 DEF Aggregate, OwnerInv, Numbers, At
  <2>2. rows[rebuild[p].run].traffic \in Nat
    BY <2>1 DEF Row, Tables
  <2>3. rebuild' \in [Rebuilders -> Rebuilding]
    BY <1>5, <2>2, ZenonT(40) DEF Aggregate, Rebuilding, Writing
  <2> QED BY <1>5, <2>3 DEF Aggregate, rebuildOnly
<1>6. CASE Publish(p) \/ MarkFailed(p)
  <2>1. rebuild' \in [Rebuilders -> Rebuilding]
    BY <1>6 DEF Publish, MarkFailed, Idle, Rebuilding
  <2>2. rebuild[p].run \in Nat
    BY DEF Rebuilding
  <2>3. \A s \in {"completed", "failed"} :
          /\ DOMAIN Sets(rebuild[p].run, s) = DOMAIN runs
          /\ Sets(rebuild[p].run, s) \in [DOMAIN runs -> Run]
    BY <2>2, SetsTyped
  <2>4. runs' \in [DOMAIN runs -> Run] /\ DOMAIN runs' = DOMAIN runs
    BY <1>6, <2>3 DEF Publish, MarkFailed
  <2> QED BY <1>6, <2>1, <2>4 DEF Publish, MarkFailed, rebuildOnly
<1>7. CASE Fails(p) \/ Dies(p)
  <2>1. rebuild' \in [Rebuilders -> Rebuilding]
    BY <1>7 DEF Fails, Dies, Idle, Rebuilding, Goes, Writing
  <2> QED BY <1>7, <2>1 DEF Fails, Dies, rebuildOnly
<1> QED BY <1>2, <1>3, <1>4, <1>5, <1>6, <1>7 DEF RebuildAccounting

\* A batch takes rows away, and the next table comes when none is left.
LEMMA BatchDeleted ==
  ASSUME TypeInv, CleanInv, NEW c \in Cleaners, DeleteBatch(c)
  PROVE  \E t \in Tables :
           /\ clean[c].pc = t /\ clean[c].run \in Numbers
           /\ \/ /\ rows[clean[c].run][t] = 0 /\ rows' = rows
                 /\ clean' = [clean EXCEPT ![c].pc = Then[t]]
              \/ /\ rows[clean[c].run][t] # 0 /\ clean' = clean
                 /\ \E n \in Nat : rows' = [rows EXCEPT ![clean[c].run][t] = n]
<1>1. PICK t \in Tables :
       /\ clean[c].pc = t
       /\ IF rows[clean[c].run][t] = 0
            THEN clean' = [clean EXCEPT ![c].pc = Then[t]] /\ rows' = rows
            ELSE /\ rows' = [rows EXCEPT ![clean[c].run][t] = @ - Least(Batch, @)]
                 /\ clean' = clean
  BY DEF DeleteBatch
<1>2. clean[c].pc \in Deleting
  BY <1>1 DEF Deleting, Tables
<1>3. clean[c].run \in Numbers
  BY <1>2, RunsAssumption DEF CleanInv, CleanOf, Spent, TypeInv, Numbers
<1>4. rows[clean[c].run][t] \in Nat
  BY <1>3 DEF TypeInv, Row
<1>5. rows[clean[c].run][t] - Least(Batch, rows[clean[c].run][t]) \in Nat
  BY <1>4, RunsAssumption DEF Least
<1>6. CASE rows[clean[c].run][t] = 0
  BY <1>1, <1>3, <1>6
<1>7. CASE rows[clean[c].run][t] # 0
  BY <1>1, <1>3, <1>5, <1>7
<1> QED BY <1>6, <1>7

LEMMA TypeOfCleanup ==
  ASSUME TypeInv, CleanInv, NEW c \in Cleaners, Cleanup(c)
  PROVE  TypeInv'
<1> USE RunsAssumption DEF TypeInv
<1>1. clean[c] \in Cleaning /\ \A r \in DOMAIN runs : r \in Nat
  OBVIOUS
<1>2. clean' \in [Cleaners -> Cleaning]
  <2>1. CASE PlanCompleted(c) \/ PlanFailed(c)
    BY <1>1, <2>1 DEF PlanCompleted, PlanFailed, Cleaning, Beyond, With
  <2>2. CASE NextRun(c)
    <3>1. PICK r \in Planned(c) :
            clean' = [clean EXCEPT ![c].pc = "hours", ![c].run = r,
                                   ![c].completed = @ \ {r}, ![c].failed = @ \ {r}]
      BY <2>2 DEF NextRun
    <3>2. r \in 1..tickets
      <4>1. CASE clean[c].completed = {}
        BY <4>1 DEF Planned, CleanInv, CleanOf, Spent
      <4>2. CASE clean[c].completed # {}
        <5>1. clean[c].completed \in SUBSET (1..tickets) /\ tickets \in Nat
          BY DEF CleanInv, CleanOf, Spent
        <5>2. Max(clean[c].completed) \in clean[c].completed
          BY ONLY <4>2, <5>1, GreatestOf
        <5> QED BY <4>2, <5>1, <5>2 DEF Planned
      <4> QED BY <4>1, <4>2
    <3>3. [clean[c] EXCEPT !.pc = "hours", !.run = r, !.completed = @ \ {r},
                           !.failed = @ \ {r}] \in Cleaning
      <4>1. r \in Nat
        BY <3>2
      <4> QED BY ONLY <1>1, <4>1 DEF Cleaning, Deleting
    <3> QED BY <3>1, <3>3
  <2>3. CASE DeleteBatch(c)
    <3>1. PICK t \in Tables : clean' \in {clean, [clean EXCEPT ![c].pc = Then[t]]}
      BY <2>3, BatchDeleted
    <3> QED BY <1>1, <3>1 DEF Cleaning, Deleting, Then, Tables
  <2>4. CASE DeleteRun(c) \/ CleanupEnds(c)
    BY <1>1, <2>4 DEF DeleteRun, CleanupEnds, Resting, Cleaning
  <2> QED BY <2>1, <2>2, <2>3, <2>4 DEF Cleanup
<1>3. rows' \in [Numbers -> Row]
  <2>1. CASE DeleteBatch(c)
    <3>1. PICK t \in Tables : /\ clean[c].run \in Numbers
                              /\ \/ rows' = rows
                                 \/ \E n \in Nat : rows' = [rows EXCEPT ![clean[c].run][t] = n]
      BY <2>1, BatchDeleted
    <3>2. rows \in [Numbers -> Row]
      OBVIOUS
    <3>3. CASE \E n \in Nat : rows' = [rows EXCEPT ![clean[c].run][t] = n]
      BY ONLY <3>1, <3>2, <3>3, RowsPut
    <3> QED BY <3>1, <3>2, <3>3
  <2>2. CASE ~DeleteBatch(c)
    BY <2>2 DEF Cleanup, PlanCompleted, PlanFailed, NextRun, DeleteRun, CleanupEnds
  <2> QED BY <2>1, <2>2
<1>4. runs' \in [DOMAIN runs' -> Run] /\ DOMAIN runs' \subseteq DOMAIN runs
  <2>1. runs' = runs \/ runs' = Restrict(runs, DOMAIN runs \ {clean[c].run})
    BY DEF Cleanup, PlanCompleted, PlanFailed, NextRun, DeleteBatch, DeleteRun, CleanupEnds
  <2> QED BY <2>1 DEF Restrict
<1>5. faults' \in Nat
  <2>1. faults' \in {faults, faults + 1}
    BY DEF Cleanup, PlanCompleted, PlanFailed, NextRun, DeleteBatch, DeleteRun, CleanupEnds
  <2> QED BY <2>1
<1>6. UNCHANGED <<journal, tickets, rebuild, reader>>
  BY DEF Cleanup, PlanCompleted, PlanFailed, NextRun, DeleteBatch, DeleteRun, CleanupEnds,
     cleanOnly
<1> QED BY <1>2, <1>3, <1>4, <1>5, <1>6

LEMMA TypeOfOthers ==
  ASSUME TypeInv, ReaderInv, Reader \/ CollectorWrites \/ \E r \in DOMAIN runs : Ages(r)
  PROVE  TypeInv'
<1> USE RunsAssumption DEF TypeInv
<1>1. CASE Reader
  <2>1. Latest \in Nat /\ (Latest # 0 => Latest \in DOMAIN runs)
    BY LatestTyped DEF With
  <2>2. reader.pc # "idle" => reader.run \in Numbers
    BY LatestTyped DEF ReaderInv, Numbers, Reading
  <2>3. reader' \in Reading
    <3>1. CASE ResolveScope
      <4>1. runs[Latest] \in Run
        BY <2>1, <3>1 DEF ResolveScope
      <4> QED BY <2>1, <3>1, <4>1 DEF ResolveScope, Waiting, Reading, Run, NoRows, Row, Tables
    <3>2. CASE ReadRows
      BY <2>2, <3>2 DEF ReadRows, Reading
    <3>3. CASE ReadJournal
      BY <3>3 DEF ReadJournal, Reading
    <3>4. CASE ReadFreshness
      <4>1. (Latest > reader.run) \in BOOLEAN /\ (Lag(Latest) = 0) \in BOOLEAN
        OBVIOUS
      <4> HIDE DEF TypeInv
      <4>2. reader \in Reading
        BY DEF TypeInv
      <4> QED BY <3>4, <4>1, <4>2, Zenon DEF ReadFreshness, Reading
    <3>5. CASE Forget
      BY <3>5 DEF Forget, Waiting, Reading, NoRows, Row, Tables
    <3> QED BY <1>1, <3>1, <3>2, <3>3, <3>4, <3>5 DEF Reader
  <2> QED BY <1>1, <2>3
        DEF Reader, ResolveScope, ReadRows, ReadJournal, ReadFreshness, Forget, readOnly
<1>2. CASE CollectorWrites
  BY <1>2 DEF CollectorWrites
<1>3. CASE \E r \in DOMAIN runs : Ages(r)
  <2>1. PICK r \in DOMAIN runs : Ages(r)
    BY <1>3
  <2>2. runs' \in [DOMAIN runs -> Run] /\ DOMAIN runs' = DOMAIN runs
    BY <2>1 DEF Ages, Run
  <2> QED BY <2>1, <2>2 DEF Ages
<1> QED BY <1>1, <1>2, <1>3

LEMMA TypeStep == RunsInv /\ [Next]_vars => TypeInv'
<1> SUFFICES ASSUME RunsInv, [Next]_vars PROVE TypeInv'
  OBVIOUS
<1> USE DEF RunsInv
<1>1. CASE \E p \in Rebuilders : RebuildAccounting(p)
  BY <1>1, TypeOfRebuild
<1>2. CASE \E c \in Cleaners : Cleanup(c)
  BY <1>2, TypeOfCleanup
<1>3. CASE Reader \/ CollectorWrites \/ \E r \in DOMAIN runs : Ages(r)
  BY <1>3, TypeOfOthers
<1>4. CASE UNCHANGED vars
  BY <1>4 DEF vars, TypeInv
<1> QED BY <1>1, <1>2, <1>3, <1>4 DEF Next

-----------------------------------------------------------------------------
(* What a step does to the runs on record.                                 *)

\* The other actions leave them alone.
LEMMA RunsUntouched ==
  ASSUME [Next]_vars,
         \A p \in Rebuilders : ~Capture(p) /\ ~Publish(p) /\ ~MarkFailed(p),
         \A c \in Cleaners : ~DeleteRun(c),
         \A r \in DOMAIN runs : ~Ages(r)
  PROVE  runs' = runs
<1>1. CASE \E p \in Rebuilders : RebuildAccounting(p)
  BY <1>1 DEF RebuildAccounting, Call, WriteBatch, Aggregate, Fails, Dies
<1>2. CASE \E c \in Cleaners : Cleanup(c)
  BY <1>2 DEF Cleanup, PlanCompleted, PlanFailed, NextRun, DeleteBatch, CleanupEnds
<1>3. CASE Reader
  BY <1>3 DEF Reader, ResolveScope, ReadRows, ReadJournal, ReadFreshness, Forget, readOnly
<1>4. CASE CollectorWrites
  BY <1>4 DEF CollectorWrites
<1>5. CASE UNCHANGED vars
  BY <1>5 DEF vars
<1> QED BY <1>1, <1>2, <1>3, <1>4, <1>5 DEF Next

LEMMA CompletedStep ==
  ASSUME RunsInv, [Next]_vars
  PROVE  /\ \A r \in DOMAIN runs : r \in DOMAIN runs' => runs'[r].boundary = runs[r].boundary
         /\ Latest # 0 => Latest \in With("completed") /\ Latest \in With("completed")'
         /\ \A r \in With("completed")' : r \in With("completed") \/
              \E p \in Rebuilders : Publish(p) /\ r = rebuild[p].run
<1> USE DEF RunsInv
<1>1. /\ runs \in [DOMAIN runs -> Run]
      /\ \A p \in Rebuilders : rebuild[p] \in Rebuilding
  BY DEF TypeInv
<1>2. Latest # 0 => Latest \in DOMAIN runs /\ runs[Latest].status = "completed"
  BY LatestTyped DEF With
<1>3. CASE \E p \in Rebuilders : Capture(p)
  <2>1. PICK p \in Rebuilders : Capture(p)
    BY <1>3
  <2>2. CASE UNCHANGED runs
    BY <1>2, <2>2 DEF With
  <2>3. CASE runs' = [r \in DOMAIN runs \cup {rebuild[p].run} |->
                        IF r = rebuild[p].run THEN Captured(p)
                        ELSE IF r \in Abandoned THEN [runs[r] EXCEPT !.status = "failed"]
                        ELSE runs[r]]
    <3>1. rebuild[p].run \notin DOMAIN runs
      BY <2>1 DEF OwnerInv, Capture
    <3>2. \A r \in Abandoned : r \in DOMAIN runs /\ runs[r].status = "running"
      BY DEF Abandoned, With
    <3>3. \A r \in DOMAIN runs : [runs[r] EXCEPT !.status = "failed"].boundary = runs[r].boundary
                               /\ [runs[r] EXCEPT !.status = "failed"].status = "failed"
      BY <1>1 DEF Run
    <3>4. Captured(p).status = "running"
      BY DEF Captured
    <3> QED BY <1>2, <2>3, <3>1, <3>2, <3>3, <3>4 DEF With
  <2> QED BY <2>1, <2>2, <2>3 DEF Capture
<1>4. CASE \E p \in Rebuilders : Publish(p) \/ MarkFailed(p)
  <2>1. PICK p \in Rebuilders : Publish(p) \/ MarkFailed(p)
    BY <1>4
  <2>2. /\ rebuild[p].run \in DOMAIN runs /\ runs[rebuild[p].run].status # "completed"
        /\ rebuild[p].run \in Nat
    BY <1>1, <2>1 DEF OwnerInv, Publish, MarkFailed, At, Writing, Rebuilding
  <2>3. \/ runs' = Sets(rebuild[p].run, "completed") /\ Publish(p)
        \/ runs' = Sets(rebuild[p].run, "failed")
        \/ runs' = runs
    BY <2>1 DEF Publish, MarkFailed
  <2>4. \A s \in {"completed", "failed"} : \A q \in DOMAIN runs :
          /\ DOMAIN Sets(rebuild[p].run, s) = DOMAIN runs
          /\ Sets(rebuild[p].run, s)[q].boundary = runs[q].boundary
          /\ Sets(rebuild[p].run, s)[q].status = IF q = rebuild[p].run THEN s ELSE runs[q].status
    <3> TAKE s \in {"completed", "failed"}
    <3>1. TypeInv
      OBVIOUS
    <3>2. /\ DOMAIN Sets(rebuild[p].run, s) = DOMAIN runs
          /\ \A q \in DOMAIN runs : Sets(rebuild[p].run, s)[q] =
               IF q = rebuild[p].run THEN [runs[q] EXCEPT !.status = s] ELSE runs[q]
      BY ONLY <2>2, <3>1, SetsTyped
    <3> QED BY ONLY <1>1, <3>2 DEF Run
  <2> QED BY <1>2, <2>2, <2>3, <2>4 DEF With
<1>5. CASE \E c \in Cleaners : DeleteRun(c)
  <2>1. PICK c \in Cleaners : DeleteRun(c)
    BY <1>5
  <2>2. Spent(clean[c].run)
    BY <2>1 DEF CleanInv, CleanOf, DeleteRun, Deleting
  <2>3. Latest # 0 => Latest # clean[c].run
    BY <1>2, <2>2, LatestTyped DEF Spent
  <2> QED BY <1>2, <2>1, <2>3 DEF DeleteRun, Restrict, With
<1>6. CASE \E r \in DOMAIN runs : Ages(r)
  <2>1. PICK r \in DOMAIN runs : Ages(r)
    BY <1>6
  <2>2. \A q \in DOMAIN runs : /\ DOMAIN runs' = DOMAIN runs
                             /\ runs'[q].status = runs[q].status
                             /\ runs'[q].boundary = runs[q].boundary
    BY <1>1, <2>1 DEF Ages, Run
  <2> QED BY <1>2, <2>1, <2>2 DEF With
<1>7. CASE runs' = runs
  BY <1>2, <1>7 DEF With
<1> QED BY <1>3, <1>4, <1>5, <1>6, <1>7, RunsUntouched

\* The latest run stays, or a later one with no older boundary is published.
LEMMA LatestStep ==
  ASSUME RunsInv, [Next]_vars
  PROVE  /\ Latest \in Nat /\ Latest' \in Nat /\ Latest <= Latest'
         /\ Latest # 0 => /\ Latest \in DOMAIN runs /\ Latest' \in DOMAIN runs'
                          /\ runs'[Latest'].boundary >= runs[Latest].boundary
                          /\ Latest' = Latest => runs'[Latest'].boundary = runs[Latest].boundary
<1>1. TypeInv /\ TypeInv'
  BY TypeStep DEF RunsInv
<1>2. /\ Latest \in 0..tickets /\ Latest' \in 0..tickets' /\ tickets \in Nat /\ tickets' \in Nat
      /\ \A r \in With("completed") : r <= Latest
      /\ \A r \in With("completed")' : r <= Latest'
      /\ Latest' # 0 => Latest' \in With("completed")'
  BY <1>1, LatestTyped, LatestTyped2 DEF TypeInv
<1>3. Latest # 0 => Latest \in With("completed") /\ Latest \in With("completed")'
  BY CompletedStep
<1>4. Latest \in Nat /\ Latest' \in Nat /\ Latest <= Latest'
  BY <1>2, <1>3
<1>5. ASSUME Latest # 0
      PROVE  /\ Latest \in DOMAIN runs /\ Latest' \in DOMAIN runs'
             /\ runs'[Latest'].boundary >= runs[Latest].boundary
             /\ Latest' = Latest => runs'[Latest'].boundary = runs[Latest].boundary
  <2>1. Latest \in DOMAIN runs /\ Latest' \in DOMAIN runs'
    BY <1>2, <1>3, <1>4, <1>5 DEF With
  <2>2. \A r \in DOMAIN runs : r \in DOMAIN runs' => runs'[r].boundary = runs[r].boundary
    BY CompletedStep
  <2>3. runs[Latest].boundary \in Nat
    BY <1>1, <2>1 DEF TypeInv, Run
  <2>4. CASE Latest' = Latest
    BY <2>1, <2>2, <2>3, <2>4
  <2>5. CASE Latest' # Latest
    <3>1. Latest' \notin With("completed") /\ Latest < Latest'
      BY <1>2, <1>4, <2>5
    <3>2. PICK p \in Rebuilders : Publish(p) /\ Latest' = rebuild[p].run
      BY <1>2, <1>4, <1>5, <3>1, CompletedStep
    <3>3. Latest' \in DOMAIN runs /\ runs[Latest].boundary <= runs[Latest'].boundary
      BY <2>1, <3>1, <3>2 DEF RunsInv, OwnerInv, RisingInv, Publish, At, Writing
    <3>4. runs[Latest'].boundary \in Nat
      BY <1>1, <3>3 DEF TypeInv, Run
    <3> QED BY <2>1, <2>2, <2>3, <2>5, <3>3, <3>4
  <2> QED BY <2>4, <2>5
<1> QED BY <1>4, <1>5

-----------------------------------------------------------------------------
(* What a step does to the rebuilds.                                       *)

\* A rebuild changes nothing of another's; it begins, stays with its run, or is over.
LEMMA RebuildStep ==
  ASSUME TypeInv, OwnerInv, ProgressInv, NEW p \in Rebuilders, RebuildAccounting(p)
  PROVE  /\ journal' = journal /\ clean' = clean /\ reader' = reader
         /\ \A q \in Rebuilders \ {p} : rebuild'[q] = rebuild[q]
         /\ \/ rebuild'[p].pc = "idle" /\ (runs' = runs \/ Publish(p) \/ MarkFailed(p))
            \/ Call(p) /\ rebuild'[p].pc = "capture" /\ rebuild'[p].run = tickets + 1
            \/ /\ Capture(p) /\ rebuild'[p].pc = "relations" /\ rebuild'[p].boundary = journal
               /\ rebuild'[p].run = rebuild[p].run /\ rebuild'[p].written = rebuild[p].written
            \/ /\ rebuild[p].pc \in Writing /\ rebuild'[p].pc \in Writing /\ runs' = runs
               /\ rebuild'[p].run = rebuild[p].run /\ rebuild'[p].boundary = rebuild[p].boundary
<1>1. journal' = journal /\ clean' = clean /\ reader' = reader
  BY DEF RebuildAccounting, Call, Capture, WriteBatch, Aggregate, Publish, Fails, MarkFailed,
     Dies, rebuildOnly
<1>2. rebuild \in [Rebuilders -> Rebuilding] /\ rebuild[p] \in Rebuilding
  BY DEF TypeInv
<1>3. CASE Call(p)
  BY <1>1, <1>2, <1>3 DEF Call, Idle
<1>4. CASE Capture(p)
  BY <1>1, <1>2, <1>4 DEF Capture, Idle, Rebuilding
<1>5. CASE WriteBatch(p)
  <2>1. PICK t \in Tables :
          /\ At(p, t)
          /\ \/ rebuild' = [rebuild EXCEPT ![p].pc = After[t], ![p].written = 0]
             \/ \E n \in Nat : rebuild' = [rebuild EXCEPT ![p].written = @ + n]
    BY <1>5, BatchWritten
  <2>2. rebuild[p].pc \in Writing /\ After[t] \in Writing /\ runs' = runs
    BY <1>5, <2>1 DEF At, Tables, Writing, After, WriteBatch
  <2> QED BY <1>1, <1>2, <2>1, <2>2 DEF Rebuilding
<1>6. CASE Aggregate(p)
  BY <1>1, <1>2, <1>6 DEF Aggregate, Rebuilding, Writing, At
<1>7. CASE Publish(p) \/ MarkFailed(p) \/ Dies(p)
  BY <1>1, <1>2, <1>7 DEF Publish, MarkFailed, Dies, Idle
<1>8. CASE Fails(p)
  BY <1>1, <1>2, <1>8 DEF Fails, Idle, Goes, At, Rebuilding, Writing
<1> QED BY <1>3, <1>4, <1>5, <1>6, <1>7, <1>8 DEF RebuildAccounting

LEMMA OthersStep ==
  ASSUME TypeInv, [Next]_vars, \A p \in Rebuilders : ~RebuildAccounting(p)
  PROVE  /\ rebuild' = rebuild /\ tickets' = tickets
         /\ runs' = runs \/ (\E c \in Cleaners : DeleteRun(c)) \/ \E r \in DOMAIN runs : Ages(r)
<1>1. CASE \E c \in Cleaners : Cleanup(c)
  BY <1>1 DEF Cleanup, PlanCompleted, PlanFailed, NextRun, DeleteBatch, DeleteRun, CleanupEnds,
     cleanOnly
<1>2. CASE Reader
  BY <1>2 DEF Reader, ResolveScope, ReadRows, ReadJournal, ReadFreshness, Forget, readOnly
<1>3. CASE CollectorWrites \/ \E r \in DOMAIN runs : Ages(r)
  BY <1>3 DEF CollectorWrites, Ages
<1>4. CASE UNCHANGED vars
  BY <1>4 DEF vars
<1> QED BY <1>1, <1>2, <1>3, <1>4 DEF Next

\* What a run deleted or grown older was and is.
LEMMA DeletedRun ==
  ASSUME RunsInv, NEW c \in Cleaners, DeleteRun(c)
  PROVE  /\ Spent(clean[c].run) /\ rows' = rows /\ journal' = journal /\ tickets' = tickets
         /\ rebuild' = rebuild /\ reader' = reader
         /\ DOMAIN runs' = DOMAIN runs \ {clean[c].run}
         /\ \A r \in DOMAIN runs' : runs'[r] = runs[r]
BY DEF RunsInv, CleanInv, CleanOf, Deleting, DeleteRun, Restrict, cleanOnly

LEMMA AgedRun ==
  ASSUME TypeInv, NEW r \in DOMAIN runs, Ages(r)
  PROVE  /\ DOMAIN runs' = DOMAIN runs /\ \A q \in DOMAIN runs \ {r} : runs'[q] = runs[q]
         /\ runs'[r].status = runs[r].status /\ runs'[r].boundary = runs[r].boundary
         /\ \/ runs'[r].age = "stale" /\ \A p \in Rebuilders : At(p, "capture") => rebuild[p].run > r
            \/ /\ runs[r].age = "stale" /\ runs'[r].age = "expired"
               /\ \A p \in Rebuilders : ~WorksOn(p, r)
<1>1. runs \in [DOMAIN runs -> Run]
  BY DEF TypeInv
<1> QED BY <1>1 DEF Ages, Run

\* The run that was captured, and those it put aside.
LEMMA CapturedRun ==
  ASSUME TypeInv, OwnerInv, NEW p \in Rebuilders, Capture(p), rebuild'[p].pc # "idle"
  PROVE  /\ DOMAIN runs' = DOMAIN runs \cup {rebuild[p].run}
         /\ rebuild[p].run \notin DOMAIN runs /\ rebuild[p].run \in 1..tickets
         /\ runs'[rebuild[p].run] = Captured(p)
         /\ \A r \in DOMAIN runs :
              /\ runs'[r].boundary = runs[r].boundary /\ runs'[r].age = runs[r].age
              /\ \/ runs[r].status # "running" /\ runs'[r].status = runs[r].status
                 \/ runs[r].status = "running" /\ runs[r].age # "young" /\ runs'[r].status = "failed"
<1>1. runs \in [DOMAIN runs -> Run] /\ rebuild \in [Rebuilders -> Rebuilding]
  BY DEF TypeInv
<1>2. /\ With("running") = Abandoned
      /\ runs' = [r \in DOMAIN runs \cup {rebuild[p].run} |->
                    IF r = rebuild[p].run THEN Captured(p)
                    ELSE IF r \in Abandoned THEN [runs[r] EXCEPT !.status = "failed"]
                    ELSE runs[r]]
  BY <1>1 DEF Capture, Idle
<1>3. rebuild[p].run \notin DOMAIN runs /\ rebuild[p].run \in 1..tickets
  BY DEF OwnerInv, Capture, At
<1>4. \A r \in DOMAIN runs : r \in Abandoned <=> runs[r].status = "running"
  BY <1>2 DEF With
<1>5. \A r \in Abandoned : runs[r].age # "young"
  BY DEF Abandoned
<1>6. \A r \in DOMAIN runs : [runs[r] EXCEPT !.status = "failed"] =
        [status |-> "failed", boundary |-> runs[r].boundary, age |-> runs[r].age]
  BY <1>1 DEF Run
<1>7. ASSUME NEW r \in DOMAIN runs
      PROVE  /\ runs'[r].boundary = runs[r].boundary /\ runs'[r].age = runs[r].age
             /\ \/ runs[r].status # "running" /\ runs'[r].status = runs[r].status
                \/ runs[r].status = "running" /\ runs[r].age # "young" /\ runs'[r].status = "failed"
  BY <1>2, <1>3, <1>4, <1>5, <1>6
<1> QED BY <1>2, <1>3, <1>7

\* The run whose status a rebuild sets.
LEMMA ClosedRun ==
  ASSUME TypeInv, OwnerInv, NEW p \in Rebuilders, Publish(p) \/ MarkFailed(p)
  PROVE  /\ DOMAIN runs' = DOMAIN runs /\ rebuild[p].run \in DOMAIN runs
         /\ rebuild[p].pc \in Writing /\ rows' = rows /\ rebuild'[p].pc = "idle"
         /\ \A r \in DOMAIN runs \ {rebuild[p].run} : runs'[r] = runs[r]
         /\ runs'[rebuild[p].run].boundary = runs[rebuild[p].run].boundary
         /\ runs'[rebuild[p].run].age = runs[rebuild[p].run].age
         /\ Publish(p) => runs'[rebuild[p].run].status = "completed"
         /\ ~Publish(p) => runs'[rebuild[p].run].status # "completed"
<1>1. runs \in [DOMAIN runs -> Run] /\ rebuild \in [Rebuilders -> Rebuilding]
  BY DEF TypeInv
<1>2. /\ rebuild[p].pc \in Writing /\ rebuild[p].run \in DOMAIN runs /\ rebuild[p].run \in Nat
      /\ runs[rebuild[p].run].status # "completed"
  BY <1>1 DEF OwnerInv, Publish, MarkFailed, At, Writing, Rebuilding
<1>3. \A s \in {"completed", "failed"} :
        /\ DOMAIN Sets(rebuild[p].run, s) = DOMAIN runs
        /\ \A q \in DOMAIN runs : Sets(rebuild[p].run, s)[q] =
               IF q = rebuild[p].run THEN [runs[q] EXCEPT !.status = s] ELSE runs[q]
  BY <1>2, SetsTyped
<1>4. /\ rows' = rows /\ rebuild'[p].pc = "idle"
      /\ \/ Publish(p) /\ runs' = Sets(rebuild[p].run, "completed")
         \/ ~Publish(p) /\ runs' = runs
         \/ ~Publish(p) /\ runs' = Sets(rebuild[p].run, "failed")
  BY <1>1 DEF Publish, MarkFailed, Idle, At
<1>5. \A s \in {"completed", "failed"} : [runs[rebuild[p].run] EXCEPT !.status = s] =
        [status |-> s, boundary |-> runs[rebuild[p].run].boundary, age |-> runs[rebuild[p].run].age]
  BY <1>1, <1>2 DEF Run
<1>6. CASE runs' = runs /\ ~Publish(p)
  BY <1>2, <1>4, <1>6
<1>7. CASE \E s \in {"completed", "failed"} :
        runs' = Sets(rebuild[p].run, s) /\ (s = "completed" <=> Publish(p))
  <2>1. PICK s \in {"completed", "failed"} :
        runs' = Sets(rebuild[p].run, s) /\ (s = "completed" <=> Publish(p))
    BY <1>7
  <2>2. /\ DOMAIN runs' = DOMAIN runs
        /\ \A q \in DOMAIN runs : runs'[q] =
             IF q = rebuild[p].run THEN [runs[q] EXCEPT !.status = s] ELSE runs[q]
    BY <2>1, <1>3
  <2>3. runs'[rebuild[p].run] = [status |-> s, boundary |-> runs[rebuild[p].run].boundary,
                                 age |-> runs[rebuild[p].run].age]
    BY <2>2, <1>2, <1>5
  <2> QED BY <1>2, <1>4, <2>1, <2>2, <2>3
<1> QED BY <1>4, <1>6, <1>7

-----------------------------------------------------------------------------
(* The invariant is inductive: whose a run is.                             *)

LEMMA OwnerStep == RunsInv /\ [Next]_vars => OwnerInv'
<1> SUFFICES ASSUME RunsInv, [Next]_vars PROVE OwnerInv'
  OBVIOUS
<1>1. TypeInv /\ OwnerInv /\ ProgressInv
  BY DEF RunsInv
<1>2. /\ tickets \in Nat /\ DOMAIN runs \subseteq 1..tickets
  BY <1>1 DEF TypeInv
<1>3. ASSUME NEW p \in Rebuilders, RebuildAccounting(p) PROVE OwnerInv'
  <2>1. /\ \A q \in Rebuilders \ {p} : rebuild'[q] = rebuild[q]
        /\ \/ rebuild'[p].pc = "idle" /\ (runs' = runs \/ Publish(p) \/ MarkFailed(p))
           \/ Call(p) /\ rebuild'[p].pc = "capture" /\ rebuild'[p].run = tickets + 1
           \/ /\ Capture(p) /\ rebuild'[p].pc = "relations" /\ rebuild'[p].boundary = journal
              /\ rebuild'[p].run = rebuild[p].run
           \/ /\ rebuild[p].pc \in Writing /\ rebuild'[p].pc \in Writing /\ runs' = runs
              /\ rebuild'[p].run = rebuild[p].run /\ rebuild'[p].boundary = rebuild[p].boundary
    BY <1>1, <1>3, RebuildStep
  <2>2. tickets' \in {tickets, tickets + 1} /\ (Call(p) => tickets' = tickets + 1 /\ runs' = runs)
    BY <1>3 DEF RebuildAccounting, Call, Capture, WriteBatch, Aggregate, Publish, Fails,
       MarkFailed, Dies
  <2>3. CASE Call(p)
    <3>1. At(p, "idle") /\ runs' = runs /\ tickets' = tickets + 1
          /\ rebuild'[p].pc = "capture" /\ rebuild'[p].run = tickets + 1
      <4>1. rebuild \in [Rebuilders -> Rebuilding]
        BY <1>1 DEF TypeInv
      <4> QED BY <2>2, <2>3, <4>1 DEF Call, Idle
    <3>2. \A q \in Rebuilders : rebuild'[q].pc # "idle" =>
            \/ q = p
            \/ /\ rebuild'[q] = rebuild[q] /\ rebuild[q].run \in 1..tickets
               /\ rebuild[q].run # tickets + 1
      BY <1>1, <1>2, <2>1 DEF OwnerInv, At
    <3>3. tickets + 1 \notin DOMAIN runs /\ tickets + 1 \in 1..tickets'
          /\ 1..tickets \subseteq 1..tickets'
      BY <1>2, <3>1
    <3> QED BY <1>1, <2>1, <3>1, <3>2, <3>3 DEF OwnerInv, At, Writing
  <2>4. CASE Capture(p) /\ rebuild'[p].pc # "idle"
    <3>1. /\ DOMAIN runs' = DOMAIN runs \cup {rebuild[p].run}
          /\ rebuild[p].run \notin DOMAIN runs /\ rebuild[p].run \in 1..tickets
          /\ runs'[rebuild[p].run] = Captured(p)
          /\ \A r \in DOMAIN runs :
               /\ runs'[r].boundary = runs[r].boundary /\ runs'[r].age = runs[r].age
               /\ \/ runs[r].status # "running" /\ runs'[r].status = runs[r].status
                  \/ runs[r].status = "running" /\ runs[r].age # "young" /\ runs'[r].status = "failed"
      BY <1>1, <2>4, CapturedRun
    <3>2. At(p, "capture") /\ rebuild'[p].pc = "relations" /\ rebuild'[p].boundary = journal
          /\ rebuild'[p].run = rebuild[p].run /\ tickets' = tickets
      BY <2>1, <2>4 DEF Capture, At, Writing, Call
    <3>3. Captured(p) = [status |-> "running", boundary |-> journal, age |-> "young"]
      BY DEF Captured
    <3> QED BY <1>1, <1>2, <2>1, <3>1, <3>2, <3>3 DEF OwnerInv, At, Writing
  <2>5. CASE Publish(p) \/ MarkFailed(p)
    <3>1. /\ DOMAIN runs' = DOMAIN runs /\ rebuild[p].run \in DOMAIN runs
          /\ rebuild[p].pc \in Writing /\ rebuild'[p].pc = "idle"
          /\ \A r \in DOMAIN runs \ {rebuild[p].run} : runs'[r] = runs[r]
      BY <1>1, <2>5, ClosedRun
    <3> QED BY <1>1, <1>2, <2>1, <2>2, <3>1 DEF OwnerInv, At, Writing
  <2>6. CASE runs' = runs /\ rebuild'[p].pc = "idle"
    BY <1>1, <1>2, <2>1, <2>2, <2>6 DEF OwnerInv, At, Writing
  <2>7. CASE runs' = runs /\ rebuild[p].pc \in Writing /\ rebuild'[p].pc \in Writing
    BY <1>1, <1>2, <2>1, <2>2, <2>7 DEF OwnerInv, At, Writing, Capture, Call
  <2> QED
    BY <2>1, <2>3, <2>4, <2>5, <2>6, <2>7
<1>4. CASE \A p \in Rebuilders : ~RebuildAccounting(p)
  <2>1. rebuild' = rebuild /\ tickets' = tickets
    BY <1>1, <1>4, OthersStep
  <2>2. CASE runs' = runs
    BY <1>1, <2>1, <2>2 DEF OwnerInv, At
  <2>3. CASE \E c \in Cleaners : DeleteRun(c)
    <3>1. PICK c \in Cleaners : DeleteRun(c)
      BY <2>3
    <3>2. /\ Spent(clean[c].run) /\ DOMAIN runs' = DOMAIN runs \ {clean[c].run}
          /\ \A r \in DOMAIN runs' : runs'[r] = runs[r]
      BY <3>1, DeletedRun
    <3>3. \A p \in Rebuilders : rebuild[p].pc \in Writing => rebuild[p].run # clean[c].run
      BY <3>2 DEF Spent, WorksOn, At, Writing
    <3> QED BY <1>1, <2>1, <3>2, <3>3 DEF OwnerInv, At
  <2>4. CASE \E r \in DOMAIN runs : Ages(r)
    <3>1. PICK r \in DOMAIN runs : Ages(r)
      BY <2>4
    <3>2. /\ DOMAIN runs' = DOMAIN runs /\ \A q \in DOMAIN runs \ {r} : runs'[q] = runs[q]
          /\ runs'[r].status = runs[r].status /\ runs'[r].boundary = runs[r].boundary
          /\ runs'[r].age \in {"stale", "expired"}
      BY <1>1, <3>1, AgedRun
    <3> QED BY <1>1, <2>1, <3>2 DEF OwnerInv, At
  <2> QED BY <1>1, <1>4, <2>2, <2>3, <2>4, OthersStep
<1> QED BY <1>3, <1>4

LEMMA AgeStep == RunsInv /\ [Next]_vars => AgeInv'
<1> SUFFICES ASSUME RunsInv, [Next]_vars PROVE AgeInv'
  OBVIOUS
<1>1. TypeInv /\ OwnerInv /\ ProgressInv /\ AgeInv
  BY DEF RunsInv
<1>2. /\ tickets \in Nat /\ journal \in Nat /\ DOMAIN runs \subseteq 1..tickets
      /\ \A r \in DOMAIN runs : runs[r].boundary \in Nat
  BY <1>1 DEF TypeInv, Run
<1>3. ASSUME NEW p \in Rebuilders, RebuildAccounting(p) PROVE AgeInv'
  <2>1. /\ journal' = journal /\ \A q \in Rebuilders \ {p} : rebuild'[q] = rebuild[q]
        /\ \/ rebuild'[p].pc = "idle" /\ (runs' = runs \/ Publish(p) \/ MarkFailed(p))
           \/ Call(p) /\ rebuild'[p].pc = "capture" /\ rebuild'[p].run = tickets + 1
           \/ /\ Capture(p) /\ rebuild'[p].pc = "relations" /\ rebuild'[p].boundary = journal
              /\ rebuild'[p].run = rebuild[p].run
           \/ /\ rebuild[p].pc \in Writing /\ rebuild'[p].pc \in Writing /\ runs' = runs
              /\ rebuild'[p].run = rebuild[p].run /\ rebuild'[p].boundary = rebuild[p].boundary
    BY <1>1, <1>3, RebuildStep
  <2>2. CASE Call(p)
    <3>1. runs' = runs
      BY <2>2 DEF Call
    <3> QED BY <1>1, <1>2, <2>1, <2>2, <3>1 DEF AgeInv, At, WorksOn, Call, Capture, Writing
  <2>3. CASE Capture(p) /\ rebuild'[p].pc # "idle"
    <3>1. /\ DOMAIN runs' = DOMAIN runs \cup {rebuild[p].run}
          /\ rebuild[p].run \notin DOMAIN runs
          /\ runs'[rebuild[p].run] = Captured(p)
          /\ \A r \in DOMAIN runs :
               runs'[r].boundary = runs[r].boundary /\ runs'[r].age = runs[r].age
      BY <1>1, <2>3, CapturedRun
    <3>2. At(p, "capture") /\ rebuild'[p].pc = "relations" /\ rebuild'[p].run = rebuild[p].run
      BY <2>1, <2>3 DEF Capture, At, Writing, Call
    <3>3. Captured(p).boundary = journal /\ Captured(p).age = "young"
      BY DEF Captured
    <3> QED BY <1>1, <1>2, <2>1, <3>1, <3>2, <3>3 DEF AgeInv, At, WorksOn
  <2>4. CASE Publish(p) \/ MarkFailed(p)
    <3>1. /\ DOMAIN runs' = DOMAIN runs /\ rebuild'[p].pc = "idle"
          /\ \A r \in DOMAIN runs \ {rebuild[p].run} : runs'[r] = runs[r]
          /\ runs'[rebuild[p].run].boundary = runs[rebuild[p].run].boundary
          /\ runs'[rebuild[p].run].age = runs[rebuild[p].run].age
      BY <1>1, <2>4, ClosedRun
    <3>2. \A r \in DOMAIN runs : runs'[r].boundary = runs[r].boundary /\ runs'[r].age = runs[r].age
      BY <3>1
    <3> QED BY <1>1, <2>1, <3>1, <3>2 DEF AgeInv, At, WorksOn
  <2>5. CASE runs' = runs /\ rebuild'[p].pc = "idle"
    BY <1>1, <2>1, <2>5 DEF AgeInv, At, WorksOn
  <2>6. CASE runs' = runs /\ rebuild[p].pc \in Writing /\ rebuild'[p].pc \in Writing
    BY <1>1, <2>1, <2>6 DEF AgeInv, At, WorksOn, Writing, Capture, Call
  <2> QED
    BY <2>1, <2>2, <2>3, <2>4, <2>5, <2>6
<1>4. CASE \A p \in Rebuilders : ~RebuildAccounting(p)
  <2>1. rebuild' = rebuild
    BY <1>1, <1>4, OthersStep
  <2>2. journal' \in {journal, journal + 1}
    <3>1. CASE \E c \in Cleaners : Cleanup(c)
      BY <3>1 DEF Cleanup, PlanCompleted, PlanFailed, NextRun, DeleteBatch, DeleteRun,
         CleanupEnds, cleanOnly
    <3>2. CASE Reader
      BY <3>2 DEF Reader, ResolveScope, ReadRows, ReadJournal, ReadFreshness, Forget, readOnly
    <3>3. CASE CollectorWrites \/ (\E r \in DOMAIN runs : Ages(r)) \/ UNCHANGED vars
      BY <3>3 DEF CollectorWrites, Ages, vars
    <3> QED BY <1>4, <3>1, <3>2, <3>3 DEF Next
  <2>3. CASE runs' = runs
    BY <1>1, <1>2, <2>1, <2>2, <2>3 DEF AgeInv, At, WorksOn
  <2>4. CASE \E c \in Cleaners : DeleteRun(c)
    <3>1. PICK c \in Cleaners : DeleteRun(c)
      BY <2>4
    <3>2. /\ DOMAIN runs' \subseteq DOMAIN runs /\ \A r \in DOMAIN runs' : runs'[r] = runs[r]
      BY <3>1, DeletedRun
    <3> QED BY <1>1, <1>2, <2>1, <2>2, <3>2 DEF AgeInv, At, WorksOn
  <2>5. CASE \E r \in DOMAIN runs : Ages(r)
    <3>1. PICK r \in DOMAIN runs : Ages(r)
      BY <2>5
    <3>2. /\ DOMAIN runs' = DOMAIN runs /\ \A q \in DOMAIN runs \ {r} : runs'[q] = runs[q]
          /\ runs'[r].boundary = runs[r].boundary
          /\ \/ runs'[r].age = "stale" /\ \A p \in Rebuilders : At(p, "capture") => rebuild[p].run > r
             \/ /\ runs[r].age = "stale" /\ runs'[r].age = "expired"
                /\ \A p \in Rebuilders : ~WorksOn(p, r)
      BY <1>1, <3>1, AgedRun
    <3> QED BY <1>1, <1>2, <2>1, <2>2, <3>2 DEF AgeInv, At, WorksOn
  <2> QED BY <1>1, <1>4, <2>3, <2>4, <2>5, OthersStep
<1> QED BY <1>3, <1>4

LEMMA RisingStep == RunsInv /\ [Next]_vars => RisingInv'
<1> SUFFICES ASSUME RunsInv, [Next]_vars, NEW p \in Rebuilders, rebuild'[p].pc \in Writing,
                    NEW r \in DOMAIN runs', r < rebuild'[p].run
             PROVE  runs'[r].boundary <= runs'[rebuild'[p].run].boundary
  BY DEF RisingInv
<1>1. TypeInv /\ OwnerInv /\ ProgressInv /\ AgeInv /\ RisingInv /\ OwnerInv' /\ AgeInv' /\ TypeInv'
  BY OwnerStep, AgeStep, TypeStep DEF RunsInv
<1>2. /\ tickets \in Nat /\ journal \in Nat /\ DOMAIN runs \subseteq 1..tickets
      /\ \A q \in DOMAIN runs : runs[q].boundary \in Nat
  BY <1>1 DEF TypeInv, Run
<1>3. /\ rebuild'[p].run \in DOMAIN runs'
      /\ \A q \in DOMAIN runs : q \in DOMAIN runs' => runs'[q].boundary = runs[q].boundary
  BY <1>1, CompletedStep DEF OwnerInv
<1>4. CASE \E q \in Rebuilders : Capture(q) /\ rebuild'[q].pc # "idle"
  <2>1. PICK q \in Rebuilders : Capture(q) /\ rebuild'[q].pc # "idle"
    BY <1>4
  <2>2. /\ DOMAIN runs' = DOMAIN runs \cup {rebuild[q].run}
        /\ runs'[rebuild[q].run] = Captured(q)
        /\ \A s \in DOMAIN runs :
             \/ runs[s].status # "running"
             \/ runs[s].status = "running" /\ runs[s].age # "young" /\ runs'[s].status = "failed"
    BY <1>1, <2>1, CapturedRun
  <2>3. At(q, "capture") /\ journal' = journal /\ Captured(q).boundary = journal
    BY <2>1 DEF Capture, rebuildOnly, Captured
  <2>4. \A s \in Rebuilders \ {q} : rebuild'[s] = rebuild[s]
    BY <1>1, <2>1, RebuildStep DEF RebuildAccounting
  <2>5. CASE p = q
    <3>1. rebuild'[p].run = rebuild[q].run
      <4>1. rebuild \in [Rebuilders -> Rebuilding]
        BY <1>1 DEF TypeInv
      <4> QED BY <2>1, <2>5, <4>1 DEF Capture, Idle, Rebuilding
    <3>2. runs'[r].boundary <= journal
      BY <1>1, <2>3 DEF AgeInv
    <3> QED BY <2>2, <2>3, <3>1, <3>2
  <2>6. CASE p # q
    <3>1. rebuild[p].pc \in Writing /\ rebuild'[p].run = rebuild[p].run
      BY <2>4, <2>6
    <3>2. /\ rebuild[p].run \in DOMAIN runs
          /\ runs[rebuild[p].run].status = "running" \/ runs[rebuild[p].run].age # "young"
      BY <1>1, <3>1 DEF OwnerInv
    <3>3. rebuild[q].run > rebuild[p].run
      BY <1>1, <2>2, <2>3, <3>2 DEF AgeInv
    <3>4. r \in DOMAIN runs
      <4>1. rebuild[q].run \in Nat /\ rebuild[p].run \in Nat
        BY <1>1 DEF TypeInv, Rebuilding
      <4> QED BY <2>2, <3>1, <3>3, <4>1
    <3>5. runs[r].boundary <= runs[rebuild[p].run].boundary
      BY <1>1, <3>1, <3>4 DEF RisingInv
    <3> QED BY <1>3, <3>1, <3>2, <3>4, <3>5
  <2> QED BY <2>5, <2>6
<1>5. CASE ~\E q \in Rebuilders : Capture(q) /\ rebuild'[q].pc # "idle"
  <2>1. rebuild[p].pc \in Writing /\ rebuild'[p].run = rebuild[p].run
    <3>1. CASE \E q \in Rebuilders : RebuildAccounting(q)
      BY <1>1, <1>5, <3>1, RebuildStep DEF Writing
    <3>2. CASE ~\E q \in Rebuilders : RebuildAccounting(q)
      BY <1>1, <3>2, OthersStep
    <3> QED BY <3>1, <3>2
  <2>2. r \in DOMAIN runs /\ rebuild[p].run \in DOMAIN runs
    <3>1. DOMAIN runs' \subseteq DOMAIN runs
      <4>1. CASE \E q \in Rebuilders : Capture(q)
        <5>1. PICK q \in Rebuilders : Capture(q) /\ rebuild'[q].pc = "idle"
          BY <1>5, <4>1
        <5>2. rebuild \in [Rebuilders -> Rebuilding]
          BY <1>1 DEF TypeInv
        <5> QED BY <5>1, <5>2 DEF Capture, Rebuilding
      <4>2. CASE \E q \in Rebuilders : Publish(q) \/ MarkFailed(q)
        BY <1>1, <4>2, ClosedRun
      <4>3. CASE \E c \in Cleaners : DeleteRun(c)
        BY <4>3, DeletedRun
      <4>4. CASE \E q \in DOMAIN runs : Ages(q)
        BY <1>1, <4>4, AgedRun
      <4> QED BY <4>1, <4>2, <4>3, <4>4, RunsUntouched
    <3> QED BY <1>1, <2>1, <3>1 DEF OwnerInv
  <2> QED BY <1>1, <1>3, <2>1, <2>2 DEF RisingInv
<1> QED BY <1>4, <1>5

-----------------------------------------------------------------------------
(* The invariant is inductive: rows.                                       *)

LEMMA RowIs ==
  ASSUME NEW row \in Row
  PROVE  /\ row = [relations |-> row.relations, traffic |-> row.traffic, hours |-> row.hours]
         /\ row.relations \in Nat /\ row.traffic \in Nat /\ row.hours \in Nat
         /\ \A m, n, k : Holds(row, m, n, k) <=> row.relations = m /\ row.traffic = n /\ row.hours = k
         /\ row = NoRows <=> Holds(row, 0, 0, 0)
         /\ \A b : Whole(b, row) <=> Holds(row, b, b, b)
<1>1. row = [relations |-> row.relations, traffic |-> row.traffic, hours |-> row.hours]
  BY DEF Row, Tables
<1>2. NoRows = [relations |-> 0, traffic |-> 0, hours |-> 0]
  BY DEF NoRows, Tables
<1> QED BY <1>1, <1>2 DEF Row, Tables, Holds, Whole

\* What a rebuild that has its run wrote is as far as it says.
ProgressOf(p) ==
  LET b == rebuild[p].boundary
      w == rebuild[p].written
      row == rows[rebuild[p].run]
  IN /\ At(p, "capture") => w = 0
     /\ At(p, "relations") => w <= b /\ Holds(row, w, 0, 0)
     /\ At(p, "traffic") => w <= b /\ Holds(row, b, w, 0)
     /\ At(p, "aggregate") => w = 0 /\ Holds(row, b, b, 0)
     /\ At(p, "hours") => w <= b /\ rebuild[p].hours = b /\ Holds(row, b, b, w)
     /\ At(p, "publish") => Holds(row, b, b, b)

LEMMA ProgressOfBatch ==
  ASSUME TypeInv, OwnerInv, ProgressInv, NEW p \in Rebuilders, WriteBatch(p)
  PROVE  /\ ProgressOf(p)' /\ rebuild[p].run \in DOMAIN runs
         /\ \A r \in Numbers \ {rebuild[p].run} : rows'[r] = rows[r]
<1>1. PICK t \in Tables :
        /\ At(p, t) /\ rebuild[p].run \in Numbers /\ Need(p)[t] \in Nat
        /\ \/ /\ rebuild[p].written = Need(p)[t] /\ rows' = rows
              /\ rebuild' = [rebuild EXCEPT ![p].pc = After[t], ![p].written = 0]
           \/ \E n \in Nat :
                /\ rebuild[p].written + n <= Need(p)[t]
                /\ rebuild' = [rebuild EXCEPT ![p].written = @ + n]
                /\ rows' = [rows EXCEPT ![rebuild[p].run][t] = @ + n]
  BY BatchWritten
<1>2. /\ rebuild \in [Rebuilders -> Rebuilding] /\ rebuild[p] \in Rebuilding
      /\ rows \in [Numbers -> Row] /\ rows[rebuild[p].run] \in Row
  BY <1>1 DEF TypeInv
<1>3. ProgressOf(p)
  BY DEF ProgressInv, ProgressOf
<1>4. rebuild[p].run \in DOMAIN runs
  BY <1>1 DEF OwnerInv, At, Tables, Writing
<1> DEFINE b == rebuild[p].boundary
<1> DEFINE w == rebuild[p].written
<1> DEFINE row == rows[rebuild[p].run]
<1>a. /\ Need(p)["relations"] = b /\ Need(p)["traffic"] = b
      /\ Need(p)["hours"] = rebuild[p].hours
      /\ After["relations"] = "traffic" /\ After["traffic"] = "aggregate"
      /\ After["hours"] = "publish"
      /\ b \in Nat /\ w \in Nat
  BY <1>2 DEF Need, After, Rebuilding
<1>b. /\ t = "relations" => Holds(row, w, 0, 0)
      /\ t = "traffic" => Holds(row, b, w, 0)
      /\ t = "hours" => rebuild[p].hours = b /\ Holds(row, b, b, w)
  BY <1>1, <1>3 DEF ProgressOf, At
<1>c. \A l : At(p, l)' <=> rebuild'[p].pc = l
  BY DEF At
<1>5. CASE /\ rebuild[p].written = Need(p)[t] /\ rows' = rows
           /\ rebuild' = [rebuild EXCEPT ![p].pc = After[t], ![p].written = 0]
  <2>1. rebuild'[p] = [pc |-> After[t], run |-> rebuild[p].run, boundary |-> rebuild[p].boundary,
                       hours |-> rebuild[p].hours, written |-> 0]
    BY <1>2, <1>5 DEF Rebuilding
  <2>2. /\ rebuild'[p].pc = After[t] /\ rebuild'[p].run = rebuild[p].run
        /\ rebuild'[p].boundary = b /\ rebuild'[p].hours = rebuild[p].hours
        /\ rebuild'[p].written = 0 /\ rows'[rebuild'[p].run] = row /\ w = Need(p)[t]
    BY <1>5, <2>1
  <2>3. ASSUME t = "relations" PROVE ProgressOf(p)'
    BY <1>a, <1>b, <1>c, <2>2, <2>3 DEF ProgressOf, Holds
  <2>4. ASSUME t = "traffic" PROVE ProgressOf(p)'
    BY <1>a, <1>b, <1>c, <2>2, <2>4 DEF ProgressOf, Holds
  <2>5. ASSUME t = "hours" PROVE ProgressOf(p)'
    BY <1>a, <1>b, <1>c, <2>2, <2>5 DEF ProgressOf, Holds
  <2>6. ProgressOf(p)'
    BY <2>3, <2>4, <2>5 DEF Tables
  <2> QED BY <1>4, <1>5, <2>6
<1>6. CASE \E n \in Nat :
             /\ rebuild[p].written + n <= Need(p)[t]
             /\ rebuild' = [rebuild EXCEPT ![p].written = @ + n]
             /\ rows' = [rows EXCEPT ![rebuild[p].run][t] = @ + n]
  <2>1. PICK n \in Nat :
             /\ rebuild[p].written + n <= Need(p)[t]
             /\ rebuild' = [rebuild EXCEPT ![p].written = @ + n]
             /\ rows' = [rows EXCEPT ![rebuild[p].run][t] = @ + n]
    BY <1>6
  <2>2. rebuild'[p] = [pc |-> t, run |-> rebuild[p].run, boundary |-> rebuild[p].boundary,
                       hours |-> rebuild[p].hours, written |-> rebuild[p].written + n]
    BY <1>1, <1>2, <2>1 DEF Rebuilding, At
  <2>3. row[t] + n \in Nat
    BY <1>2 DEF Row
  <2>4. /\ rows'[rebuild[p].run] = [row EXCEPT ![t] = row[t] + n]
        /\ \A r \in Numbers \ {rebuild[p].run} : rows'[r] = rows[r]
    BY <1>1, <1>2, <2>1, <2>3, RowsPut
  <2>5. row = [relations |-> row.relations, traffic |-> row.traffic, hours |-> row.hours]
    BY <1>2, RowIs
  <2>6. ASSUME t = "relations" PROVE ProgressOf(p)'
    <3>1. rows'[rebuild[p].run] = [relations |-> row.relations + n, traffic |-> row.traffic,
                                   hours |-> row.hours]
      BY <2>4, <2>5, <2>6
    <3>2. row.relations = rebuild[p].written /\ row.traffic = 0 /\ row.hours = 0
      BY <1>b, <2>6 DEF Holds
    <3> QED BY <1>a, <1>c, <2>1, <2>2, <2>6, <3>1, <3>2 DEF ProgressOf, Holds
  <2>7. ASSUME t = "traffic" PROVE ProgressOf(p)'
    <3>1. rows'[rebuild[p].run] = [relations |-> row.relations, traffic |-> row.traffic + n,
                                   hours |-> row.hours]
      BY <2>4, <2>5, <2>7
    <3>2. row.relations = rebuild[p].boundary /\ row.traffic = rebuild[p].written /\ row.hours = 0
      BY <1>b, <2>7 DEF Holds
    <3> QED BY <1>a, <1>c, <2>1, <2>2, <2>7, <3>1, <3>2 DEF ProgressOf, Holds
  <2>8. ASSUME t = "hours" PROVE ProgressOf(p)'
    <3>1. rows'[rebuild[p].run] = [relations |-> row.relations, traffic |-> row.traffic,
                                   hours |-> row.hours + n]
      BY <2>4, <2>5, <2>8
    <3>2. /\ row.relations = rebuild[p].boundary /\ row.traffic = rebuild[p].boundary
          /\ row.hours = rebuild[p].written /\ rebuild[p].hours = rebuild[p].boundary
      BY <1>b, <2>8 DEF Holds
    <3> QED BY <1>a, <1>c, <2>1, <2>2, <2>8, <3>1, <3>2 DEF ProgressOf, Holds
  <2>9. ProgressOf(p)'
    BY <2>6, <2>7, <2>8 DEF Tables
  <2> QED BY <1>4, <2>4, <2>9
<1> QED BY <1>1, <1>5, <1>6

LEMMA ProgressStep == RunsInv /\ [Next]_vars => ProgressInv'
<1> SUFFICES ASSUME RunsInv, [Next]_vars PROVE ProgressInv'
  OBVIOUS
<1>1. TypeInv /\ OwnerInv /\ ProgressInv /\ CleanInv /\ RowsHaveRun
  BY DEF RunsInv, ProgressInv
<1>2. /\ rebuild \in [Rebuilders -> Rebuilding] /\ rows \in [Numbers -> Row]
      /\ DOMAIN runs \subseteq Numbers /\ 1..tickets \subseteq Numbers
  BY <1>1, RunsAssumption DEF TypeInv, Numbers
<1>3. SUFFICES RowsHaveRun' /\ \A p \in Rebuilders : ProgressOf(p)'
  BY DEF ProgressInv, ProgressOf
<1>4. \A p \in Rebuilders : ProgressOf(p)
  BY <1>1 DEF ProgressInv, ProgressOf
<1>5. ASSUME NEW p \in Rebuilders, RebuildAccounting(p)
      PROVE  RowsHaveRun' /\ \A q \in Rebuilders : ProgressOf(q)'
  <2>1. \A q \in Rebuilders \ {p} : rebuild'[q] = rebuild[q]
    BY <1>1, <1>5, RebuildStep
  <2>2. CASE WriteBatch(p)
    <3>1. /\ ProgressOf(p)' /\ rebuild[p].run \in DOMAIN runs /\ runs' = runs
          /\ \A r \in Numbers \ {rebuild[p].run} : rows'[r] = rows[r]
      BY <1>1, <2>2, ProgressOfBatch DEF WriteBatch
    <3>2. RowsHaveRun'
      BY <1>1, <3>1 DEF RowsHaveRun
    <3>3. ASSUME NEW q \in Rebuilders \ {p} PROVE ProgressOf(q)'
      <4>1. CASE At(q, "idle") \/ At(q, "capture")
        BY <1>4, <2>1, <4>1 DEF ProgressOf, At
      <4>2. CASE ~At(q, "idle") /\ ~At(q, "capture")
        <5>1. rebuild[q].run \in Numbers /\ rebuild[q].run # rebuild[p].run
          BY <1>1, <1>2, <2>2, <4>2 DEF OwnerInv, WriteBatch, At, Tables
        <5> QED BY <1>4, <2>1, <3>1, <5>1 DEF ProgressOf, At
      <4> QED BY <4>1, <4>2
    <3> QED BY <3>1, <3>2, <3>3
  <2>3. CASE ~WriteBatch(p)
    <3>1. rows' = rows
      BY <1>5, <2>3 DEF RebuildAccounting, Call, Capture, Aggregate, Publish, Fails, MarkFailed, Dies
    <3>2. \A q \in Rebuilders \ {p} : ProgressOf(q)'
      BY <1>4, <2>1, <3>1 DEF ProgressOf, At
    <3>3. DOMAIN runs \subseteq DOMAIN runs'
      <4>1. CASE Publish(p) \/ MarkFailed(p)
        BY <1>1, <4>1, ClosedRun
      <4>2. CASE Capture(p) /\ rebuild'[p].pc # "idle"
        BY <1>1, <4>2, CapturedRun
      <4>3. CASE runs' = runs
        BY <4>3
      <4> QED BY <1>1, <1>5, <4>1, <4>2, <4>3, RebuildStep DEF Call
    <3>4. RowsHaveRun'
      BY <1>1, <3>1, <3>3 DEF RowsHaveRun
    <3>5. ProgressOf(p)'
      <4>1. CASE rebuild'[p].pc = "idle" \/ rebuild'[p].pc = "markFailed"
        BY <4>1 DEF ProgressOf, At
      <4>2. CASE Call(p)
        BY <1>2, <4>2 DEF Call, Idle, ProgressOf, At
      <4>3. CASE Capture(p) /\ rebuild'[p].pc # "idle"
        <5>1. rebuild[p].run \notin DOMAIN runs /\ rebuild[p].run \in 1..tickets
          BY <1>1, <4>3, CapturedRun
        <5>2. rows[rebuild[p].run] = NoRows /\ rows[rebuild[p].run] \in Row
          BY <1>1, <1>2, <5>1 DEF RowsHaveRun
        <5>3. Holds(rows[rebuild[p].run], 0, 0, 0)
          BY <5>2, RowIs
        <5>4. /\ rebuild'[p].pc = "relations" /\ rebuild'[p].run = rebuild[p].run
              /\ rebuild'[p].boundary = journal /\ rebuild'[p].written = rebuild[p].written
              /\ rebuild[p].written = 0 /\ journal \in Nat
          BY <1>1, <1>2, <1>4, <4>3 DEF Capture, Rebuilding, Idle, ProgressOf, TypeInv
        <5> QED BY <3>1, <5>3, <5>4 DEF ProgressOf, At
      <4>4. CASE Aggregate(p)
        <5>1. /\ rebuild'[p].pc = "hours" /\ rebuild'[p].run = rebuild[p].run
              /\ rebuild'[p].boundary = rebuild[p].boundary
              /\ rebuild'[p].written = rebuild[p].written
              /\ rebuild'[p].hours = rows[rebuild[p].run].traffic /\ rebuild[p].boundary \in Nat
          BY <1>2, <4>4 DEF Aggregate, Rebuilding
        <5>2. rebuild[p].written = 0 /\ Holds(rows[rebuild[p].run], rebuild[p].boundary,
                                              rebuild[p].boundary, 0)
          BY <1>4, <4>4 DEF ProgressOf, Aggregate
        <5> QED BY <3>1, <5>1, <5>2 DEF ProgressOf, At, Holds
      <4>5. CASE Fails(p)
        BY <1>2, <4>5 DEF Fails, Goes, Idle, ProgressOf, At, Rebuilding
      <4>6. CASE Publish(p) \/ MarkFailed(p) \/ Dies(p)
        BY <1>2, <4>6 DEF Publish, MarkFailed, Dies, Idle, ProgressOf, At
      <4> QED BY <1>5, <2>3, <4>1, <4>2, <4>3, <4>4, <4>5, <4>6 DEF RebuildAccounting
    <3> QED BY <3>2, <3>4, <3>5
  <2> QED BY <2>2, <2>3
<1>6. CASE \A p \in Rebuilders : ~RebuildAccounting(p)
  <2>1. rebuild' = rebuild
    BY <1>1, <1>6, OthersStep
  <2>2. CASE \E c \in Cleaners : DeleteBatch(c)
    <3>1. PICK c \in Cleaners : DeleteBatch(c)
      BY <2>2
    <3>2. PICK t \in Tables :
            /\ clean[c].pc = t /\ clean[c].run \in Numbers
            /\ \/ rows' = rows
               \/ /\ rows[clean[c].run][t] # 0
                  /\ \E n \in Nat : rows' = [rows EXCEPT ![clean[c].run][t] = n]
      BY <1>1, <3>1, BatchDeleted
    <3>3. runs' = runs /\ Spent(clean[c].run)
      BY <1>1, <3>1, <3>2 DEF DeleteBatch, CleanInv, CleanOf, Deleting, Tables
    <3>4. CASE rows' = rows
      BY <1>1, <1>4, <2>1, <3>3, <3>4 DEF RowsHaveRun, ProgressOf, At
    <3>5. CASE /\ rows[clean[c].run][t] # 0
               /\ \E n \in Nat : rows' = [rows EXCEPT ![clean[c].run][t] = n]
      <4>1. \A r \in Numbers \ {clean[c].run} : rows'[r] = rows[r]
        BY <1>2, <3>2, <3>5, RowsPut
      <4>2. clean[c].run \in DOMAIN runs
        BY <1>1, <3>2, <3>5 DEF RowsHaveRun, NoRows
      <4>3. RowsHaveRun'
        BY <1>1, <3>3, <4>1, <4>2 DEF RowsHaveRun
      <4>4. ASSUME NEW q \in Rebuilders PROVE ProgressOf(q)'
        <5>1. CASE At(q, "idle") \/ At(q, "capture")
          BY <1>4, <2>1, <5>1 DEF ProgressOf, At
        <5>2. CASE ~At(q, "idle") /\ ~At(q, "capture")
          <6>1. rebuild[q].run \in Numbers /\ rebuild[q].run # clean[c].run
            BY <1>1, <1>2, <3>3, <5>2 DEF OwnerInv, Spent, WorksOn
          <6> QED BY <1>4, <2>1, <4>1, <6>1 DEF ProgressOf, At
        <5> QED BY <5>1, <5>2
      <4> QED BY <4>3, <4>4
    <3> QED BY <3>2, <3>4, <3>5
  <2>3. CASE \A c \in Cleaners : ~DeleteBatch(c)
    <3>1. rows' = rows
      <4>1. CASE \E c \in Cleaners : Cleanup(c)
        BY <2>3, <4>1 DEF Cleanup, PlanCompleted, PlanFailed, NextRun, DeleteRun, CleanupEnds
      <4>2. CASE Reader
        BY <4>2 DEF Reader, ResolveScope, ReadRows, ReadJournal, ReadFreshness, Forget, readOnly
      <4>3. CASE CollectorWrites \/ (\E r \in DOMAIN runs : Ages(r)) \/ UNCHANGED vars
        BY <4>3 DEF CollectorWrites, Ages, vars
      <4> QED BY <1>6, <4>1, <4>2, <4>3 DEF Next
    <3>2. \A q \in Rebuilders : ProgressOf(q)'
      BY <1>4, <2>1, <3>1 DEF ProgressOf, At
    <3>3. RowsHaveRun'
      <4>1. CASE \E c \in Cleaners : DeleteRun(c)
        <5>1. PICK c \in Cleaners : DeleteRun(c)
          BY <4>1
        <5>2. Spent(clean[c].run) /\ DOMAIN runs' = DOMAIN runs \ {clean[c].run}
          BY <5>1, DeletedRun
        <5>3. rows[clean[c].run] \in Row
          BY <1>2, <5>2 DEF Spent
        <5>4. Holds(rows[clean[c].run], 0, 0, 0)
          BY <1>1, <5>1, <5>3, RowIs DEF CleanInv, CleanOf, DeleteRun
        <5>5. rows[clean[c].run] = NoRows
          BY <5>3, <5>4, RowIs
        <5> QED BY <1>1, <3>1, <5>2, <5>5 DEF RowsHaveRun
      <4>2. CASE \E r \in DOMAIN runs : Ages(r)
        BY <1>1, <3>1, <4>2, AgedRun DEF RowsHaveRun
      <4>3. CASE runs' = runs
        BY <1>1, <3>1, <4>3 DEF RowsHaveRun
      <4> QED BY <1>1, <1>6, <4>1, <4>2, <4>3, OthersStep
    <3> QED BY <3>2, <3>3
  <2> QED BY <2>2, <2>3
<1> QED BY <1>5, <1>6

-----------------------------------------------------------------------------
(* The invariant is inductive: cleanups and readers.                       *)

\* A run that is spent stays so, and gets no rows.
LEMMA SpentStays ==
  ASSUME RunsInv, [Next]_vars, NEW r, Spent(r)
  PROVE  Spent(r)' /\ \A t \in Tables : rows[r][t] = 0 => rows'[r][t] = 0
<1>1. TypeInv /\ OwnerInv /\ ProgressInv /\ CleanInv /\ rows \in [Numbers -> Row]
  BY DEF RunsInv, TypeInv
<1>2. /\ r \in 1..tickets /\ tickets \in Nat /\ r \in Numbers
      /\ \A p \in Rebuilders : ~WorksOn(p, r)
  BY <1>1, RunsAssumption DEF Spent, TypeInv, Numbers
<1>3. Latest \in Nat /\ Latest' \in Nat /\ Latest <= Latest'
  BY LatestStep
<1>4. /\ tickets' \in {tickets, tickets + 1}
      /\ \A p \in Rebuilders : rebuild'[p].pc = "idle" \/ rebuild'[p].run = tickets + 1 \/
           (rebuild[p].pc # "idle" /\ rebuild'[p].run = rebuild[p].run)
  <2>1. ASSUME NEW p \in Rebuilders, RebuildAccounting(p)
        PROVE  /\ tickets' \in {tickets, tickets + 1}
               /\ \A q \in Rebuilders : rebuild'[q].pc = "idle" \/ rebuild'[q].run = tickets + 1 \/
                    (rebuild[q].pc # "idle" /\ rebuild'[q].run = rebuild[q].run)
    <3>1. tickets' \in {tickets, tickets + 1}
      BY <2>1 DEF RebuildAccounting, Call, Capture, WriteBatch, Aggregate, Publish, Fails,
         MarkFailed, Dies
    <3>2. \A q \in Rebuilders \ {p} : rebuild'[q] = rebuild[q]
      BY <1>1, <2>1, RebuildStep
    <3>3. \/ rebuild'[p].pc = "idle" \/ rebuild'[p].run = tickets + 1
          \/ (rebuild[p].pc # "idle" /\ rebuild'[p].run = rebuild[p].run)
      BY <1>1, <2>1, RebuildStep DEF Capture, At, Writing
    <3>4. ASSUME NEW q \in Rebuilders
          PROVE  rebuild'[q].pc = "idle" \/ rebuild'[q].run = tickets + 1 \/
                   (rebuild[q].pc # "idle" /\ rebuild'[q].run = rebuild[q].run)
      <4>1. CASE q = p
        BY <3>3, <4>1
      <4>2. CASE q # p
        BY <3>2, <4>2
      <4> QED BY <4>1, <4>2
    <3> QED BY <3>1, <3>4
  <2>2. CASE \A p \in Rebuilders : ~RebuildAccounting(p)
    BY <1>1, <2>2, OthersStep
  <2> QED BY <2>1, <2>2
<1>5. r \in 1..tickets' /\ \A p \in Rebuilders : ~WorksOn(p, r)'
  BY <1>2, <1>4 DEF WorksOn, At
<1>6. r \in DOMAIN runs' =>
        r \in DOMAIN runs /\ (runs'[r].status = runs[r].status \/ runs[r].status = "running")
  <2>1. CASE \E p \in Rebuilders : Capture(p)
    <3>1. PICK p \in Rebuilders : Capture(p)
      BY <2>1
    <3>2. rebuild[p].run # r
      BY <1>2, <3>1 DEF WorksOn, Capture, At
    <3>3. CASE rebuild'[p].pc # "idle"
      BY <1>1, <3>1, <3>2, <3>3, CapturedRun
    <3>4. CASE rebuild'[p].pc = "idle"
      BY <1>1, <3>1, <3>4 DEF Capture, TypeInv, Rebuilding
    <3> QED BY <3>3, <3>4
  <2>2. CASE \E p \in Rebuilders : Publish(p) \/ MarkFailed(p)
    <3>1. PICK p \in Rebuilders : Publish(p) \/ MarkFailed(p)
      BY <2>2
    <3>2. rebuild[p].run # r
      BY <1>2, <3>1 DEF WorksOn, Publish, MarkFailed, At
    <3> QED BY <1>1, <3>1, <3>2, ClosedRun
  <2>3. CASE \E c \in Cleaners : DeleteRun(c)
    BY <2>3, DeletedRun
  <2>4. CASE \E q \in DOMAIN runs : Ages(q)
    BY <1>1, <2>4, AgedRun
  <2> QED BY <2>1, <2>2, <2>3, <2>4, RunsUntouched
<1>7. Spent(r)'
  <2>1. r \in DOMAIN runs' => \/ runs'[r].status = "completed" /\ r < Latest'
                             \/ runs'[r].status = "failed"
    BY <1>2, <1>3, <1>6 DEF Spent
  <2> QED BY <1>5, <2>1 DEF Spent
<1>8. ASSUME NEW t \in Tables, rows[r][t] = 0 PROVE rows'[r][t] = 0
  <2>1. CASE \E p \in Rebuilders : WriteBatch(p)
    <3>1. PICK p \in Rebuilders : WriteBatch(p)
      BY <2>1
    <3>2. rebuild[p].run # r
      BY <1>2, <3>1 DEF WorksOn, WriteBatch, At, Tables
    <3> QED BY <1>1, <1>2, <1>8, <3>1, <3>2, ProgressOfBatch
  <2>2. CASE \E c \in Cleaners : DeleteBatch(c)
    <3>1. PICK c \in Cleaners : DeleteBatch(c)
      BY <2>2
    <3>2. PICK u \in Tables :
            /\ clean[c].run \in Numbers
            /\ \/ rows' = rows
               \/ /\ rows[clean[c].run][u] # 0
                  /\ \E n \in Nat : rows' = [rows EXCEPT ![clean[c].run][u] = n]
      BY <1>1, <3>1, BatchDeleted
    <3>3. CASE rows' = rows
      BY <1>8, <3>3
    <3>4. CASE /\ rows[clean[c].run][u] # 0
               /\ \E n \in Nat : rows' = [rows EXCEPT ![clean[c].run][u] = n]
      <4>1. PICK n \in Nat : rows' = [rows EXCEPT ![clean[c].run][u] = n]
        BY <3>4
      <4>2. /\ rows'[clean[c].run] = [rows[clean[c].run] EXCEPT ![u] = n]
            /\ \A q \in Numbers \ {clean[c].run} : rows'[q] = rows[q]
        BY <1>1, <3>2, <4>1, RowsPut
      <4>3. clean[c].run = r => u # t
        BY <1>8, <3>4
      <4>4. rows[r] \in Row
        BY <1>1, <1>2
      <4> QED BY <1>2, <1>8, <4>2, <4>3, <4>4 DEF Row
    <3> QED BY <3>2, <3>3, <3>4
  <2>3. CASE (\A p \in Rebuilders : ~WriteBatch(p)) /\ \A c \in Cleaners : ~DeleteBatch(c)
    <3>1. rows' = rows
      <4>1. CASE \E p \in Rebuilders : RebuildAccounting(p)
        BY <2>3, <4>1 DEF RebuildAccounting, Call, Capture, Aggregate, Publish, Fails,
           MarkFailed, Dies
      <4>2. CASE \E c \in Cleaners : Cleanup(c)
        BY <2>3, <4>2 DEF Cleanup, PlanCompleted, PlanFailed, NextRun, DeleteRun, CleanupEnds
      <4>3. CASE Reader
        BY <4>3 DEF Reader, ResolveScope, ReadRows, ReadJournal, ReadFreshness, Forget, readOnly
      <4>4. CASE CollectorWrites \/ (\E q \in DOMAIN runs : Ages(q)) \/ UNCHANGED vars
        BY <4>4 DEF CollectorWrites, Ages, vars
      <4> QED BY <4>1, <4>2, <4>3, <4>4 DEF Next
    <3> QED BY <1>8, <3>1
  <2> QED BY <2>1, <2>2, <2>3
<1> QED BY <1>7, <1>8

\* What a plan names is spent.
LEMMA PlannedIsSpent ==
  ASSUME RunsInv, NEW r \in DOMAIN runs,
         \/ runs[r].status = "failed" /\ runs[r].age = "expired"
         \/ runs[r].status = "completed" /\ \E q \in With("completed") : q > r
  PROVE  Spent(r)
<1>1. TypeInv /\ OwnerInv /\ AgeInv
  BY DEF RunsInv
<1>2. r \in 1..tickets
  BY <1>1 DEF TypeInv
<1>3. ASSUME NEW p \in Rebuilders, WorksOn(p, r) PROVE FALSE
  <2>1. rebuild[p].pc # "idle" /\ rebuild[p].run = r
    BY <1>3 DEF WorksOn, At
  <2>2. rebuild[p].pc = "capture" \/ rebuild[p].pc \in Writing
    BY <1>1, <2>1 DEF TypeInv, Rebuilding
  <2>3. runs[r].status # "completed"
    BY <1>1, <2>1, <2>2 DEF OwnerInv, At
  <2> QED BY <1>1, <1>3, <2>3 DEF AgeInv
<1>4. runs[r].status = "completed" => r < Latest
  <2> SUFFICES ASSUME NEW q \in With("completed"), q > r PROVE r < Latest
    OBVIOUS
  <2>1. q \in 1..tickets /\ tickets \in Nat /\ Latest \in 0..tickets /\ q <= Latest
    BY <1>1, LatestTyped DEF TypeInv, With
  <2> QED BY <1>2, <2>1
<1> QED BY <1>2, <1>3, <1>4 DEF Spent

LEMMA CleanStep == RunsInv /\ [Next]_vars => CleanInv'
<1> SUFFICES ASSUME RunsInv, [Next]_vars PROVE CleanInv'
  OBVIOUS
<1>1. TypeInv /\ CleanInv /\ clean \in [Cleaners -> Cleaning]
  BY DEF RunsInv, TypeInv
<1>a. \A r : Spent(r) => /\ Spent(r)'
                         /\ \A t \in Tables : rows[r][t] = 0 => rows'[r][t] = 0
  BY SpentStays
<1>2. ASSUME NEW c \in Cleaners, clean'[c] = clean[c] PROVE CleanOf(c)'
  <2>1. \A r \in clean[c].completed \cup clean[c].failed : Spent(r)'
    BY <1>1, <1>a DEF CleanInv, CleanOf
  <2>2. clean[c].pc \in Deleting =>
          /\ Spent(clean[c].run) /\ Spent(clean[c].run)'
          /\ \A t \in Tables : rows[clean[c].run][t] = 0 => rows'[clean[c].run][t] = 0
    BY <1>1, <1>2, <1>a DEF CleanInv, CleanOf
  <2>3. /\ clean[c].pc \in {"traffic", "relations", "metadata"} => rows[clean[c].run].hours = 0
        /\ clean[c].pc \in {"relations", "metadata"} => rows[clean[c].run].traffic = 0
        /\ clean[c].pc = "metadata" => rows[clean[c].run].relations = 0
    BY <1>1 DEF CleanInv, CleanOf
  <2> QED BY <1>2, <2>1, <2>2, <2>3 DEF CleanOf, Deleting, Tables
<1>3. CASE \E c \in Cleaners : Cleanup(c)
  <2>1. PICK c \in Cleaners : Cleanup(c)
    BY <1>3
  <2>2. \A d \in Cleaners \ {c} : clean'[d] = clean[d]
    BY <1>1, <2>1 DEF Cleanup, PlanCompleted, PlanFailed, NextRun, DeleteBatch, DeleteRun,
       CleanupEnds
  <2>3. \A r : Spent(r) => Spent(r)'
    BY <1>a
  <2>4. clean[c] \in Cleaning /\ \A r \in clean[c].completed \cup clean[c].failed : Spent(r)'
    BY <1>1, <2>3 DEF CleanInv, CleanOf
  <2>5. CleanOf(c)'
    <3>1. CASE PlanCompleted(c)
      <4>1. PICK keep \in Keeps : clean' =
              [clean EXCEPT ![c].pc = "planFailed", ![c].completed = Beyond(keep)]
        BY <3>1 DEF PlanCompleted
      <4>2. ASSUME NEW r \in Beyond(keep) PROVE Spent(r)
        <5>1. r \in DOMAIN runs /\ runs[r].status = "completed"
          BY DEF Beyond, With
        <5>2. keep \in Nat \ {0} /\ Cardinality({q \in With("completed") : q > r}) >= keep
          BY RunsAssumption DEF Beyond
        <5>3. {q \in With("completed") : q > r} # {}
          BY <5>2, FS_EmptySet
        <5> QED BY <5>1, <5>3, PlannedIsSpent
      <4>3. /\ clean'[c].pc = "planFailed" /\ clean'[c].completed = Beyond(keep)
            /\ clean'[c].failed = clean[c].failed
        BY <2>4, <4>1, <1>1 DEF Cleaning
      <4> QED BY <2>3, <2>4, <4>2, <4>3 DEF Deleting, CleanOf
    <3>2. CASE PlanFailed(c)
      <4>1. /\ clean'[c].pc = "next" /\ clean'[c].completed = clean[c].completed
            /\ clean'[c].failed = {r \in With("failed") : runs[r].age = "expired"}
        BY <1>1, <2>4, <3>2 DEF PlanFailed, Cleaning
      <4>2. \A r \in clean'[c].failed : Spent(r)
        BY <4>1, PlannedIsSpent DEF With
      <4> QED BY <2>3, <2>4, <4>1, <4>2 DEF Deleting, CleanOf
    <3>3. CASE NextRun(c)
      <4>1. PICK r \in Planned(c) :
              clean' = [clean EXCEPT ![c].pc = "hours", ![c].run = r,
                                     ![c].completed = @ \ {r}, ![c].failed = @ \ {r}]
        BY <3>3 DEF NextRun
      <4>2. Spent(r)
        <5>1. CASE clean[c].completed = {}
          BY <1>1, <5>1 DEF Planned, CleanInv, CleanOf
        <5>2. CASE clean[c].completed # {}
          <6>1. clean[c].completed \in SUBSET (1..tickets) /\ tickets \in Nat
            BY <1>1 DEF CleanInv, CleanOf, Spent, TypeInv
          <6>2. Max(clean[c].completed) \in clean[c].completed
            BY ONLY <5>2, <6>1, GreatestOf
          <6> QED BY <1>1, <5>2, <6>2 DEF Planned, CleanInv, CleanOf
        <5> QED BY <5>1, <5>2
      <4>3. /\ clean'[c].pc = "hours" /\ clean'[c].run = r
            /\ clean'[c].completed \subseteq clean[c].completed
            /\ clean'[c].failed \subseteq clean[c].failed
        BY <1>1, <2>4, <4>1 DEF Cleaning
      <4> QED BY <2>3, <2>4, <4>2, <4>3 DEF Deleting, CleanOf
    <3>4. CASE DeleteBatch(c)
      <4>1. PICK t \in Tables :
              /\ clean[c].pc = t
              /\ \/ /\ rows[clean[c].run][t] = 0 /\ rows' = rows
                    /\ clean' = [clean EXCEPT ![c].pc = Then[t]]
                 \/ clean' = clean
        BY <1>1, <3>4, BatchDeleted
      <4>2. CASE clean' = clean
        BY <1>2, <4>2
      <4>3. CASE /\ rows[clean[c].run][t] = 0 /\ rows' = rows
                 /\ clean' = [clean EXCEPT ![c].pc = Then[t]]
        <5>1. /\ clean'[c].pc = Then[t] /\ clean'[c].run = clean[c].run
              /\ clean'[c].completed = clean[c].completed /\ clean'[c].failed = clean[c].failed
          BY <1>1, <2>4, <4>3 DEF Cleaning
        <5>2. Spent(clean[c].run)'
          BY <1>1, <2>3, <4>1, <5>1 DEF CleanInv, CleanOf, Deleting, Tables
        <5>3. /\ Then["hours"] = "traffic" /\ Then["traffic"] = "relations"
              /\ Then["relations"] = "metadata"
          BY DEF Then
        <5>4. /\ clean[c].pc \in {"traffic", "relations"} => rows[clean[c].run].hours = 0
              /\ clean[c].pc = "relations" => rows[clean[c].run].traffic = 0
          BY <1>1 DEF CleanInv, CleanOf
        <5> QED BY <2>4, <4>1, <4>3, <5>1, <5>2, <5>3, <5>4 DEF Tables, CleanOf
      <4> QED BY <4>1, <4>2, <4>3
    <3>5. CASE DeleteRun(c)
      <4>1. /\ clean'[c].pc = "next" /\ clean'[c].completed = clean[c].completed
            /\ clean'[c].failed = clean[c].failed
        BY <1>1, <2>4, <3>5 DEF DeleteRun, Cleaning
      <4> QED BY <2>4, <4>1 DEF Deleting, CleanOf
    <3>6. CASE CleanupEnds(c)
      BY <1>1, <3>6 DEF CleanupEnds, Resting, Deleting, CleanOf
    <3> QED BY <2>1, <3>1, <3>2, <3>3, <3>4, <3>5, <3>6 DEF Cleanup
  <2> QED BY <1>2, <2>2, <2>5 DEF CleanInv
<1>4. CASE ~\E c \in Cleaners : Cleanup(c)
  <2>1. clean' = clean
    <3>1. CASE \E p \in Rebuilders : RebuildAccounting(p)
      BY <3>1, RebuildStep DEF RunsInv
    <3>2. CASE Reader
      BY <3>2 DEF Reader, ResolveScope, ReadRows, ReadJournal, ReadFreshness, Forget, readOnly
    <3>3. CASE CollectorWrites \/ (\E r \in DOMAIN runs : Ages(r)) \/ UNCHANGED vars
      BY <3>3 DEF CollectorWrites, Ages, vars
    <3> QED BY <1>4, <3>1, <3>2, <3>3 DEF Next
  <2> QED BY <1>2, <2>1 DEF CleanInv
<1> QED BY <1>3, <1>4

LEMMA WholeStep == RunsInv /\ [Next]_vars => WholeInv'
<1> SUFFICES ASSUME RunsInv, [Next]_vars, NEW r \in With("completed")'
             PROVE  Whole(runs'[r].boundary, rows'[r]) \/ r < Latest'
  BY DEF WholeInv
<1>1. TypeInv /\ OwnerInv /\ ProgressInv /\ CleanInv /\ WholeInv /\ rows \in [Numbers -> Row]
  BY DEF RunsInv, TypeInv
<1>2. Latest \in Nat /\ Latest' \in Nat /\ Latest <= Latest'
  BY LatestStep
<1>3. CASE r \in With("completed")
  <2>1. /\ r \in DOMAIN runs /\ runs[r].status = "completed" /\ r \in Numbers /\ r \in Nat
        /\ runs'[r].boundary = runs[r].boundary
    BY <1>1, <1>3, RunsAssumption, CompletedStep DEF With, TypeInv, Numbers
  <2>2. CASE r < Latest
    BY <1>2, <2>1, <2>2
  <2>3. CASE ~(r < Latest)
    <3>1. Whole(runs[r].boundary, rows[r])
      BY <1>1, <1>3, <2>3 DEF WholeInv
    <3>2. rows'[r] = rows[r]
      <4>1. CASE \E p \in Rebuilders : WriteBatch(p)
        <5>1. PICK p \in Rebuilders : WriteBatch(p)
          BY <4>1
        <5>2. rebuild[p].run # r
          BY <1>1, <2>1, <5>1 DEF OwnerInv, WriteBatch, At, Tables, Writing
        <5> QED BY <1>1, <2>1, <5>1, <5>2, ProgressOfBatch
      <4>2. CASE \E c \in Cleaners : DeleteBatch(c)
        <5>1. PICK c \in Cleaners : DeleteBatch(c)
          BY <4>2
        <5>2. PICK t \in Tables :
                /\ clean[c].pc = t /\ clean[c].run \in Numbers
                /\ \/ rows' = rows
                   \/ \E n \in Nat : rows' = [rows EXCEPT ![clean[c].run][t] = n]
          BY <1>1, <5>1, BatchDeleted
        <5>3. clean[c].run # r
          <6>1. Spent(clean[c].run)
            BY <1>1, <5>2 DEF CleanInv, CleanOf, Deleting, Tables
          <6> QED BY <2>1, <2>3, <6>1 DEF Spent
        <5>4. CASE \E n \in Nat : rows' = [rows EXCEPT ![clean[c].run][t] = n]
          BY ONLY <1>1, <2>1, <5>2, <5>3, <5>4, RowsPut
        <5> QED BY <5>2, <5>4
      <4>3. CASE (\A p \in Rebuilders : ~WriteBatch(p)) /\ \A c \in Cleaners : ~DeleteBatch(c)
        <5>1. CASE \E p \in Rebuilders : RebuildAccounting(p)
          BY <4>3, <5>1 DEF RebuildAccounting, Call, Capture, Aggregate, Publish, Fails,
             MarkFailed, Dies
        <5>2. CASE \E c \in Cleaners : Cleanup(c)
          BY <4>3, <5>2 DEF Cleanup, PlanCompleted, PlanFailed, NextRun, DeleteRun, CleanupEnds
        <5>3. CASE Reader
          BY <5>3 DEF Reader, ResolveScope, ReadRows, ReadJournal, ReadFreshness, Forget, readOnly
        <5>4. CASE CollectorWrites \/ (\E q \in DOMAIN runs : Ages(q)) \/ UNCHANGED vars
          BY <5>4 DEF CollectorWrites, Ages, vars
        <5> QED BY <5>1, <5>2, <5>3, <5>4 DEF Next
      <4> QED BY <4>1, <4>2, <4>3
    <3> QED BY <2>1, <3>1, <3>2
  <2> QED BY <2>2, <2>3
<1>4. CASE \E p \in Rebuilders : Publish(p) /\ r = rebuild[p].run
  <2>1. PICK p \in Rebuilders : Publish(p) /\ r = rebuild[p].run
    BY <1>4
  <2>2. /\ r \in DOMAIN runs /\ rebuild[p].pc = "publish"
        /\ runs'[r].boundary = runs[r].boundary /\ rows' = rows
    BY <1>1, <2>1, ClosedRun DEF Publish, At
  <2>3. runs[r].boundary = rebuild[p].boundary
    BY <1>1, <2>1, <2>2 DEF OwnerInv, Writing
  <2>4. Holds(rows[r], rebuild[p].boundary, rebuild[p].boundary, rebuild[p].boundary)
    BY <1>1, <2>1, <2>2 DEF ProgressInv, At
  <2> QED BY <2>2, <2>3, <2>4 DEF Holds, Whole
<1> QED BY <1>3, <1>4, CompletedStep

LEMMA ReaderStep == RunsInv /\ [Next]_vars => ReaderInv'
<1> SUFFICES ASSUME RunsInv, [Next]_vars PROVE ReaderInv'
  OBVIOUS
<1>1. TypeInv /\ TypeInv' /\ WholeInv /\ ReaderInv
  BY TypeStep DEF RunsInv
<1>2. /\ Latest \in Nat /\ Latest' \in Nat /\ Latest <= Latest'
      /\ Latest # 0 /\ Latest' = Latest => runs'[Latest'].boundary = runs[Latest].boundary
  BY LatestStep
<1>3. reader \in Reading /\ journal \in Nat
  BY <1>1 DEF TypeInv
<1>4. CASE Reader
  <2>1. runs' = runs /\ rows' = rows /\ journal' = journal
    BY <1>4 DEF Reader, ResolveScope, ReadRows, ReadJournal, ReadFreshness, Forget, readOnly
  <2>2. Latest' = Latest
    BY <2>1 DEF Latest, With
  <2>3. Latest # 0 => Latest \in With("completed")
    BY <1>1, LatestTyped
  <2>4. CASE ResolveScope
    <3>1. /\ reader'.pc = "rows" /\ reader'.run = Latest /\ Latest # 0
          /\ reader'.boundary = runs[Latest].boundary /\ reader'.asked = journal
      BY <2>4 DEF ResolveScope, Waiting
    <3> QED BY <1>2, <1>3, <2>1, <2>2, <3>1 DEF ReaderInv, AnswerHolds
  <2>5. CASE ReadRows
    <3>1. /\ reader.pc = "rows" /\ reader'.pc = "journal" /\ reader'.run = reader.run
          /\ reader'.boundary = reader.boundary /\ reader'.asked = reader.asked
          /\ reader'.seen = rows[reader.run]
      BY <1>3, <2>5 DEF ReadRows, Reading
    <3>2. ReaderInv /\ 0 < reader.run /\ reader.run <= Latest
      BY <1>1, <3>1 DEF ReaderInv
    <3>3. reader.run = Latest => Whole(reader.boundary, rows[reader.run])
      BY <1>1, <1>2, <2>3, <3>1, <3>2 DEF ReaderInv, WholeInv
    <3> QED BY <2>1, <2>2, <3>1, <3>2, <3>3 DEF ReaderInv, AnswerHolds
  <2>6. CASE ReadJournal
    <3>1. /\ reader.pc = "journal" /\ reader'.pc = "freshness" /\ reader'.run = reader.run
          /\ reader'.boundary = reader.boundary /\ reader'.asked = reader.asked
          /\ reader'.seen = reader.seen /\ reader'.max = journal
      BY <1>3, <2>6 DEF ReadJournal, Reading
    <3> QED BY <1>1, <1>3, <2>1, <2>2, <3>1 DEF ReaderInv, AnswerHolds
  <2>7. CASE ReadFreshness
    <3>1. /\ reader.pc = "freshness" /\ reader'.pc = "answered" /\ reader'.run = reader.run
          /\ reader'.boundary = reader.boundary /\ reader'.asked = reader.asked
          /\ reader'.seen = reader.seen
          /\ reader'.overtaken = (Latest > reader.run) /\ reader'.fresh = (Lag(Latest) = 0)
      BY <1>3, <2>7 DEF ReadFreshness, Reading
    <3>2. /\ 0 < reader.run /\ reader.run <= Latest /\ reader.asked <= journal
          /\ reader.run = Latest => reader.boundary = runs[Latest].boundary
          /\ reader.run = Latest => Whole(reader.boundary, reader.seen)
          /\ reader.asked <= reader.max
      BY <1>1, <3>1 DEF ReaderInv
    <3>3. /\ reader.run \in Nat /\ reader.asked \in Nat /\ reader.max \in Nat
          /\ reader.boundary \in Nat
      BY <1>3 DEF Reading
    <3>4. AnswerHolds'
      <4> SUFFICES ASSUME ~(Latest > reader.run)
                   PROVE  /\ Whole(reader.boundary, reader.seen)
                          /\ Lag(Latest) = 0 => reader.boundary >= reader.asked
        BY <3>1 DEF AnswerHolds
      <4>1. reader.run = Latest
        BY <1>2, <3>2, <3>3
      <4>2. Lag(Latest) = 0 => reader.max <= reader.boundary
        BY <3>2, <3>3, <4>1 DEF Lag
      <4> QED BY <3>2, <3>3, <4>1, <4>2
    <3> QED BY <2>1, <2>2, <3>1, <3>2, <3>4 DEF ReaderInv
  <2>8. CASE Forget
    BY <2>8 DEF Forget, Waiting, ReaderInv
  <2> QED BY <1>4, <2>4, <2>5, <2>6, <2>7, <2>8 DEF Reader
<1>5. CASE ~Reader
  <2>1. reader' = reader /\ journal' \in {journal, journal + 1}
    <3>1. CASE \E p \in Rebuilders : RebuildAccounting(p)
      BY <3>1, RebuildStep DEF RunsInv
    <3>2. CASE \E c \in Cleaners : Cleanup(c)
      BY <3>2 DEF Cleanup, PlanCompleted, PlanFailed, NextRun, DeleteBatch, DeleteRun,
         CleanupEnds, cleanOnly
    <3>3. CASE CollectorWrites \/ (\E r \in DOMAIN runs : Ages(r)) \/ UNCHANGED vars
      BY <3>3 DEF CollectorWrites, Ages, vars
    <3> QED BY <1>5, <3>1, <3>2, <3>3 DEF Next
  <2>2. reader.run \in Nat /\ reader.asked \in Nat
    BY <1>3 DEF Reading
  <2>3. AnswerHolds' <=> AnswerHolds
    BY <2>1 DEF AnswerHolds
  <2>4. ASSUME reader.pc # "idle"
        PROVE  /\ 0 < reader.run /\ reader.run <= Latest' /\ reader.asked <= journal'
               /\ reader.run = Latest' => reader.run = Latest /\ reader.boundary = runs'[Latest'].boundary
    BY <1>1, <1>2, <1>3, <2>1, <2>2, <2>4 DEF ReaderInv
  <2> QED BY <1>1, <2>1, <2>3, <2>4 DEF ReaderInv
<1> QED BY <1>4, <1>5

-----------------------------------------------------------------------------
(* The theorems.                                                           *)

LEMMA RunsInductive == Spec => []RunsInv
<1>1. Init => RunsInv
  <2> SUFFICES ASSUME Init PROVE RunsInv
    OBVIOUS
  <2> USE DEF Init
  <2>1. /\ DOMAIN runs = {} /\ With("completed") = {} /\ \A p \in Rebuilders : At(p, "idle")
        /\ \A c \in Cleaners : clean[c] = Resting
    BY DEF With, At, Idle
  <2>2. TypeInv
    <3>1. NoRows \in Row /\ rows \in [Numbers -> Row]
      BY DEF NoRows, Row
    <3>2. Idle \in Rebuilding /\ Resting \in Cleaning /\ Waiting \in Reading
      BY <3>1 DEF Idle, Rebuilding, Resting, Cleaning, Waiting, Reading
    <3>3. runs \in [DOMAIN runs -> Run]
      BY <2>1
    <3>4. 0 <= MaxRuns
      BY RunsAssumption
    <3> QED BY <2>1, <3>1, <3>2, <3>3, <3>4 DEF TypeInv
  <2>3. OwnerInv /\ AgeInv /\ RisingInv /\ WholeInv
    BY <2>1 DEF OwnerInv, AgeInv, RisingInv, WholeInv, At, Writing
  <2>4. ProgressInv
    BY <2>1 DEF ProgressInv, RowsHaveRun, At
  <2>5. CleanInv
    BY <2>1 DEF CleanInv, CleanOf, Resting, Deleting
  <2>6. ReaderInv
    BY DEF ReaderInv, Waiting
  <2> QED BY <2>2, <2>3, <2>4, <2>5, <2>6 DEF RunsInv
<1>2. RunsInv /\ [Next]_vars => RunsInv'
  BY TypeStep, OwnerStep, AgeStep, RisingStep, ProgressStep, CleanStep, WholeStep, ReaderStep
  DEF RunsInv
<1> QED BY <1>1, <1>2, PTL DEF Spec

\* The run readers are sent to has all its rows, whoever rebuilds, cleans up, fails or
\* dies at the time.
THEOREM ReadersSeeAWholeRun == Spec => []LatestIsWhole
<1>1. RunsInv => LatestIsWhole
  <2> SUFFICES ASSUME RunsInv, Latest # 0 PROVE Whole(runs[Latest].boundary, rows[Latest])
    BY DEF LatestIsWhole
  <2>1. Latest \in With("completed") /\ Latest \in Int
    BY LatestTyped DEF RunsInv, TypeInv
  <2> QED BY <2>1 DEF RunsInv, WholeInv
<1> QED BY <1>1, RunsInductive, PTL

\* A query that no newer run overtook has read a whole run, and is told that it is
\* fresh only with all the events there were when it was asked.
THEOREM AnswersHold == Spec => []AnswerHolds
<1>1. RunsInv => AnswerHolds
  <2> SUFFICES ASSUME RunsInv, reader.pc = "answered" PROVE AnswerHolds
    BY DEF AnswerHolds
  <2> QED BY DEF RunsInv, ReaderInv
<1> QED BY <1>1, RunsInductive, PTL

\* No rows are left that no run on record accounts for.
THEOREM NoRowsLeftBehind == Spec => []RowsHaveRun
<1>1. RunsInv => RowsHaveRun
  BY DEF RunsInv, ProgressInv
<1> QED BY <1>1, RunsInductive, PTL

\* No publication and no cleanup sends readers back to an older boundary, or to none.
THEOREM BoundaryNeverBack == Spec => BoundaryForward
<1>1. RunsInv /\ [Next]_vars =>
        [Latest # 0 => Latest' # 0 /\ runs'[Latest'].boundary >= runs[Latest].boundary]_vars
  BY LatestStep
<1> QED BY <1>1, RunsInductive, PTL DEF Spec, BoundaryForward
=============================================================================
