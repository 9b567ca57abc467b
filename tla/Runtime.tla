------------------------------ MODULE Runtime ------------------------------
(***************************************************************************)
(* The processes that may write one authority database: proxylens-runtime, *)
(* from its start to its exit (Runtime.Run).  Each takes the database's    *)
(* named mutex, opens the handle, starts collector and scheduler, and ends *)
(* them in order before the last flush, the checkpoint and the release.    *)
(*                                                                         *)
(* What the collector does within a run is in Runner, what the scheduler   *)
(* does in Accounting; here each runs or is gone.  The module              *)
(* has no specification of its own: Supervisor composes its actions with   *)
(* those who start, stop and kill the processes.                           *)
(***************************************************************************)
EXTENDS Naturals

CONSTANTS Runtimes,    \* processes
          Free         \* a mutex nobody holds

VARIABLES
  rt,       \* process -> its state
  owner     \* holder of the runtime mutex of the database

rtVars == <<rt, owner>>

\* stop: STOP is in its stdin, or it was interrupted.  said: its signal on stdout.
\* db: the handle is open.  col, sch: the goroutines.  trip: the collector's result
\* says that the disk guard tripped.  seen: it was alive when control stop began.
NotBorn == [pc |-> "dead", parent |-> "nobody", stop |-> FALSE, said |-> "nothing",
            db |-> FALSE, col |-> "gone", sch |-> "gone", trip |-> FALSE, seen |-> FALSE]

At(p, l) == rt[p].pc = l
Alive(p) == ~At(p, "dead")
Goes(p, l) == rt' = [rt EXCEPT ![p].pc = l]

Birth(p, parent) == rt' = [rt EXCEPT ![p] = [NotBorn EXCEPT !.pc = "born", !.parent = parent]]

\* Whatever the process was doing, its handles close and its mutex is abandoned,
\* which the next to wait for it takes as acquired.
Death(p) ==
  /\ rt' = [rt EXCEPT ![p] = [NotBorn EXCEPT !.said = rt[p].said]]
  /\ owner' = IF owner = p THEN Free ELSE owner

-----------------------------------------------------------------------------
(* From the start to READY.                                                *)

\* The configuration, the credential or the path cannot be resolved.
SetupFails(p) == At(p, "born") /\ Goes(p, "exiting") /\ UNCHANGED owner

\* A wait of zero: whoever holds the mutex, be it a probe, is a running runtime.
AcquireRuntimeOwnership(p) ==
  /\ At(p, "born")
  /\ \/ owner = Free /\ owner' = p /\ Goes(p, "guard")
     \/ /\ owner # Free
        /\ rt' = [rt EXCEPT ![p].pc = "exiting", ![p].said = "already"]
        /\ UNCHANGED owner

\* Below the floor the process is ready without a database.
CheckDisk(p) ==
  /\ At(p, "guard")
  /\ \/ rt' = [rt EXCEPT ![p].pc = "low", ![p].said = "ready"]
     \/ Goes(p, "open")
  /\ UNCHANGED owner

LowDiskStop(p) == At(p, "low") /\ rt[p].stop /\ Goes(p, "release") /\ UNCHANGED owner

\* A stop that came so far ends the run before anything is started.
OpenDB(p) ==
  /\ At(p, "open")
  /\ rt' = [rt EXCEPT ![p].pc = IF rt[p].stop THEN "close" ELSE "start", ![p].db = TRUE]
  /\ UNCHANGED owner

OpenFails(p) == At(p, "open") /\ Goes(p, "release") /\ UNCHANGED owner

Start(p) ==
  /\ At(p, "start")
  /\ rt' = [rt EXCEPT ![p].pc = "select", ![p].said = "ready", ![p].col = "runs", ![p].sch = "runs"]
  /\ UNCHANGED owner

-----------------------------------------------------------------------------
(* The goroutines.                                                         *)

Ending == {"flush", "truncate", "close"}
CollectorCancelled(p) == rt[p].pc \in {"stopCol"} \cup Ending
SchedulerCancelled(p) == rt[p].pc \in {"stopSched", "endSched"} \/ CollectorCancelled(p)

\* Cancelled, no tick begins, and one in progress commits or rolls back first.
SchedulerLeaves(p) ==
  /\ rt[p].sch = "runs" /\ SchedulerCancelled(p)
  /\ rt' = [rt EXCEPT ![p].sch = "gone"]
  /\ UNCHANGED owner

\* Cancelled, it drains its queue and ends its session first; by itself it leaves for
\* a refused event or a tripped disk guard, which may also come with the cancellation.
CollectorLeaves(p) ==
  /\ rt[p].col = "runs" /\ CollectorCancelled(p)
  /\ \E trip \in BOOLEAN : rt' = [rt EXCEPT ![p].col = "gone", ![p].trip = trip]
  /\ UNCHANGED owner
CollectorFails(p) ==
  /\ rt[p].col = "runs" /\ ~CollectorCancelled(p)
  /\ \E trip \in BOOLEAN : rt' = [rt EXCEPT ![p].col = "gone", ![p].trip = trip]
  /\ UNCHANGED owner

-----------------------------------------------------------------------------
(* The shutdown, in the goroutine of Run.                                  *)

SelectStop(p) == At(p, "select") /\ rt[p].stop /\ Goes(p, "stopSched") /\ UNCHANGED owner
SelectOutcome(p) == At(p, "select") /\ rt[p].col = "gone" /\ Goes(p, "endSched") /\ UNCHANGED owner

AfterJoin(p) == IF rt[p].trip THEN "close" ELSE "flush"

\* Mutant: the scheduler is cancelled and not waited for.
JoinScheduler_Unjoined(p) ==
  /\ \/ At(p, "stopSched") /\ Goes(p, "stopCol")
     \/ At(p, "endSched") /\ Goes(p, AfterJoin(p))
  /\ UNCHANGED owner

JoinScheduler(p) ==
  /\ rt[p].sch = "gone"
  /\ \/ At(p, "stopSched") /\ Goes(p, "stopCol")
     \/ At(p, "endSched") /\ Goes(p, AfterJoin(p))
  /\ UNCHANGED owner

\* Mutant: only the exit by itself is asked for a trip.
JoinCollector_Blind(p) ==
  /\ At(p, "stopCol") /\ rt[p].col = "gone"
  /\ Goes(p, "flush")
  /\ UNCHANGED owner

JoinCollector(p) ==
  /\ At(p, "stopCol") /\ rt[p].col = "gone"
  /\ Goes(p, AfterJoin(p))
  /\ UNCHANGED owner

\* Mutant: the mutex is given up once the goroutines are joined.
Flush_ReleasesFirst(p) == At(p, "flush") /\ Goes(p, "truncate") /\ owner' = Free

\* runShutdownAccountingFlush: cycles within a budget, whatever they reach.
Flush(p) == At(p, "flush") /\ Goes(p, "truncate") /\ UNCHANGED owner
Truncate(p) == At(p, "truncate") /\ Goes(p, "close") /\ UNCHANGED owner

Close(p) ==
  /\ At(p, "close")
  /\ rt' = [rt EXCEPT ![p].pc = "release", ![p].db = FALSE]
  /\ UNCHANGED owner

\* The deferred release; then the process returns from main.
Release(p) == At(p, "release") /\ owner' = Free /\ Goes(p, "exiting")
Exit(p) == At(p, "exiting") /\ Death(p)

Main(p) ==
  \/ AcquireRuntimeOwnership(p) \/ CheckDisk(p) \/ LowDiskStop(p) \/ OpenDB(p) \/ Start(p)
  \/ SelectStop(p) \/ SelectOutcome(p) \/ JoinScheduler(p) \/ JoinCollector(p)
  \/ Flush(p) \/ Truncate(p) \/ Close(p) \/ Release(p) \/ Exit(p)

Goroutines(p) == SchedulerLeaves(p) \/ CollectorLeaves(p)

\* What is not the rule: counted by who composes the processes.
Mishap(p) == SetupFails(p) \/ OpenFails(p) \/ CollectorFails(p)

\* A goroutine that runs may be in a transaction at any time.
MayBeWriting(p) ==
  rt[p].col = "runs" \/ rt[p].sch = "runs" \/ rt[p].pc \in {"flush", "truncate"}
MayWrite(p) == rt[p].pc \notin {"exiting", "dead"}
Serves(p) == rt[p].pc \in {"select", "low"}

=============================================================================
