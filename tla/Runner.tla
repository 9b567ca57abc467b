------------------------------ MODULE Runner ------------------------------
(***************************************************************************)
(* One run of the collector (CollectorRunner.Run): the stream loop that    *)
(* fills the queue, the worker that empties it, the disk guard, the        *)
(* heartbeat of the session, and the way they are stopped and joined.      *)
(*                                                                         *)
(* Four goroutines share the run context, the queue, the engine's mutex    *)
(* and the sink's mutex.  The stream loop runs in the goroutine of Run     *)
(* itself, so "runner" is both, one after the other.  The disk guard is    *)
(* not joined and may outlive the run.  What an item does to the engine is *)
(* in Collector; here an item is one event or none.                        *)
(***************************************************************************)
EXTENDS Naturals, Sequences

CONSTANTS Capacity,            \* of the queue
          MaxConns             \* bound

ASSUME RunnerAssumption ==
  Capacity \in Nat \ {0} /\ MaxConns \in Nat

VARIABLES
  pc,        \* goroutine -> where it is
  stopped,   \* the run context is cancelled
  conn,      \* connections to the controller made so far
  offer,     \* the item the stream loop pushes, and where it goes then
  queue,     \* what the queue holds
  item,      \* the item the worker has taken out
  fed,       \* connection of the last frame taken out, 0 after a notice of loss
  closed,    \* the queue is closed
  engine,    \* holder of the engine's mutex
  mu,        \* holder of the sink's mutex
  healthy,   \* the engine has processed a frame
  fatal,     \* an error is in fatalErrCh
  tripped,   \* the disk guard has seen the floor breached
  beatDone,  \* the heartbeat has been asked to end
  store      \* the session's status, events written after its end, the handle, the result

vars == <<pc, stopped, conn, offer, queue, item, fed, closed, engine, mu,
          healthy, fatal, tripped, beatDone, store>>

Goroutine == {"runner", "worker", "guard", "beat"}
Nobody == "nobody"
NoOffer == [kind |-> "none"]

Goes(g, to) == pc' = [pc EXCEPT ![g] = to]
At(g, l) == pc[g] = l

-----------------------------------------------------------------------------
(* The stream loop: RunStreamLoop.                                         *)

streamUnchanged == UNCHANGED <<stopped, item, fed, closed, engine, mu, healthy, fatal,
                               tripped, beatDone, store>>

Offers(kind, next) == offer' = [kind |-> kind, next |-> next] /\ Goes("runner", "push")

LoopTop ==
  /\ At("runner", "top")
  /\ Goes("runner", IF stopped THEN "returned" ELSE "preflight")
  /\ streamUnchanged /\ UNCHANGED <<conn, offer, queue>>

\* Before the first connection a failure is only noted as health.
Preflight ==
  /\ At("runner", "preflight")
  /\ \/ Goes("runner", "dial") /\ UNCHANGED offer
     \/ conn > 0 /\ Goes("runner", "backoff") /\ UNCHANGED offer
     \/ conn = 0 /\ Offers("Health", "backoff")
  /\ streamUnchanged /\ UNCHANGED <<conn, queue>>

Backoff ==
  /\ At("runner", "backoff")
  /\ \/ Goes("runner", "top")
     \/ stopped /\ Goes("runner", "returned")
  /\ streamUnchanged /\ UNCHANGED <<conn, offer, queue>>

Dial ==
  /\ At("runner", "dial")
  /\ \/ Goes("runner", "backoff") /\ UNCHANGED conn
     \/ conn < MaxConns /\ conn' = conn + 1 /\ Goes("runner", "read")
  /\ streamUnchanged /\ UNCHANGED <<offer, queue>>

\* Cancellation closes the connection, but what was received may still be read.
ReadMessage ==
  /\ At("runner", "read")
  /\ \E kind \in {"Frame", "Health"} : Offers(kind, "read")
  /\ streamUnchanged /\ UNCHANGED <<conn, queue>>

\* An error of the stream, or the watchdog's deadline, which is noted first.
ReadFails ==
  /\ At("runner", "read")
  /\ \/ Goes("runner", "lost") /\ UNCHANGED offer
     \/ Offers("Health", "lost")
  /\ streamUnchanged /\ UNCHANGED <<conn, queue>>

\* Mutant: a loss noted by the watchdog is taken to be announced by it.
StreamLost_Silent ==
  /\ At("runner", "lost") /\ Goes("runner", "top")
  /\ streamUnchanged /\ UNCHANGED <<conn, offer, queue>>

StreamLost ==
  /\ At("runner", "lost")
  /\ \/ stopped /\ Goes("runner", "returned") /\ UNCHANGED offer
     \/ ~stopped /\ Offers("GapOpened", "top")
  /\ streamUnchanged /\ UNCHANGED <<conn, queue>>

\* After cancellation the select in Push may take either branch.
Push ==
  /\ At("runner", "push")
  /\ \/ /\ Len(queue) < Capacity
        /\ queue' = Append(queue, [kind |-> offer.kind, conn |-> conn, inTime |-> ~stopped])
        /\ Goes("runner", offer.next)
     \/ /\ stopped
        /\ Goes("runner", IF offer.kind = "Frame" THEN "top" ELSE offer.next)
        /\ UNCHANGED queue
  /\ offer' = NoOffer
  /\ streamUnchanged /\ UNCHANGED conn

StreamLoop == LoopTop \/ Preflight \/ Backoff \/ Dial \/ ReadMessage \/ ReadFails \/ StreamLost \/ Push

-----------------------------------------------------------------------------
(* An event on its way: engine mutex, sink mutex, one transaction.         *)

LockEngine(g) ==
  /\ At(g, "engine") /\ engine = Nobody
  /\ engine' = g /\ Goes(g, "sink")
  /\ UNCHANGED <<stopped, conn, offer, queue, item, fed, closed, mu, healthy, fatal,
                 tripped, beatDone, store>>

LockSink(g) ==
  /\ At(g, "sink") /\ mu = Nobody
  /\ mu' = g /\ Goes(g, "commit")
  /\ UNCHANGED <<stopped, conn, offer, queue, item, fed, closed, engine, healthy, fatal,
                 tripped, beatDone, store>>

\* Emit finds the handle gone after Close: a nil dereference ends the process.
Recorded(what) ==
  CASE ~store.open -> [store EXCEPT !.crashed = TRUE]
    [] store.session # "running" -> [store EXCEPT !.late = @ \cup {what}]
    [] OTHER -> IF what = "trip" THEN [store EXCEPT !.evidence = "written"] ELSE store

Unlocks == engine' = Nobody /\ mu' = Nobody

-----------------------------------------------------------------------------
(* The worker.                                                             *)

workerUnchanged == UNCHANGED <<conn, offer, closed, tripped, beatDone>>

Takes ==
  /\ queue # << >>
  /\ item' = Head(queue).kind /\ queue' = Tail(queue)
  /\ fed' = CASE item' = "Frame" -> Head(queue).conn
              [] item' = "GapOpened" -> 0
              [] OTHER -> fed
  /\ Goes("worker", "engine")

\* Mutant: a cancelled worker leaves at once.
Pop_NoDrain ==
  /\ At("worker", "pop")
  /\ \/ ~stopped /\ Takes
     \/ (stopped \/ closed) /\ Goes("worker", "done") /\ UNCHANGED <<queue, item, fed>>
  /\ workerUnchanged /\ UNCHANGED <<stopped, engine, mu, healthy, fatal, store>>

\* Cancelled or closed, the worker leaves only when it finds the queue empty.
Pop ==
  /\ At("worker", "pop")
  /\ \/ Takes
     \/ /\ queue = << >> /\ (stopped \/ closed)
        /\ Goes("worker", "done") /\ UNCHANGED <<queue, item, fed>>
  /\ workerUnchanged /\ UNCHANGED <<stopped, engine, mu, healthy, fatal, store>>

\* A loss before the first frame, or within a gap, makes no event.
ProcessQuietly ==
  /\ At("worker", "engine") /\ engine = Nobody
  /\ item = "GapOpened"
  /\ item' = "none" /\ Goes("worker", "pop")
  /\ workerUnchanged /\ UNCHANGED <<stopped, queue, fed, engine, mu, healthy, fatal, store>>

ProcessIngestItem ==
  /\ At("worker", "commit")
  /\ Unlocks /\ item' = "none"
  /\ \/ /\ store' = Recorded("item")
        /\ healthy' = (healthy \/ item = "Frame")
        /\ Goes("worker", "pop")
        /\ UNCHANGED fatal
     \/ /\ fatal' = TRUE                      \* the sink refuses: recordFatal
        /\ Goes("worker", "cancel")
        /\ UNCHANGED <<store, healthy>>
  /\ workerUnchanged /\ UNCHANGED <<stopped, queue, fed>>

\* Mutant: the worker leaves its error and does not cancel the run.
WorkerCancels_Not ==
  /\ At("worker", "cancel") /\ Goes("worker", "done")
  /\ workerUnchanged /\ UNCHANGED <<stopped, queue, item, fed, engine, mu, healthy, fatal, store>>

WorkerCancels ==
  /\ At("worker", "cancel")
  /\ stopped' = TRUE /\ Goes("worker", "done")
  /\ workerUnchanged /\ UNCHANGED <<queue, item, fed, engine, mu, healthy, fatal, store>>

Worker == Pop \/ LockEngine("worker") \/ ProcessQuietly \/ LockSink("worker")
            \/ ProcessIngestItem \/ WorkerCancels

-----------------------------------------------------------------------------
(* The disk guard: TripLoop and the callback of Run.                       *)

guardUnchanged == UNCHANGED <<conn, offer, queue, item, fed, closed, healthy, fatal, beatDone>>

\* The first check is made whatever the context says.
Check ==
  /\ At("guard", "check")
  /\ \/ tripped' = TRUE /\ Goes("guard", "engine")
     \/ Goes("guard", "wait") /\ UNCHANGED tripped
  /\ guardUnchanged /\ UNCHANGED <<stopped, engine, mu, store>>

Wait ==
  /\ At("guard", "wait")
  /\ \/ Goes("guard", "check")                \* tick, or TriggerCheck
     \/ stopped /\ Goes("guard", "gone")
  /\ guardUnchanged /\ UNCHANGED <<stopped, tripped, engine, mu, store>>

\* The stop does not depend on the evidence being written.
EmitSessionHealth ==
  /\ At("guard", "commit")
  /\ Unlocks /\ Goes("guard", "cancel")
  /\ store' \in {Recorded("trip"), [store EXCEPT !.evidence = "refused"]}
  /\ guardUnchanged /\ UNCHANGED <<stopped, tripped>>

GuardCancels ==
  /\ At("guard", "cancel")
  /\ stopped' = TRUE /\ Goes("guard", "gone")
  /\ guardUnchanged /\ UNCHANGED <<tripped, engine, mu, store>>

Guard == Check \/ Wait \/ LockEngine("guard") \/ LockSink("guard") \/ EmitSessionHealth \/ GuardCancels

-----------------------------------------------------------------------------
(* The heartbeat: heartbeatLoop.                                           *)

beatUnchanged == UNCHANGED <<stopped, conn, offer, queue, item, fed, closed, engine, mu,
                             healthy, fatal, tripped, beatDone, store>>

BeatTicks ==
  /\ At("beat", "wait") /\ Goes("beat", "write")
  /\ beatUnchanged

BeatLeaves ==
  /\ At("beat", "wait") /\ beatDone /\ Goes("beat", "gone")
  /\ beatUnchanged

\* The update is a transaction of its own, made without the sink's mutex; the
\* mutex is for the count of failures.
BeatWrites ==
  /\ At("beat", "write")
  /\ Goes("beat", "book")
  /\ beatUnchanged

BeatBooks ==
  /\ At("beat", "book") /\ mu = Nobody
  /\ Goes("beat", "wait")
  /\ beatUnchanged

Heartbeat == BeatTicks \/ BeatLeaves \/ BeatWrites \/ BeatBooks

-----------------------------------------------------------------------------
(* The end of Run, in the runner's goroutine.                              *)

runnerUnchanged == UNCHANGED <<conn, offer, queue, item, fed, healthy, fatal, tripped>>

CloseQueue ==
  /\ At("runner", "returned")
  /\ closed' = TRUE /\ Goes("runner", "join")
  /\ runnerUnchanged /\ UNCHANGED <<stopped, engine, mu, beatDone, store>>

\* Mutant: the worker is not waited for.
JoinWorker_Unjoined ==
  /\ At("runner", "join")
  /\ store' = [store EXCEPT !.status = IF fatal THEN "interrupted" ELSE "closed_clean"]
  /\ Goes("runner", "engine")
  /\ runnerUnchanged /\ UNCHANGED <<stopped, closed, engine, mu, beatDone>>

\* <-workerDone, then the error is read and the session's status decided.
JoinWorker ==
  /\ At("runner", "join") /\ At("worker", "done")
  /\ store' = [store EXCEPT !.status = IF fatal THEN "interrupted" ELSE "closed_clean"]
  /\ Goes("runner", "engine")
  /\ runnerUnchanged /\ UNCHANGED <<stopped, closed, engine, mu, beatDone>>

\* No event if a frame was processed, or the session was shorter than two seconds.
NoUnobservedGap ==
  /\ At("runner", "engine") /\ engine = Nobody
  /\ Goes("runner", "stopBeat")
  /\ runnerUnchanged /\ UNCHANGED <<stopped, closed, engine, mu, beatDone, store>>

EmitUnobservedGap ==
  /\ At("runner", "commit") /\ ~healthy
  /\ Unlocks /\ Goes("runner", "stopBeat")
  /\ store' \in {Recorded("unobserved"), [store EXCEPT !.cleanupErr = TRUE]}
  /\ runnerUnchanged /\ UNCHANGED <<stopped, closed, beatDone>>

\* stopHeartbeat: the mutex only to take the channel, the join without it.
StopHeartbeat ==
  /\ At("runner", "stopBeat") /\ mu = Nobody
  /\ beatDone' = TRUE
  /\ Goes("runner", "joinBeat")
  /\ runnerUnchanged /\ UNCHANGED <<stopped, closed, engine, mu, store>>

JoinHeartbeat ==
  /\ At("runner", "joinBeat") /\ At("beat", "gone")
  /\ Goes("runner", "end")
  /\ runnerUnchanged /\ UNCHANGED <<stopped, closed, engine, mu, beatDone, store>>

\* The transaction of EndSession, under a deadline of its own.
EndSession ==
  /\ At("runner", "end") /\ mu = Nobody
  /\ store' \in {[store EXCEPT !.session = store.status], [store EXCEPT !.cleanupErr = TRUE]}
  /\ Goes("runner", "close")
  /\ runnerUnchanged /\ UNCHANGED <<stopped, closed, engine, mu, beatDone>>

\* Three heartbeats failed in a row are an error of the cleanup; how many failed
\* is left open.
CloseSink ==
  /\ At("runner", "close") /\ mu = Nobody
  /\ \E failed \in BOOLEAN : store' = [store EXCEPT !.open = FALSE, !.cleanupErr = @ \/ failed]
  /\ Goes("runner", "report")
  /\ runnerUnchanged /\ UNCHANGED <<stopped, closed, engine, mu, beatDone>>

Report ==
  /\ At("runner", "report")
  /\ store' = [store EXCEPT !.result = [clean |-> ~fatal /\ ~store.cleanupErr, tripped |-> tripped]]
  /\ stopped' = TRUE                          \* the deferred cancel
  /\ Goes("runner", "finished")
  /\ runnerUnchanged /\ UNCHANGED <<closed, engine, mu, beatDone>>

Runner == StreamLoop \/ CloseQueue \/ JoinWorker \/ NoUnobservedGap
            \/ (~healthy /\ (LockEngine("runner") \/ LockSink("runner"))) \/ EmitUnobservedGap
            \/ StopHeartbeat \/ JoinHeartbeat \/ EndSession \/ CloseSink \/ Report

-----------------------------------------------------------------------------
(* The whole.                                                              *)

\* The runtime cancels the context it gave to Run.
Stop ==
  /\ ~stopped /\ stopped' = TRUE
  /\ UNCHANGED <<pc, conn, offer, queue, item, fed, closed, engine, mu, healthy, fatal,
                 tripped, beatDone, store>>

Over == (At("runner", "finished") /\ At("guard", "gone")) \/ store.crashed
Rests == Over /\ UNCHANGED vars

NoResult == [clean |-> FALSE, tripped |-> FALSE]

Init ==
  /\ pc = [runner |-> "top", worker |-> "pop", guard |-> "check", beat |-> "wait"]
  /\ stopped = FALSE /\ conn = 0 /\ offer = NoOffer
  /\ queue = << >> /\ item = "none" /\ fed = 0 /\ closed = FALSE
  /\ engine = Nobody /\ mu = Nobody
  /\ healthy = FALSE /\ fatal = FALSE /\ tripped = FALSE
  /\ beatDone = FALSE
  /\ store = [session |-> "running", status |-> "running", late |-> {}, open |-> TRUE,
              cleanupErr |-> FALSE, evidence |-> "none", crashed |-> FALSE, result |-> NoResult]

Next ==
  \/ ~store.crashed /\ (Runner \/ Worker \/ Guard \/ Heartbeat \/ Stop)
  \/ Rests

Spec == Init /\ [][Next]_vars

\* Every goroutine runs on, and a mutex is not for ever given to others.  A read of
\* a closed connection fails in the end; a select does not for ever choose the
\* ticker over the closed channel.
FairSpec ==
  /\ Spec
  /\ WF_vars(Runner) /\ WF_vars(Worker) /\ WF_vars(Guard) /\ WF_vars(Heartbeat)
  /\ SF_vars(LockEngine("guard")) /\ SF_vars(ReadFails) /\ SF_vars(BeatLeaves)

-----------------------------------------------------------------------------
(* Properties.                                                             *)

Status == {"running", "closed_clean", "interrupted"}

\* The types of the goroutines' shared state.
TypeOK ==
  /\ DOMAIN pc = Goroutine
  /\ stopped \in BOOLEAN /\ closed \in BOOLEAN /\ healthy \in BOOLEAN
  /\ fatal \in BOOLEAN /\ tripped \in BOOLEAN /\ beatDone \in BOOLEAN
  /\ {conn, fed} \subseteq 0..MaxConns /\ Len(queue) \in 0..Capacity
  /\ {engine, mu} \subseteq Goroutine \cup {Nobody}
  /\ store.session \in Status /\ store.status \in Status

Finished == At("runner", "finished")
EndedClean == Finished /\ store.result.clean

\* What the queue took before the run was stopped is processed, unless the sink
\* refused an event: Pop drains after cancellation, and the worker is joined.
AcceptedInTimeIsProcessed ==
  EndedClean => \A i \in DOMAIN queue : ~queue[i].inTime

\* Between two frames of different connections to the controller there is a notice
\* of the loss, or the engine would count over a silence as over a steady stream.
LossBetweenConnections ==
  LET frames == {i \in DOMAIN queue : queue[i].kind = "Frame"}
      loss(i, j) == \E k \in i..j : k \in DOMAIN queue /\ queue[k].kind = "GapOpened"
  IN \A j \in frames : /\ fed \in {0, queue[j].conn} \/ loss(1, j)
                      /\ \A i \in frames : i < j => queue[i].conn = queue[j].conn \/ loss(i, j)

\* The result, the session's row and the refusals agree: a session closed clean
\* had no refused event, and a clean result means a session closed clean.
ResultAgrees ==
  /\ store.session = "closed_clean" => ~fatal
  /\ EndedClean => store.session = "closed_clean"

\* Worker and runner are done with the journal when the session ends.
EndIsLast == store.late \subseteq {"trip"}

\* A stop, a refused event or a breached floor ends the run, whoever holds or
\* waits for queue, engine and sink, unless the process itself dies first.
RunEnds == (stopped \/ fatal \/ tripped) ~> (Finished \/ store.crashed)

\* "the session stops cleanly with explicit journal evidence" (collector.go 198).
TripIsOnRecord ==
  (Finished /\ store.result.tripped) => store.evidence # "none"
=============================================================================
