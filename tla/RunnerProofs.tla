---------------------------- MODULE RunnerProofs ----------------------------
(***************************************************************************)
(* Theorems about Runner, for a queue of any capacity and any number of    *)
(* connections to the controller: what was accepted in time is processed,  *)
(* no loss goes unannounced, the result agrees with the session's row, and *)
(* nothing but the disk guard writes after the session's end.              *)
(*                                                                         *)
(* The invariant has three parts: types; where the goroutines stand and    *)
(* what the session's row says by then; what the queue holds of a loss.    *)
(***************************************************************************)
EXTENDS Runner, SequenceTheorems, TLAPS

Kinds == {"Frame", "GapOpened", "Health"}
Item == [kind : Kinds, conn : 0..MaxConns, inTime : BOOLEAN]
Offer == [kind : Kinds, next : {"backoff", "read", "lost", "top"}]

Streaming == {"top", "preflight", "backoff", "dial", "read", "lost", "push"}
Ending == {"engine", "sink", "commit", "stopBeat", "joinBeat", "end", "close", "report",
           "finished"}
Ended == {"close", "report", "finished"}
Places == [runner : Streaming \cup Ending \cup {"returned", "join"},
           worker : {"pop", "engine", "sink", "commit", "cancel", "done"},
           guard  : {"check", "wait", "engine", "sink", "commit", "cancel", "gone"},
           beat   : {"wait", "write", "book", "gone"}]

Store == [session : Status, status : Status, late : SUBSET {"item", "trip", "unobserved"},
          open : BOOLEAN, cleanupErr : BOOLEAN, evidence : {"none", "written", "refused"},
          crashed : BOOLEAN, result : [clean : BOOLEAN, tripped : BOOLEAN]]

TypeInv ==
  /\ pc \in Places
  /\ stopped \in BOOLEAN /\ closed \in BOOLEAN /\ healthy \in BOOLEAN
  /\ fatal \in BOOLEAN /\ tripped \in BOOLEAN /\ beatDone \in BOOLEAN
  /\ conn \in 0..MaxConns /\ fed \in 0..MaxConns
  /\ offer \in Offer \cup {NoOffer} /\ (At("runner", "push") => offer \in Offer)
  /\ queue \in Seq(Item) /\ Len(queue) <= Capacity
  /\ item \in Kinds \cup {"none"}
  /\ engine \in Goroutine \cup {Nobody} /\ mu \in Goroutine \cup {Nobody}
  /\ store \in Store

-----------------------------------------------------------------------------
(* The goroutines and the session's row.                                   *)

\* The worker leaves for a refused event, or when nothing that came in time is left.
LeftEmpty == (stopped \/ closed) /\ \A i \in 1..Len(queue) : ~queue[i].inTime

PlaceInv ==
  /\ closed => pc.runner \notin Streaming
  /\ pc.runner \in Ending => pc.worker = "done"
  /\ pc.worker = "cancel" => fatal
  /\ pc.worker = "done" => fatal \/ LeftEmpty
  /\ pc.runner \in Ending =>
       store.status = (IF fatal THEN "interrupted" ELSE "closed_clean")
  /\ pc.runner \notin Ended => store.session = "running"
  /\ pc.runner \in Ended => \/ store.session = store.status
                            \/ store.session = "running" /\ store.cleanupErr
  /\ pc.runner = "finished" /\ store.result.clean => ~fatal /\ ~store.cleanupErr
  /\ store.late \subseteq {"trip"}

-----------------------------------------------------------------------------
(* What the queue holds of a loss.                                         *)

LossAfter(q, i) == \E k \in 1..Len(q) : i < k /\ q[k].kind = "GapOpened"

\* A frame of connection c may be queued next; a frame of any connection may.
ClearFor(q, f, c) ==
  /\ f \in {0, c} \/ LossAfter(q, 0)
  /\ \A i \in 1..Len(q) : q[i].kind = "Frame" => q[i].conn = c \/ LossAfter(q, i)
Told(q, f) ==
  /\ f = 0 \/ LossAfter(q, 0)
  /\ \A i \in 1..Len(q) : q[i].kind = "Frame" => LossAfter(q, i)

\* The frames of a queue, each behind a frame of its connection or a loss.
Announced(q, f) ==
  \A j \in 1..Len(q) : q[j].kind = "Frame" =>
    /\ f \in {0, q[j].conn} \/ \E k \in 1..j : q[k].kind = "GapOpened"
    /\ \A i \in 1..j : (i < j /\ q[i].kind = "Frame") =>
         q[i].conn = q[j].conn \/ \E k \in i..j : q[k].kind = "GapOpened"

\* Between two connections the stream loop passes a place where all is told, unless
\* it was cancelled and will not connect again.
Offering(next) == pc.runner = "push" /\ offer.next = next
LossInv ==
  /\ Announced(queue, fed)
  /\ pc.runner \in {"preflight", "dial", "backoff"} \/ Offering("backoff") => Told(queue, fed)
  /\ pc.runner = "top" => stopped \/ Told(queue, fed)
  /\ pc.runner \in {"read", "lost"} \/ Offering("read") \/ Offering("lost") \/ Offering("top")
       => ClearFor(queue, fed, conn)
  /\ Offering("top") => offer.kind = "GapOpened"
  /\ Offering("lost") \/ Offering("backoff") => offer.kind = "Health"
  /\ Offering("read") => offer.kind # "GapOpened"

RunnerInv == TypeInv /\ PlaceInv /\ LossInv

-----------------------------------------------------------------------------
(* Lemmas about the queue.                                                 *)

LEMMA Appended ==
  ASSUME NEW q \in Seq(Item), NEW e \in Item
  PROVE  /\ Append(q, e) \in Seq(Item) /\ Len(Append(q, e)) = Len(q) + 1
         /\ \A i \in 1..Len(q) : Append(q, e)[i] = q[i]
         /\ Append(q, e)[Len(q) + 1] = e
BY AppendProperties

LEMMA Popped ==
  ASSUME NEW q \in Seq(Item), q # << >>
  PROVE  /\ Head(q) \in Item /\ Head(q) = q[1] /\ Len(q) > 0
         /\ Tail(q) \in Seq(Item) /\ Len(Tail(q)) = Len(q) - 1
         /\ \A i \in 1..Len(Tail(q)) : Tail(q)[i] = q[i + 1]
BY HeadTailProperties, EmptySeq

\* The loss that follows the head or a later item is still there after it.
LEMMA TailLosses ==
  ASSUME NEW q \in Seq(Item), q # << >>
  PROVE  /\ \A i \in 1..Len(Tail(q)) : LossAfter(q, i + 1) <=> LossAfter(Tail(q), i)
         /\ LossAfter(q, 1) <=> LossAfter(Tail(q), 0)
         /\ LossAfter(q, 0) /\ q[1].kind # "GapOpened" => LossAfter(Tail(q), 0)
<1> DEFINE t == Tail(q)
<1>1. /\ t \in Seq(Item) /\ Len(t) = Len(q) - 1 /\ Len(q) \in Nat \ {0}
      /\ \A i \in 1..Len(t) : t[i] = q[i + 1]
  BY Popped, LenProperties
<1> HIDE DEF t
<1>2. ASSUME NEW i \in 0..Len(t), LossAfter(t, i) PROVE LossAfter(q, i + 1)
  <2>1. PICK k \in 1..Len(t) : i < k /\ t[k].kind = "GapOpened"
    BY <1>2 DEF LossAfter
  <2>2. k + 1 \in 1..Len(q) /\ i + 1 < k + 1 /\ q[k + 1].kind = "GapOpened"
    BY <1>1, <2>1
  <2> QED BY <2>2 DEF LossAfter
<1>3. ASSUME NEW i \in 0..Len(t), LossAfter(q, i + 1) PROVE LossAfter(t, i)
  <2>1. PICK k \in 1..Len(q) : i + 1 < k /\ q[k].kind = "GapOpened"
    BY <1>3 DEF LossAfter
  <2>2. k - 1 \in 1..Len(t) /\ i < k - 1 /\ t[k - 1] = q[(k - 1) + 1] /\ (k - 1) + 1 = k
    BY <1>1, <2>1
  <2> QED BY <2>1, <2>2 DEF LossAfter
<1>4. ASSUME LossAfter(q, 0), q[1].kind # "GapOpened" PROVE LossAfter(q, 1)
  BY <1>1, <1>4 DEF LossAfter
<1>5. 0 \in 0..Len(t) /\ 0 + 1 = 1 /\ \A i \in 1..Len(t) : i \in 0..Len(t)
  BY <1>1
<1>6. LossAfter(q, 1) <=> LossAfter(t, 0)
  BY <1>2, <1>3, <1>5
<1> QED BY <1>2, <1>3, <1>4, <1>5, <1>6 DEF t

-----------------------------------------------------------------------------
(* Types.                                                                  *)

LEMMA RecordedType ==
  ASSUME store \in Store, NEW what \in {"item", "trip", "unobserved"}
  PROVE  Recorded(what) \in Store
BY DEF Recorded, Store, Status

LEMMA TypeStreamLoop ==
  ASSUME TypeInv, StreamLoop
  PROVE  TypeInv'
<1> USE DEF TypeInv, streamUnchanged, Goes, At, Places, Streaming, Ending
<1>1. CASE LoopTop
  BY <1>1 DEF LoopTop
<1>2. CASE Preflight
  BY <1>2 DEF Preflight, Offers, Offer, Kinds
<1>3. CASE Backoff
  BY <1>3 DEF Backoff
<1>4. CASE Dial
  BY <1>4, RunnerAssumption DEF Dial
<1>5. CASE ReadMessage
  BY <1>5 DEF ReadMessage, Offers, Offer, Kinds
<1>6. CASE ReadFails
  BY <1>6 DEF ReadFails, Offers, Offer, Kinds
<1>7. CASE StreamLost
  BY <1>7 DEF StreamLost, Offers, Offer, Kinds
<1>8. CASE Push
  <2>1. offer \in Offer /\ offer' = NoOffer /\ pc.runner = "push"
    BY <1>8 DEF Push
  <2>2. [kind |-> offer.kind, conn |-> conn, inTime |-> ~stopped] \in Item
    BY <2>1 DEF Offer, Item
  <2>3. queue' \in Seq(Item) /\ Len(queue') <= Capacity
    BY <1>8, <2>2, Appended, LenProperties, RunnerAssumption DEF Push
  <2>4. pc' \in Places /\ pc'.runner # "push"
    BY <1>8, <2>1 DEF Push, Offer
  <2> QED BY <1>8, <2>1, <2>3, <2>4 DEF Push
<1> QED BY <1>1, <1>2, <1>3, <1>4, <1>5, <1>6, <1>7, <1>8 DEF StreamLoop

LEMMA TypeLocks ==
  ASSUME TypeInv, NEW g \in {"runner", "worker", "guard"}, LockEngine(g) \/ LockSink(g)
  PROVE  TypeInv'
BY DEF TypeInv, LockEngine, LockSink, Goes, At, Places, Ending, Streaming, Goroutine

LEMMA TypeWorker ==
  ASSUME TypeInv, Worker
  PROVE  TypeInv'
<1> USE DEF TypeInv, workerUnchanged, Goes, At, Places
<1>1. CASE Pop
  <2>1. CASE Takes
    <3>1. Head(queue) \in Item /\ Tail(queue) \in Seq(Item) /\ Len(Tail(queue)) = Len(queue) - 1
          /\ Len(queue) \in Nat
      BY <2>1, Popped, LenProperties DEF Takes
    <3>2. item' \in Kinds /\ fed' \in 0..MaxConns
      BY <2>1, <3>1, RunnerAssumption DEF Takes, Item
    <3>3. queue' \in Seq(Item) /\ Len(queue') <= Capacity
      BY <2>1, <3>1, RunnerAssumption DEF Takes
    <3> QED BY <1>1, <2>1, <3>2, <3>3, ZenonT(40) DEF Pop, Takes
  <2>2. CASE Goes("worker", "done") /\ UNCHANGED <<queue, item, fed>>
    BY <1>1, <2>2 DEF Pop
  <2> QED BY <1>1, <2>1, <2>2 DEF Pop
<1>2. CASE LockEngine("worker") \/ LockSink("worker")
  BY <1>2, TypeLocks
<1>3. CASE ProcessQuietly
  BY <1>3 DEF ProcessQuietly
<1>4. CASE ProcessIngestItem
  <2>1. store' \in Store
    BY <1>4, RecordedType DEF ProcessIngestItem
  <2> QED BY <1>4, <2>1, ZenonT(40) DEF ProcessIngestItem, Unlocks
<1>5. CASE WorkerCancels
  BY <1>5 DEF WorkerCancels
<1> QED BY <1>1, <1>2, <1>3, <1>4, <1>5 DEF Worker

LEMMA TypeGuard ==
  ASSUME TypeInv, Guard
  PROVE  TypeInv'
<1> USE DEF TypeInv, guardUnchanged, Goes, At, Places
<1>1. CASE Check
  <2>1. tripped' \in BOOLEAN
    BY <1>1 DEF Check
  <2>2. pc' \in Places /\ pc'.runner = pc.runner
    BY <1>1 DEF Check
  <2> QED BY <1>1, <2>1, <2>2 DEF Check
<1>2. CASE Wait
  BY <1>2 DEF Wait
<1>3. CASE LockEngine("guard") \/ LockSink("guard")
  BY <1>3, TypeLocks
<1>4. CASE EmitSessionHealth
  <2>1. store' \in Store
    BY <1>4, RecordedType DEF EmitSessionHealth, Store
  <2> QED BY <1>4, <2>1 DEF EmitSessionHealth, Unlocks
<1>5. CASE GuardCancels
  BY <1>5 DEF GuardCancels
<1> QED BY <1>1, <1>2, <1>3, <1>4, <1>5 DEF Guard

LEMMA TypeHeartbeat ==
  ASSUME TypeInv, Heartbeat
  PROVE  TypeInv'
BY DEF TypeInv, Heartbeat, BeatTicks, BeatLeaves, BeatWrites, BeatBooks, beatUnchanged, Goes, At,
       Places

\* The end of Run.
Cleanup == \/ CloseQueue \/ JoinWorker \/ NoUnobservedGap \/ EmitUnobservedGap
           \/ StopHeartbeat \/ JoinHeartbeat \/ EndSession \/ CloseSink \/ Report

LEMMA TypeCleanup ==
  ASSUME TypeInv, Cleanup
  PROVE  TypeInv'
<1> USE DEF TypeInv, runnerUnchanged, Goes, At, Places, Ending
<1>1. CASE CloseQueue
  BY <1>1 DEF CloseQueue
<1>2. CASE JoinWorker
  BY <1>2 DEF JoinWorker, Store, Status
<1>3. CASE NoUnobservedGap
  BY <1>3 DEF NoUnobservedGap
<1>4. CASE EmitUnobservedGap
  <2>1. store' \in Store
    BY <1>4, RecordedType, ZenonT(40) DEF EmitUnobservedGap, Store
  <2> QED BY <1>4, <2>1 DEF EmitUnobservedGap, Unlocks
<1>5. CASE StopHeartbeat
  BY <1>5 DEF StopHeartbeat
<1>6. CASE JoinHeartbeat
  BY <1>6 DEF JoinHeartbeat
<1>7. CASE EndSession
  <2>1. store' \in Store
    BY <1>7, ZenonT(40) DEF EndSession, Store
  <2> QED BY <1>7, <2>1 DEF EndSession
<1>8. CASE CloseSink
  BY <1>8, ZenonT(40) DEF CloseSink, Store
<1>9. CASE Report
  <2>1. store' \in Store
    <3>1. [clean |-> ~fatal /\ ~store.cleanupErr, tripped |-> tripped]
            \in [clean : BOOLEAN, tripped : BOOLEAN]
      OBVIOUS
    <3> QED BY <1>9, <3>1 DEF Report, Store
  <2> QED BY <1>9, <2>1 DEF Report
<1> QED BY <1>1, <1>2, <1>3, <1>4, <1>5, <1>6, <1>7, <1>8, <1>9 DEF Cleanup

LEMMA Steps ==
  ASSUME Next
  PROVE  \/ StreamLoop \/ Worker \/ Guard \/ Heartbeat \/ Cleanup \/ Stop \/ UNCHANGED vars
         \/ LockEngine("runner") \/ LockSink("runner")
BY DEF Next, Rests, Runner, Cleanup

LEMMA TypeStep ==
  ASSUME TypeInv, [Next]_vars
  PROVE  TypeInv'
<1>1. CASE Stop
  BY <1>1 DEF Stop, TypeInv, At
<1>2. CASE UNCHANGED vars
  BY <1>2 DEF vars, TypeInv, At
<1>3. CASE Next
  BY <1>1, <1>2, <1>3, Steps, TypeStreamLoop, TypeLocks, TypeWorker, TypeGuard, TypeHeartbeat,
     TypeCleanup
<1> QED BY <1>2, <1>3

-----------------------------------------------------------------------------
(* The goroutines and the session's row.                                   *)

\* What is recorded while the session runs is not late, and after it only a trip is.
LEMMA RecordedInTime ==
  ASSUME store \in Store, NEW what \in {"item", "trip", "unobserved"},
         store.session = "running" \/ what = "trip", store.late \subseteq {"trip"}
  PROVE  /\ Recorded(what).late \subseteq {"trip"}
         /\ \A f \in {"session", "status", "cleanupErr", "result"} :
              Recorded(what)[f] = store[f]
BY DEF Recorded, Store, Status

LEMMA PlaceStreamLoop ==
  ASSUME TypeInv, PlaceInv, StreamLoop
  PROVE  PlaceInv'
<1> USE DEF streamUnchanged, Goes, At
<1>1. /\ pc \in Places /\ pc.runner \in Streaming /\ UNCHANGED <<store, fatal, closed, stopped>>
      /\ pc'.worker = pc.worker /\ pc'.runner \in Streaming \cup {"returned"}
  BY DEF TypeInv, Places, Streaming, Offer, StreamLoop, LoopTop, Preflight, Backoff, Dial,
     ReadMessage, ReadFails, StreamLost, Push, Offers
<1>2. ASSUME LeftEmpty PROVE LeftEmpty'
  <2>1. CASE UNCHANGED queue
    BY <1>1, <1>2, <2>1 DEF LeftEmpty
  <2>2. CASE Push
    <3>1. ~closed /\ stopped
      BY <1>1, <1>2 DEF LeftEmpty, PlaceInv
    <3>2. CASE UNCHANGED queue
      BY <1>1, <1>2, <3>2 DEF LeftEmpty
    <3>3. CASE queue' = Append(queue, [kind |-> offer.kind, conn |-> conn, inTime |-> ~stopped])
      <4> DEFINE e == [kind |-> offer.kind, conn |-> conn, inTime |-> ~stopped]
      <4>1. e \in Item /\ ~e.inTime /\ queue \in Seq(Item)
        BY <2>2, <3>1 DEF Push, TypeInv, Item, Offer
      <4>2. Len(queue) \in Nat
        BY <4>1, LenProperties
      <4> HIDE DEF e
      <4>3. ASSUME NEW i \in 1..Len(queue') PROVE ~queue'[i].inTime
        <5>1. Len(queue') = Len(queue) + 1 /\ queue'[Len(queue) + 1] = e
              /\ \A k \in 1..Len(queue) : queue'[k] = queue[k]
          BY <3>3, <4>1, Appended DEF e
        <5> QED BY <1>2, <4>1, <4>2, <5>1 DEF LeftEmpty
      <4> QED BY <1>1, <1>2, <4>3 DEF LeftEmpty
    <3> QED BY <2>2, <3>2, <3>3 DEF Push
  <2> QED BY <2>1, <2>2 DEF StreamLoop, LoopTop, Preflight, Backoff, Dial, ReadMessage,
            ReadFails, StreamLost
<1>3. /\ pc'.runner \notin Ending /\ pc'.runner \notin Ended /\ pc'.runner # "finished"
      /\ pc.runner \notin Ended /\ ~closed
  BY <1>1 DEF PlaceInv, Streaming, Ending, Ended
<1> QED BY <1>1, <1>2, <1>3 DEF PlaceInv

LEMMA PlaceLocks ==
  ASSUME TypeInv, PlaceInv, NEW g \in {"runner", "worker", "guard"},
         LockEngine(g) \/ LockSink(g)
  PROVE  PlaceInv'
<1>1. /\ UNCHANGED <<store, fatal, closed, stopped, queue>>
      /\ pc'.runner = pc.runner \/ (pc.runner \in {"engine", "sink"} /\ pc'.runner \in {"sink", "commit"})
      /\ pc'.worker = pc.worker \/ (pc.worker \in {"engine", "sink"} /\ pc'.worker \in {"sink", "commit"})
  BY DEF TypeInv, LockEngine, LockSink, Goes, At, Places
<1> QED BY <1>1 DEF PlaceInv, LeftEmpty, Streaming, Ending, Ended

LEMMA PlaceWorker ==
  ASSUME TypeInv, PlaceInv, Worker
  PROVE  PlaceInv'
<1> USE DEF workerUnchanged, Goes, At
<1>1. CASE Pop
  <2>1. CASE Takes
    <3>1. UNCHANGED <<stopped, closed, store, fatal>> /\ pc'.runner = pc.runner
          /\ pc.worker = "pop" /\ pc'.worker = "engine"
      BY <1>1, <2>1 DEF Pop, Takes, TypeInv, Places
    <3> QED BY <3>1 DEF PlaceInv
  <2>2. CASE queue = << >> /\ (stopped \/ closed) /\ Goes("worker", "done")
              /\ UNCHANGED <<queue, item, fed>>
    <3>1. UNCHANGED <<stopped, closed, store, fatal>> /\ pc'.runner = pc.runner
          /\ pc'.worker = "done"
      BY <1>1, <2>2 DEF Pop, TypeInv, Places
    <3>2. LeftEmpty'
      BY <2>2, <3>1 DEF LeftEmpty
    <3> QED BY <3>1, <3>2 DEF PlaceInv
  <2> QED BY <1>1, <2>1, <2>2 DEF Pop
<1>2. CASE LockEngine("worker") \/ LockSink("worker")
  BY <1>2, PlaceLocks
<1>3. CASE ProcessQuietly
  <2>1. UNCHANGED <<stopped, closed, store, fatal, queue>> /\ pc'.runner = pc.runner
        /\ pc.worker = "engine" /\ pc'.worker = "pop"
    BY <1>3 DEF ProcessQuietly, TypeInv, Places
  <2> QED BY <2>1 DEF PlaceInv
<1>4. CASE ProcessIngestItem
  <2>1. /\ UNCHANGED <<stopped, closed, queue>> /\ pc'.runner = pc.runner
        /\ pc.worker = "commit" /\ pc'.worker \in {"pop", "cancel"}
        /\ pc'.worker = "cancel" => fatal'
        /\ store' \in {store, Recorded("item")}
    BY <1>4 DEF ProcessIngestItem, TypeInv, Places
  <2>2. pc.runner \notin Ending /\ store.session = "running" /\ pc.runner \notin Ended
        /\ pc.runner # "finished"
    BY <2>1 DEF PlaceInv, Ending, Ended
  <2>3. store'.late \subseteq {"trip"} /\ store'.session = store.session
    BY <2>1, <2>2, RecordedInTime DEF PlaceInv, TypeInv
  <2> QED BY <2>1, <2>2, <2>3 DEF PlaceInv
<1>5. CASE WorkerCancels
  <2>1. /\ UNCHANGED <<closed, queue, store, fatal>> /\ pc'.runner = pc.runner
        /\ pc.worker = "cancel" /\ pc'.worker = "done"
    BY <1>5 DEF WorkerCancels, TypeInv, Places
  <2> QED BY <2>1 DEF PlaceInv
<1> QED BY <1>1, <1>2, <1>3, <1>4, <1>5 DEF Worker

LEMMA PlaceGuard ==
  ASSUME TypeInv, PlaceInv, Guard
  PROVE  PlaceInv'
<1> USE DEF guardUnchanged, Goes, At
<1>1. CASE LockEngine("guard") \/ LockSink("guard")
  BY <1>1, PlaceLocks
<1>2. CASE Check \/ Wait \/ EmitSessionHealth \/ GuardCancels
  <2>1. /\ UNCHANGED <<closed, queue, fatal>> /\ pc'.runner = pc.runner /\ pc'.worker = pc.worker
        /\ stopped => stopped'
    BY <1>2 DEF Check, Wait, EmitSessionHealth, GuardCancels, TypeInv, Places
  <2>2. /\ store'.late \subseteq {"trip"} /\ store'.session = store.session
        /\ store'.status = store.status /\ store'.cleanupErr = store.cleanupErr
        /\ store'.result = store.result
    <3>1. store' \in {store, Recorded("trip"), [store EXCEPT !.evidence = "refused"]}
      BY <1>2 DEF Check, Wait, EmitSessionHealth, GuardCancels
    <3>2. CASE store' = Recorded("trip")
      BY <3>2, RecordedInTime DEF PlaceInv, TypeInv
    <3>3. CASE store' \in {store, [store EXCEPT !.evidence = "refused"]}
      BY <3>3 DEF PlaceInv, TypeInv, Store
    <3> QED BY <3>1, <3>2, <3>3
  <2> QED BY <2>1, <2>2 DEF PlaceInv, LeftEmpty
<1> QED BY <1>1, <1>2 DEF Guard

LEMMA PlaceCleanup ==
  ASSUME TypeInv, PlaceInv, Cleanup
  PROVE  PlaceInv'
<1> USE DEF runnerUnchanged, Goes, At
<1>0. pc'.worker = pc.worker /\ UNCHANGED <<queue, fatal>> /\ (closed => closed')
      /\ (stopped => stopped')
  BY DEF Cleanup, CloseQueue, JoinWorker, NoUnobservedGap, EmitUnobservedGap, StopHeartbeat,
     JoinHeartbeat, EndSession, CloseSink, Report, TypeInv, Places
<1>w. /\ pc'.worker = "cancel" => fatal'
      /\ pc'.worker = "done" => fatal' \/ LeftEmpty'
  BY <1>0 DEF PlaceInv, LeftEmpty
<1> DEFINE Row == /\ pc'.runner \in Ending => pc'.worker = "done"
                  /\ closed' => pc'.runner \notin Streaming
                  /\ pc'.runner \in Ending =>
                       store'.status = (IF fatal' THEN "interrupted" ELSE "closed_clean")
                  /\ pc'.runner \notin Ended => store'.session = "running"
                  /\ pc'.runner \in Ended => \/ store'.session = store'.status
                                             \/ store'.session = "running" /\ store'.cleanupErr
                  /\ pc'.runner = "finished" /\ store'.result.clean =>
                       ~fatal' /\ ~store'.cleanupErr
                  /\ store'.late \subseteq {"trip"}
<1> USE DEF Ending, Ended, Streaming, TypeInv, Places, PlaceInv
<1>1. CASE CloseQueue
  <2>1. Row
    BY <1>0, <1>1 DEF CloseQueue
  <2> QED BY <1>w, <2>1
<1>2. CASE JoinWorker
  <2>1. Row
    BY <1>0, <1>2 DEF JoinWorker, Store
  <2> QED BY <1>w, <2>1
<1>3. CASE NoUnobservedGap
  <2>1. Row
    BY <1>0, <1>3 DEF NoUnobservedGap
  <2> QED BY <1>w, <2>1
<1>4. CASE EmitUnobservedGap
  <2>1. pc.runner = "commit" /\ pc'.runner = "stopBeat" /\ closed' = closed
    BY <1>4 DEF EmitUnobservedGap
  <2>2. store'.late \subseteq {"trip"} /\ store'.session = "running" /\ store'.status = store.status
    <3>1. CASE store' = Recorded("unobserved")
      BY <2>1, <3>1, RecordedInTime
    <3>2. CASE store' = [store EXCEPT !.cleanupErr = TRUE]
      BY <2>1, <3>2 DEF Store
    <3> QED BY <1>4, <3>1, <3>2 DEF EmitUnobservedGap
  <2>3. Row
    BY <1>0, <2>1, <2>2
  <2> QED BY <1>w, <2>3
<1>5. CASE StopHeartbeat
  <2>1. Row
    BY <1>0, <1>5 DEF StopHeartbeat
  <2> QED BY <1>w, <2>1
<1>6. CASE JoinHeartbeat
  <2>1. Row
    BY <1>0, <1>6 DEF JoinHeartbeat
  <2> QED BY <1>w, <2>1
<1>7. CASE EndSession
  <2>1. Row
    BY <1>0, <1>7 DEF EndSession, Store
  <2> QED BY <1>w, <2>1
<1>8. CASE CloseSink
  <2>1. Row
    BY <1>0, <1>8 DEF CloseSink, Store
  <2> QED BY <1>w, <2>1
<1>9. CASE Report
  <2>1. /\ store'.result.clean => ~fatal /\ ~store.cleanupErr
        /\ store'.session = store.session /\ store'.status = store.status
        /\ store'.cleanupErr = store.cleanupErr /\ store'.late = store.late
    BY <1>9 DEF Report, Store
  <2>2. pc.runner = "report" /\ pc'.runner = "finished" /\ closed' = closed
    BY <1>9 DEF Report
  <2>3. Row
    BY <1>0, <2>1, <2>2
  <2> QED BY <1>w, <2>3
<1> QED BY <1>1, <1>2, <1>3, <1>4, <1>5, <1>6, <1>7, <1>8, <1>9 DEF Cleanup

LEMMA PlaceStep ==
  ASSUME TypeInv, PlaceInv, [Next]_vars
  PROVE  PlaceInv'
<1>1. CASE Stop
  BY <1>1 DEF Stop, PlaceInv, LeftEmpty
<1>2. CASE UNCHANGED vars
  BY <1>2 DEF vars, PlaceInv, LeftEmpty
<1>3. CASE Heartbeat
  <2>1. UNCHANGED <<closed, queue, fatal, stopped, store>> /\ pc'.runner = pc.runner
        /\ pc'.worker = pc.worker
    BY <1>3 DEF Heartbeat, BeatTicks, BeatLeaves, BeatWrites, BeatBooks, beatUnchanged, Goes, At,
       TypeInv, Places
  <2> QED BY <2>1 DEF PlaceInv, LeftEmpty
<1>4. CASE Next
  BY <1>1, <1>2, <1>3, <1>4, Steps, PlaceStreamLoop, PlaceLocks, PlaceWorker, PlaceGuard,
     PlaceCleanup
<1> QED BY <1>2, <1>4

-----------------------------------------------------------------------------
(* What the queue holds of a loss.                                         *)

LEMMA ToldIsClear ==
  ASSUME NEW q, NEW f, NEW c, Told(q, f)
  PROVE  ClearFor(q, f, c)
BY DEF Told, ClearFor

LEMMA LossKept ==
  ASSUME LossInv, UNCHANGED <<queue, fed, conn, offer>>, pc'.runner = pc.runner,
         stopped => stopped'
  PROVE  LossInv'
BY DEF LossInv, Offering, Announced, ClearFor, Told, LossAfter

\* The worker takes the head: what was told of it is now told of `fed`.
LEMMA LossTakes ==
  ASSUME TypeInv, LossInv, Takes, UNCHANGED <<conn, offer, stopped>>
  PROVE  LossInv'
<1> DEFINE h == Head(queue)
           t == Tail(queue)
<1>1. /\ h \in Item /\ h = queue[1] /\ Len(queue) \in Nat \ {0}
      /\ t \in Seq(Item) /\ Len(t) = Len(queue) - 1
      /\ \A i \in 1..Len(t) : t[i] = queue[i + 1] /\ t[i] \in Item
      /\ \A i \in 1..Len(queue) : queue[i] \in Item
  BY Popped, LenProperties, ElementOfSeq DEF Takes, TypeInv
<1>2. /\ \A i \in 1..Len(t) : LossAfter(queue, i + 1) <=> LossAfter(t, i)
      /\ LossAfter(queue, 1) <=> LossAfter(t, 0)
      /\ LossAfter(queue, 0) /\ h.kind # "GapOpened" => LossAfter(t, 0)
  BY <1>1, TailLosses DEF Takes, TypeInv
<1>3. /\ queue' = t /\ pc'.runner = pc.runner
      /\ h.kind = "Frame" => fed' = h.conn
      /\ h.kind = "GapOpened" => fed' = 0
      /\ h.kind = "Health" => fed' = fed
  BY DEF Takes, Goes, TypeInv, Places
<1>k. h.kind \in Kinds
  BY <1>1 DEF Item
<1> HIDE DEF h, t
<1>4. ASSUME Told(queue, fed) PROVE Told(t, fed')
  <2>1. fed' = 0 \/ LossAfter(t, 0)
    BY <1>1, <1>2, <1>3, <1>4, <1>k DEF Told, Kinds
  <2>2. ASSUME NEW i \in 1..Len(t), t[i].kind = "Frame" PROVE LossAfter(t, i)
    <3>1. i + 1 \in 1..Len(queue) /\ queue[i + 1].kind = "Frame"
      BY <1>1, <2>2
    <3> QED BY <1>2, <1>4, <3>1 DEF Told
  <2> QED BY <2>1, <2>2 DEF Told
<1>5. ASSUME ClearFor(queue, fed, conn) PROVE ClearFor(t, fed', conn)
  <2>1. fed' \in {0, conn} \/ LossAfter(t, 0)
    BY <1>1, <1>2, <1>3, <1>5, <1>k DEF ClearFor, Kinds
  <2>2. ASSUME NEW i \in 1..Len(t), t[i].kind = "Frame" PROVE t[i].conn = conn \/ LossAfter(t, i)
    <3>1. i + 1 \in 1..Len(queue) /\ queue[i + 1].kind = "Frame" /\ queue[i + 1] = t[i]
      BY <1>1, <2>2
    <3> QED BY <1>2, <1>5, <3>1 DEF ClearFor
  <2> QED BY <2>1, <2>2 DEF ClearFor
<1>6. Announced(t, fed')
  <2> SUFFICES ASSUME NEW j \in 1..Len(t), t[j].kind = "Frame"
               PROVE  /\ fed' \in {0, t[j].conn} \/ \E k \in 1..j : t[k].kind = "GapOpened"
                      /\ \A i \in 1..j : (i < j /\ t[i].kind = "Frame") =>
                           t[i].conn = t[j].conn \/ \E k \in i..j : t[k].kind = "GapOpened"
    BY DEF Announced
  <2>1. /\ j + 1 \in 1..Len(queue) /\ queue[j + 1] = t[j] /\ j + 1 > 1
        /\ fed \in {0, t[j].conn} \/ \E k \in 1..(j + 1) : queue[k].kind = "GapOpened"
        /\ \A i \in 1..(j + 1) : (i < j + 1 /\ queue[i].kind = "Frame") =>
             queue[i].conn = t[j].conn \/ \E k \in i..(j + 1) : queue[k].kind = "GapOpened"
    BY <1>1 DEF LossInv, Announced
  <2>2. ASSUME NEW i \in 1..j, NEW k \in (i + 1)..(j + 1), queue[k].kind = "GapOpened"
        PROVE  \E m \in i..j : t[m].kind = "GapOpened"
    <3>1. k - 1 \in i..j /\ k - 1 \in 1..Len(t) /\ (k - 1) + 1 = k
      BY <1>1, <2>2
    <3> QED BY <1>1, <2>2, <3>1
  <2>3. ASSUME NEW i \in 1..j, i < j, t[i].kind = "Frame"
        PROVE  t[i].conn = t[j].conn \/ \E k \in i..j : t[k].kind = "GapOpened"
    <3>1. i + 1 \in 1..(j + 1) /\ i + 1 < j + 1 /\ queue[i + 1] = t[i]
      BY <1>1, <2>3
    <3> QED BY <2>1, <2>2, <2>3, <3>1
  <2>4. fed' \in {0, t[j].conn} \/ \E k \in 1..j : t[k].kind = "GapOpened"
    <3>0. 1 \in 1..j /\ 1 \in 1..(j + 1) /\ 1 < j + 1
      BY <1>1
    <3>1. CASE h.kind = "GapOpened"
      BY <1>3, <3>1
    <3>2. CASE h.kind = "Frame"
      <4>1. queue[1].conn = t[j].conn \/ \E k \in 1..(j + 1) : queue[k].kind = "GapOpened"
        BY <1>1, <2>1, <3>0, <3>2
      <4>2. ASSUME NEW k \in 1..(j + 1), queue[k].kind = "GapOpened" PROVE k \in (1 + 1)..(j + 1)
        BY <1>1, <3>2, <4>2
      <4> QED BY <1>1, <1>3, <2>2, <3>0, <3>2, <4>1, <4>2
    <3>3. CASE h.kind = "Health"
      <4>1. ASSUME NEW k \in 1..(j + 1), queue[k].kind = "GapOpened" PROVE k \in (1 + 1)..(j + 1)
        BY <1>1, <3>3, <4>1
      <4> QED BY <1>3, <2>1, <2>2, <3>0, <3>3, <4>1
    <3> QED BY <1>k, <3>1, <3>2, <3>3 DEF Kinds
  <2> QED BY <2>3, <2>4
<1> QED BY <1>3, <1>4, <1>5, <1>6 DEF LossInv, Offering

\* The stream loop adds an item at the end: a frame where the queue is clear for its
\* connection, a notice of loss, or something that tells nothing.
LEMMA LossAppends ==
  ASSUME NEW q \in Seq(Item), NEW e \in Item, NEW f
  PROVE  LET r == Append(q, e)
         IN  /\ \A c : ClearFor(q, f, c) /\ (e.kind = "Frame" => e.conn = c) => ClearFor(r, f, c)
             /\ Told(q, f) /\ e.kind # "Frame" => Told(r, f)
             /\ e.kind = "GapOpened" => Told(r, f)
             /\ Announced(q, f) /\ (e.kind = "Frame" => ClearFor(q, f, e.conn)) => Announced(r, f)
<1> DEFINE r == Append(q, e)
           n == Len(q)
<1>1. /\ n \in Nat /\ Len(r) = n + 1 /\ r[n + 1] = e /\ \A i \in 1..n : r[i] = q[i]
  BY Appended, LenProperties
<1> HIDE DEF r, n
<1>2. ASSUME NEW i \in 0..n, LossAfter(q, i) PROVE LossAfter(r, i)
  BY <1>1, <1>2 DEF LossAfter, n
<1>3. ASSUME e.kind = "GapOpened", NEW i \in 0..n PROVE LossAfter(r, i)
  <2>1. n + 1 \in 1..Len(r) /\ i < n + 1
    BY <1>1
  <2> QED BY <1>1, <1>3, <2>1 DEF LossAfter
<1>4. 0 \in 0..n /\ (\A i \in 1..n : i \in 0..n) /\ \A i \in 1..Len(r) : i \in 1..n \/ i = n + 1
  BY <1>1
<1>5. ASSUME NEW c, ClearFor(q, f, c), e.kind = "Frame" => e.conn = c PROVE ClearFor(r, f, c)
  BY <1>1, <1>2, <1>4, <1>5 DEF ClearFor, n
<1>6. ASSUME Told(q, f), e.kind # "Frame" PROVE Told(r, f)
  BY <1>1, <1>2, <1>4, <1>6 DEF Told, n
<1>7. ASSUME e.kind = "GapOpened" PROVE Told(r, f)
  BY <1>1, <1>3, <1>4, <1>7 DEF Told
<1>8. ASSUME Announced(q, f), e.kind = "Frame" => ClearFor(q, f, e.conn) PROVE Announced(r, f)
  <2> SUFFICES ASSUME NEW j \in 1..Len(r), r[j].kind = "Frame"
               PROVE  /\ f \in {0, r[j].conn} \/ \E k \in 1..j : r[k].kind = "GapOpened"
                      /\ \A i \in 1..j : (i < j /\ r[i].kind = "Frame") =>
                           r[i].conn = r[j].conn \/ \E k \in i..j : r[k].kind = "GapOpened"
    BY DEF Announced
  <2>1. CASE j \in 1..n
    <3>1. (\A k \in 1..j : k \in 1..n /\ r[k] = q[k]) /\ \A i \in 1..j : i..j \subseteq 1..j
      BY <1>1, <2>1
    <3>2. /\ f \in {0, q[j].conn} \/ \E k \in 1..j : q[k].kind = "GapOpened"
          /\ \A i \in 1..j : (i < j /\ q[i].kind = "Frame") =>
               q[i].conn = q[j].conn \/ \E k \in i..j : q[k].kind = "GapOpened"
      BY <1>8, <1>1, <2>1 DEF Announced, n
    <3>3. r[j] = q[j]
      BY <1>1, <2>1
    <3>4. f \in {0, r[j].conn} \/ \E k \in 1..j : r[k].kind = "GapOpened"
      BY <3>1, <3>2, <3>3
    <3>5. ASSUME NEW i \in 1..j, i < j, r[i].kind = "Frame"
          PROVE  r[i].conn = r[j].conn \/ \E k \in i..j : r[k].kind = "GapOpened"
      BY <3>1, <3>2, <3>3, <3>5
    <3> QED BY <3>4, <3>5
  <2>2. CASE j = n + 1
    <3>1. ClearFor(q, f, e.conn) /\ r[j] = e
      BY <1>1, <1>8, <2>2
    <3>2. ASSUME NEW i \in 0..n, LossAfter(q, i)
          PROVE  \E k \in (i + 1)..j : r[k].kind = "GapOpened"
      <4>1. PICK k \in 1..n : i < k /\ q[k].kind = "GapOpened"
        BY <3>2 DEF LossAfter, n
      <4>2. k \in (i + 1)..j /\ r[k] = q[k]
        BY <1>1, <2>2, <4>1
      <4> QED BY <4>1, <4>2
    <3>3. f \in {0, e.conn} \/ LossAfter(q, 0)
      BY <3>1 DEF ClearFor
    <3>4. f \in {0, r[j].conn} \/ \E k \in 1..j : r[k].kind = "GapOpened"
      BY <1>4, <3>1, <3>2, <3>3
    <3>5. ASSUME NEW i \in 1..j, i < j, r[i].kind = "Frame"
          PROVE  r[i].conn = r[j].conn \/ \E k \in i..j : r[k].kind = "GapOpened"
      <4>1. i \in 1..n /\ i \in 0..n /\ r[i] = q[i] /\ (i + 1)..j \subseteq i..j
        BY <1>1, <2>2, <3>5
      <4>2. q[i].conn = e.conn \/ LossAfter(q, i)
        BY <3>1, <3>5, <4>1 DEF ClearFor, n
      <4> QED BY <3>1, <3>2, <4>1, <4>2
    <3> QED BY <3>4, <3>5
  <2> QED BY <1>4, <2>1, <2>2
<1> QED BY <1>5, <1>6, <1>7, <1>8 DEF r

LEMMA LossPush ==
  ASSUME TypeInv, LossInv, Push
  PROVE  LossInv'
<1> DEFINE e == [kind |-> offer.kind, conn |-> conn, inTime |-> ~stopped]
<1>1. /\ pc.runner = "push" /\ offer \in Offer /\ e \in Item /\ queue \in Seq(Item)
      /\ UNCHANGED <<fed, conn, stopped>> /\ e.kind = offer.kind /\ e.conn = conn
  BY DEF Push, streamUnchanged, TypeInv, At, Offer, Item
<1>2. CASE queue' = Append(queue, e) /\ Goes("runner", offer.next)
  <2>1. pc'.runner = offer.next
    BY <1>2 DEF Goes, TypeInv, Places
  <2>2. /\ ClearFor(queue, fed, conn) => ClearFor(queue', fed, conn)
        /\ Told(queue, fed) /\ e.kind # "Frame" => Told(queue', fed)
        /\ e.kind = "GapOpened" => Told(queue', fed)
        /\ Announced(queue, fed) /\ (e.kind = "Frame" => ClearFor(queue, fed, conn))
             => Announced(queue', fed)
    BY <1>1, <1>2, LossAppends
  <2>3. /\ offer.next = "backoff" => Told(queue, fed) /\ offer.kind = "Health"
        /\ offer.next \in {"read", "lost", "top"} => ClearFor(queue, fed, conn)
        /\ offer.next = "top" => offer.kind = "GapOpened"
        /\ Announced(queue, fed)
    BY <1>1 DEF LossInv, Offering
  <2>4. offer.next \in {"backoff", "read", "lost", "top"}
    BY <1>1 DEF Offer
  <2> HIDE DEF e
  <2>5. Announced(queue', fed)
    BY <1>1, <2>2, <2>3, <2>4
  <2> QED BY <1>1, <2>1, <2>2, <2>3, <2>4, <2>5 DEF LossInv, Offering
<1>3. CASE stopped /\ UNCHANGED queue
           /\ Goes("runner", IF offer.kind = "Frame" THEN "top" ELSE offer.next)
  <2>1. pc'.runner = IF offer.kind = "Frame" THEN "top" ELSE offer.next
    BY <1>3 DEF Goes, TypeInv, Places
  <2>2. offer.next \in {"backoff", "read", "lost", "top"}
    BY <1>1 DEF Offer
  <2> QED BY <1>1, <1>3, <2>1, <2>2 DEF LossInv, Offering
<1> QED BY <1>2, <1>3 DEF Push

LEMMA LossStreamLoop ==
  ASSUME TypeInv, LossInv, StreamLoop
  PROVE  LossInv'
<1> USE DEF LossInv, Offering, streamUnchanged, Goes, At, TypeInv, Places
<1>1. CASE LoopTop
  BY <1>1 DEF LoopTop
<1>2. CASE Preflight
  BY <1>2 DEF Preflight, Offers
<1>3. CASE Backoff
  BY <1>3 DEF Backoff
<1>4. CASE Dial
  <2>1. UNCHANGED <<queue, fed>> /\ Told(queue, fed) /\ pc'.runner \in {"backoff", "read"}
    BY <1>4 DEF Dial
  <2>2. ClearFor(queue, fed, conn')
    BY <2>1, ToldIsClear
  <2> QED BY <2>1, <2>2
<1>5. CASE ReadMessage
  BY <1>5 DEF ReadMessage, Offers
<1>6. CASE ReadFails
  BY <1>6 DEF ReadFails, Offers
<1>7. CASE StreamLost
  BY <1>7 DEF StreamLost, Offers
<1>8. CASE Push
  BY <1>8, LossPush
<1> QED BY <1>1, <1>2, <1>3, <1>4, <1>5, <1>6, <1>7, <1>8 DEF StreamLoop

LEMMA LossStep ==
  ASSUME TypeInv, LossInv, [Next]_vars
  PROVE  LossInv'
<1> USE DEF Goes, At, TypeInv, Places
<1>1. CASE Stop \/ UNCHANGED vars \/ LockEngine("runner") \/ LockSink("runner")
  <2>1. CASE Stop \/ UNCHANGED vars
    BY <2>1, LossKept DEF Stop, vars
  <2>2. CASE LockEngine("runner") \/ LockSink("runner")
    <3>1. pc'.runner \in {"sink", "commit"} /\ UNCHANGED <<queue, fed>>
      BY <2>2 DEF LockEngine, LockSink
    <3> QED BY <3>1 DEF LossInv, Offering
  <2> QED BY <1>1, <2>1, <2>2
<1>2. CASE Worker
  <2>1. CASE Pop /\ Takes
    BY <2>1, LossTakes DEF Pop, workerUnchanged
  <2>2. CASE ~(Pop /\ Takes)
    <3>1. UNCHANGED <<queue, fed, conn, offer>> /\ pc'.runner = pc.runner /\ (stopped => stopped')
      BY <1>2, <2>2 DEF Worker, Pop, LockEngine, LockSink, ProcessQuietly, ProcessIngestItem,
         WorkerCancels, workerUnchanged
    <3> QED BY <3>1, LossKept
  <2> QED BY <2>1, <2>2
<1>3. CASE Guard \/ Heartbeat
  <2>1. UNCHANGED <<queue, fed, conn, offer>> /\ pc'.runner = pc.runner /\ (stopped => stopped')
    BY <1>3 DEF Guard, Check, Wait, LockEngine, LockSink, EmitSessionHealth, GuardCancels,
       guardUnchanged, Heartbeat, BeatTicks, BeatLeaves, BeatWrites, BeatBooks, beatUnchanged
  <2> QED BY <2>1, LossKept
<1>4. CASE Cleanup
  <2>1. UNCHANGED <<queue, fed>> /\ pc'.runner \in Ending \cup {"join"}
    BY <1>4 DEF Cleanup, CloseQueue, JoinWorker, NoUnobservedGap, EmitUnobservedGap, StopHeartbeat,
       JoinHeartbeat, EndSession, CloseSink, Report, runnerUnchanged, Ending
  <2> QED BY <2>1 DEF LossInv, Offering, Ending
<1>5. CASE StreamLoop
  BY <1>5, LossStreamLoop
<1> QED BY <1>1, <1>2, <1>3, <1>4, <1>5, Steps

-----------------------------------------------------------------------------
(* The theorems.                                                           *)

LEMMA RunnerInductive == Spec => []RunnerInv
<1>1. Init => RunnerInv
  <2> SUFFICES ASSUME Init PROVE RunnerInv
    OBVIOUS
  <2>0. queue \in Seq(Item) /\ Len(queue) = 0
    BY EmptySeq DEF Init
  <2>1. TypeInv
    <3>1. pc \in Places /\ ~At("runner", "push")
      BY DEF Init, Places, Streaming, At
    <3>2. store \in Store
      BY DEF Init, Store, Status, NoResult
    <3>3. item \in Kinds \cup {"none"} /\ conn \in 0..MaxConns /\ fed \in 0..MaxConns
      BY RunnerAssumption DEF Init
    <3>4. queue \in Seq(Item) /\ Len(queue) <= Capacity
      BY <2>0, RunnerAssumption
    <3> QED BY <3>1, <3>2, <3>3, <3>4 DEF Init, TypeInv
  <2>2. PlaceInv
    BY DEF Init, PlaceInv, Ending, Ended, Streaming
  <2>3. LossInv
    BY <2>0 DEF Init, LossInv, Offering, Announced, Told
  <2> QED BY <2>1, <2>2, <2>3 DEF RunnerInv
<1>2. RunnerInv /\ [Next]_vars => RunnerInv'
  BY TypeStep, PlaceStep, LossStep DEF RunnerInv
<1> QED BY <1>1, <1>2, PTL DEF Spec

\* What the queue took before the run was stopped is processed when the run ends clean.
THEOREM AcceptedIsProcessed == Spec => []AcceptedInTimeIsProcessed
<1>1. RunnerInv => AcceptedInTimeIsProcessed
  <2> SUFFICES ASSUME RunnerInv, Finished, store.result.clean, NEW i \in DOMAIN queue
               PROVE  ~queue[i].inTime
    BY DEF AcceptedInTimeIsProcessed, EndedClean
  <2>1. LeftEmpty
    BY DEF RunnerInv, PlaceInv, Finished, At, Ending
  <2>2. DOMAIN queue = 1..Len(queue)
    BY LenProperties DEF RunnerInv, TypeInv
  <2> QED BY <2>1, <2>2 DEF LeftEmpty
<1> QED BY <1>1, RunnerInductive, PTL

\* Between two frames of different connections to the controller there is a notice of loss.
THEOREM LossIsAnnounced == Spec => []LossBetweenConnections
<1>1. RunnerInv => LossBetweenConnections
  <2> SUFFICES ASSUME RunnerInv PROVE LossBetweenConnections
    OBVIOUS
  <2>1. DOMAIN queue = 1..Len(queue) /\ Len(queue) \in Nat /\ Announced(queue, fed)
    BY LenProperties DEF RunnerInv, TypeInv, LossInv
  <2>2. ASSUME NEW j \in DOMAIN queue, queue[j].kind = "Frame"
        PROVE  /\ fed \in {0, queue[j].conn} \/
                    \E k \in 1..j : k \in DOMAIN queue /\ queue[k].kind = "GapOpened"
               /\ \A i \in DOMAIN queue : (queue[i].kind = "Frame" /\ i < j) =>
                    queue[i].conn = queue[j].conn \/
                    \E k \in i..j : k \in DOMAIN queue /\ queue[k].kind = "GapOpened"
    <3>1. /\ fed \in {0, queue[j].conn} \/ \E k \in 1..j : queue[k].kind = "GapOpened"
          /\ \A i \in 1..j : (i < j /\ queue[i].kind = "Frame") =>
               queue[i].conn = queue[j].conn \/ \E k \in i..j : queue[k].kind = "GapOpened"
      BY <2>1, <2>2 DEF Announced
    <3>2. (\A k \in 1..j : k \in DOMAIN queue)
          /\ \A i \in DOMAIN queue : i < j => i \in 1..j /\ i..j \subseteq 1..j
      BY <2>1
    <3> QED BY <3>1, <3>2
  <2> QED BY <2>2 DEF LossBetweenConnections
<1> QED BY <1>1, RunnerInductive, PTL

\* The result of the run, the session's row and the refusals agree.
THEOREM ResultsAgree == Spec => []ResultAgrees
<1>1. RunnerInv => ResultAgrees
  <2> SUFFICES ASSUME RunnerInv PROVE ResultAgrees
    OBVIOUS
  <2> USE DEF RunnerInv, PlaceInv, Ending, Ended
  <2>1. ASSUME store.session = "closed_clean" PROVE ~fatal
    BY <2>1
  <2>2. ASSUME EndedClean PROVE store.session = "closed_clean"
    BY <2>2 DEF EndedClean, Finished, At
  <2> QED BY <2>1, <2>2 DEF ResultAgrees
<1> QED BY <1>1, RunnerInductive, PTL

\* When the session has ended only the disk guard still writes to the journal.
THEOREM EndStaysLast == Spec => []EndIsLast
<1>1. RunnerInv => EndIsLast
  BY DEF RunnerInv, PlaceInv, EndIsLast
<1> QED BY <1>1, RunnerInductive, PTL
=============================================================================
