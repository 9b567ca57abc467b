-------------------------- MODULE SupervisorProofs --------------------------
(***************************************************************************)
(* Theorems about Supervisor, for any number of supervisors and runtimes:  *)
(* one writer for a database, an orderly shutdown, no child left behind,   *)
(* what the answer of control stop is worth, and how restarts back off.    *)
(*                                                                         *)
(* The invariant has six parts: types; what a runtime's own state rules    *)
(* out; who holds the runtime mutex; who holds the supervisor mutex; which *)
(* runtime a supervisor minds; what control stop has found so far.         *)
(***************************************************************************)
EXTENDS Supervisor, WellFoundedInduction, TLAPS

RtPc == {"dead", "born", "guard", "low", "open", "start", "select", "stopSched", "stopCol",
         "endSched", "flush", "truncate", "close", "release", "exiting"}
State == [pc : RtPc, parent : Supervisors \cup {"nobody", "orphan", "user"}, stop : BOOLEAN,
          said : {"nothing", "already", "ready"}, db : BOOLEAN, col : {"gone", "runs"},
          sch : {"gone", "runs"}, trip : BOOLEAN, seen : BOOLEAN]

Minding == {"await", "reap", "own", "stopping"}
SupPc == Minding \cup {"off", "acquire", "create", "reset", "loop", "present", "probe",
                       "start", "backoff", "release"}
SupState == [pc : SupPc, stop : BOOLEAN, child : Runtimes \cup {Nobody},
             next : Nat, delay : Nat, fails : Nat]

CtlPc == {"idle", "probe", "signal", "absent", "again", "gone", "wait", "runtime", "quiet",
          "ok", "failed"}

TypeInv ==
  /\ rt \in [Runtimes -> State] /\ sup \in [Supervisors -> SupState]
  /\ owner \in Runtimes \cup Supervisors \cup {Control, Free}
  /\ supOwner \in Supervisors \cup {Control, Free}
  /\ ctl \in CtlPc

Joining == {"select", "stopSched", "endSched", "stopCol"}
Opened == Joining \cup Ending \cup {"start"}
Holding == Opened \cup {"guard", "low", "open", "release"}

\* What a process's own state rules out.
Sound(r) ==
  /\ r.db => r.pc \in Opened
  /\ r.pc \notin Joining => r.col = "gone" /\ r.sch = "gone"
  /\ r.pc = "endSched" => r.col = "gone"
  /\ r.pc = "stopCol" => r.sch = "gone"
  /\ r.trip => r.col = "gone" /\ r.pc \in Joining \cup {"close", "release", "exiting"}

LocalInv == \A p \in Runtimes : Sound(rt[p])

OwnerInv ==
  /\ \A p \in Runtimes : rt[p].pc \in Holding => owner = p
  /\ \A s \in Supervisors : sup[s].pc = "probe" => owner = s
  /\ ctl = "quiet" => owner = Control

SupInv ==
  /\ \A s \in Supervisors : sup[s].pc \notin {"off", "acquire"} => supOwner = s
  /\ ctl \in {"absent", "gone"} => supOwner = Control

Gone == {"exiting", "dead"}

\* A runtime with a living parent is the one it minds, unless it is on its way out.
Minds(t, p) == t.pc \in Minding /\ t.child = p
ChildInv ==
  /\ \A s \in Supervisors : sup[s].pc \in Minding => sup[s].child \in Runtimes
  /\ \A s \in Supervisors, p \in Runtimes :
       rt[p].parent = s /\ rt[p].pc \notin Gone => Minds(sup[s], p)

\* Once the supervisor was found absent, no runtime seen at first has a parent.
ControlInv ==
  ctl \in {"absent", "runtime", "quiet"} =>
    \A p \in Runtimes :
      rt[p].seen /\ rt[p].pc \notin Gone => rt[p].parent \notin Supervisors

IInv == TypeInv /\ LocalInv /\ OwnerInv /\ SupInv /\ ChildInv /\ ControlInv

-----------------------------------------------------------------------------
(* Steps of one process.                                                   *)

\* A step of one runtime keeps the invariant if the state it goes to is sound, it
\* holds the mutex there if it should, it takes it only when free and gives up only
\* its own, and it neither comes to life nor changes its parent.
RuntimeMoves(p, r) ==
  /\ rt' = [rt EXCEPT ![p] = r] /\ r \in State /\ Sound(r)
  /\ r.pc \in Holding => owner' = p
  /\ owner' \in {owner, p, Free} /\ (owner' # owner => owner \in {Free, p})
  /\ r.pc \notin Gone => /\ rt[p].pc \notin Gone /\ r.parent = rt[p].parent
                         /\ r.seen => rt[p].seen

LEMMA RuntimeStep ==
  ASSUME IInv, NEW p \in Runtimes, NEW r, RuntimeMoves(p, r), UNCHANGED <<sup, supOwner, ctl>>
  PROVE  IInv'
<1> USE DEF IInv, RuntimeMoves
<1>t. rt[p] \in State /\ rt' \in [Runtimes -> State] /\ rt'[p] = r
      /\ \A q \in Runtimes : q # p => rt'[q] = rt[q]
  BY DEF TypeInv
<1>1. TypeInv'
  BY <1>t DEF TypeInv
<1>2. LocalInv'
  BY <1>t DEF LocalInv
<1>3. OwnerInv'
  <2>1. ASSUME NEW q \in Runtimes, rt'[q].pc \in Holding PROVE owner' = q
    BY <1>t, <2>1, SupervisorAssumption DEF OwnerInv
  <2>2. ASSUME NEW s \in Supervisors, sup'[s].pc = "probe" PROVE owner' = s
    BY <2>2, SupervisorAssumption DEF OwnerInv
  <2>3. ASSUME ctl' = "quiet" PROVE owner' = Control
    BY <2>3, SupervisorAssumption DEF OwnerInv
  <2> QED BY <2>1, <2>2, <2>3 DEF OwnerInv
<1>4. SupInv'
  BY DEF SupInv
<1>5. ChildInv'
  BY <1>t DEF ChildInv
<1>6. ControlInv'
  BY <1>t DEF ControlInv
<1> QED BY <1>1, <1>2, <1>3, <1>4, <1>5, <1>6

\* A step of one supervisor likewise; it must go on minding a child that lives.
SupervisorMoves(s, t) ==
  /\ sup' = [sup EXCEPT ![s] = t] /\ t \in SupState
  /\ t.pc = "probe" => owner' = s
  /\ owner' \in {owner, s, Free} /\ (owner' # owner => owner \in {Free, s})
  /\ t.pc \notin {"off", "acquire"} => supOwner' = s
  /\ supOwner' \in {supOwner, s, Free} /\ (supOwner' # supOwner => supOwner \in {Free, s})
  /\ t.pc \in Minding => t.child \in Runtimes
  /\ \A p \in Runtimes : rt[p].parent = s /\ rt[p].pc \notin Gone => Minds(t, p)

LEMMA SupervisorStep ==
  ASSUME IInv, NEW s \in Supervisors, NEW t, SupervisorMoves(s, t), UNCHANGED <<rt, ctl>>
  PROVE  IInv'
<1> USE DEF IInv, SupervisorMoves
<1>t. sup' \in [Supervisors -> SupState] /\ sup'[s] = t
      /\ \A u \in Supervisors : u # s => sup'[u] = sup[u]
  BY DEF TypeInv
<1>1. TypeInv'
  BY <1>t DEF TypeInv
<1>2. LocalInv'
  BY DEF LocalInv
<1>3. OwnerInv'
  <2>1. ASSUME NEW q \in Runtimes, rt'[q].pc \in Holding PROVE owner' = q
    BY <2>1, SupervisorAssumption DEF OwnerInv
  <2>2. ASSUME NEW u \in Supervisors, sup'[u].pc = "probe" PROVE owner' = u
    BY <1>t, <2>2, SupervisorAssumption DEF OwnerInv
  <2>3. ASSUME ctl' = "quiet" PROVE owner' = Control
    BY <2>3, SupervisorAssumption DEF OwnerInv
  <2> QED BY <2>1, <2>2, <2>3 DEF OwnerInv
<1>4. SupInv'
  <2>1. ASSUME NEW u \in Supervisors, sup'[u].pc \notin {"off", "acquire"} PROVE supOwner' = u
    BY <1>t, <2>1, SupervisorAssumption DEF SupInv
  <2>2. ASSUME ctl' \in {"absent", "gone"} PROVE supOwner' = Control
    BY <2>2, SupervisorAssumption DEF SupInv
  <2> QED BY <2>1, <2>2 DEF SupInv
<1>5. ChildInv'
  BY <1>t DEF ChildInv
<1>6. ControlInv'
  BY DEF ControlInv
<1> QED BY <1>1, <1>2, <1>3, <1>4, <1>5, <1>6

-----------------------------------------------------------------------------
(* The actions of a runtime.                                               *)

\* Every step of the runtime's own goroutines and of its mishaps is such a step.
LEMMA RuntimeActions ==
  ASSUME IInv, NEW p \in Runtimes, Main(p) \/ Goroutines(p) \/ Mishap(p)
  PROVE  RuntimeMoves(p, rt'[p])
<1> USE SupervisorAssumption DEF RuntimeMoves, Sound, Holding, Opened, Joining, Ending, Gone,
      At, Goes
<1>t. rt[p] \in State /\ rt \in [Runtimes -> State] /\ Sound(rt[p])
      /\ (rt[p].pc \in Holding => owner = p)
  BY DEF IInv, TypeInv, LocalInv, OwnerInv
<1> USE DEF State, RtPc
<1>1. CASE SetupFails(p)
  BY <1>t, <1>1 DEF SetupFails
<1>2. CASE AcquireRuntimeOwnership(p)
  BY <1>t, <1>2 DEF AcquireRuntimeOwnership
<1>3. CASE CheckDisk(p)
  BY <1>t, <1>3 DEF CheckDisk
<1>4. CASE LowDiskStop(p)
  BY <1>t, <1>4 DEF LowDiskStop
<1>5. CASE OpenDB(p)
  BY <1>t, <1>5 DEF OpenDB
<1>6. CASE OpenFails(p)
  BY <1>t, <1>6 DEF OpenFails
<1>7. CASE Start(p)
  BY <1>t, <1>7 DEF Start
<1>8. CASE SchedulerLeaves(p)
  BY <1>t, <1>8 DEF SchedulerLeaves, SchedulerCancelled, CollectorCancelled
<1>9. ASSUME NEW trip \in BOOLEAN, rt' = [rt EXCEPT ![p].col = "gone", ![p].trip = trip],
             rt[p].col = "runs", UNCHANGED owner
      PROVE  RuntimeMoves(p, rt'[p])
  <2>1. rt'[p] = [rt[p] EXCEPT !.col = "gone", !.trip = trip]
    BY <1>t, <1>9
  <2>2. rt'[p] \in State
    BY <1>t, <2>1
  <2>3. rt' = [rt EXCEPT ![p] = rt'[p]]
    BY <1>t, <1>9
  <2>4. /\ rt'[p].pc = rt[p].pc /\ rt'[p].db = rt[p].db /\ rt'[p].col = "gone"
        /\ rt'[p].sch = rt[p].sch /\ rt'[p].parent = rt[p].parent /\ rt'[p].seen = rt[p].seen
    BY <1>t, <2>1
  <2>5. rt[p].pc \in Joining
    BY <1>t, <1>9
  <2>6. Sound(rt'[p])
    BY <1>t, <2>4, <2>5
  <2> QED BY <1>t, <1>9, <2>2, <2>3, <2>4, <2>6
<1>10. CASE CollectorLeaves(p) \/ CollectorFails(p)
  BY <1>9, <1>10 DEF CollectorLeaves, CollectorFails
<1>11. CASE SelectStop(p)
  BY <1>t, <1>11 DEF SelectStop
<1>12. CASE SelectOutcome(p)
  BY <1>t, <1>12 DEF SelectOutcome
<1>13. CASE JoinScheduler(p)
  BY <1>t, <1>13 DEF JoinScheduler, AfterJoin
<1>14. CASE JoinCollector(p)
  BY <1>t, <1>14 DEF JoinCollector, AfterJoin
<1>15. CASE Flush(p)
  BY <1>t, <1>15 DEF Flush
<1>16. CASE Truncate(p)
  BY <1>t, <1>16 DEF Truncate
<1>17. CASE Close(p)
  BY <1>t, <1>17 DEF Close
<1>18. CASE Release(p)
  BY <1>t, <1>18 DEF Release
<1>19. CASE Exit(p)
  BY <1>t, <1>19 DEF Exit, Death, NotBorn
<1> QED BY <1>1, <1>2, <1>3, <1>4, <1>5, <1>6, <1>7, <1>8, <1>9, <1>10, <1>11, <1>12, <1>13,
           <1>14, <1>15, <1>16, <1>17, <1>18, <1>19 DEF Main, Goroutines, Mishap

-----------------------------------------------------------------------------
(* The actions of a supervisor.                                            *)

\* NextDelay is a number, and the state it goes to minds nobody.
LEMMA DelayedType ==
  ASSUME NEW t \in SupState, NEW stable \in BOOLEAN
  PROVE  Delayed(t, stable) \in SupState /\ Delayed(t, stable).pc = "backoff"
<1> DEFINE delay == IF stable THEN InitialDelay ELSE t.next
           doubled == delay * 2
           next == IF doubled < delay \/ doubled > MaxDelay THEN MaxDelay ELSE doubled
           fails == IF stable THEN 1 ELSE Lesser(t.fails + 1, MaxDelay + 1)
<1>1. delay \in Nat /\ next \in Nat /\ fails \in Nat
  BY SupervisorAssumption DEF SupState, Lesser
<1>2. Delayed(t, stable) = [t EXCEPT !.pc = "backoff", !.child = Nobody, !.delay = delay,
                                     !.next = next, !.fails = fails]
  BY DEF Delayed, SupState
<1> HIDE DEF delay, next, fails
<1> QED BY <1>1, <1>2 DEF SupState, SupPc

\* What touches neither a runtime nor control stop is a step of that kind.
LEMMA SupervisorActions ==
  ASSUME IInv, NEW s \in Supervisors,
         \/ StartSupervisor(s) \/ WatchStopEvent(s) \/ Interrupt(s)
         \/ AcquireSupervisorOwnership(s) \/ CreateEvent(s) \/ ResetEvent(s)
         \/ ProbeBegins(s) \/ ProbeEnds(s) \/ WaitProbe(s)
         \/ AwaitReady(s) \/ AwaitAlreadyRunning(s) \/ AwaitExit(s) \/ Reap(s)
         \/ OwnExit(s) \/ WaitBackoff(s) \/ StoppedExit(s) \/ LoopStop(s) \/ ReleaseSupervisor(s)
  PROVE  SupervisorMoves(s, sup'[s]) /\ UNCHANGED <<rt, ctl>>
<1> USE SupervisorAssumption DEF SupervisorMoves, Minds, Minding, Gone, Is, Moves, supOnly, rest
<1>t. /\ sup[s] \in SupState /\ sup \in [Supervisors -> SupState] /\ rt \in [Runtimes -> State]
      /\ sup[s].pc \notin {"off", "acquire"} => supOwner = s
      /\ sup[s].pc = "probe" => owner = s
      /\ sup[s].pc \in Minding => sup[s].child \in Runtimes
      /\ \A p \in Runtimes : rt[p].parent = s /\ rt[p].pc \notin Gone => Minds(sup[s], p)
  BY DEF IInv, TypeInv, OwnerInv, SupInv, ChildInv
<1> USE DEF SupState, SupPc
<1>1. CASE StartSupervisor(s)
  BY <1>t, <1>1 DEF StartSupervisor, Off
<1>2. CASE WatchStopEvent(s)
  BY <1>t, <1>2 DEF WatchStopEvent, Started
<1>3. CASE Interrupt(s)
  BY <1>t, <1>3 DEF Interrupt, Started
<1>4. CASE AcquireSupervisorOwnership(s)
  <2>1. CASE supOwner = Free /\ supOwner' = s /\ sup' = [sup EXCEPT ![s].pc = "create"]
    BY <1>t, <1>4, <2>1 DEF AcquireSupervisorOwnership
  <2>2. CASE sup' = [sup EXCEPT ![s] = Off] /\ UNCHANGED supOwner
    <3>1. Off \in SupState /\ Off.pc = "off"
      BY DEF Off
    <3> QED BY <1>t, <1>4, <2>2, <3>1 DEF AcquireSupervisorOwnership
  <2> QED BY <1>4, <2>1, <2>2 DEF AcquireSupervisorOwnership
<1>5. CASE CreateEvent(s)
  BY <1>t, <1>5 DEF CreateEvent
<1>6. CASE ResetEvent(s)
  BY <1>t, <1>6 DEF ResetEvent
<1>7. CASE ProbeBegins(s)
  BY <1>t, <1>7 DEF ProbeBegins
<1>8. CASE ProbeEnds(s)
  BY <1>t, <1>8 DEF ProbeEnds
<1>9. CASE WaitProbe(s)
  BY <1>t, <1>9 DEF WaitProbe
<1>10. CASE AwaitReady(s)
  BY <1>t, <1>10 DEF AwaitReady
<1>11. CASE AwaitAlreadyRunning(s)
  BY <1>t, <1>11 DEF AwaitAlreadyRunning
<1>12. CASE AwaitExit(s) \/ OwnExit(s)
  <2>1. PICK stable \in BOOLEAN : Backs(s, stable) /\ supOnly
    BY <1>12 DEF AwaitExit, OwnExit
  <2>2. rt[sup[s].child].pc \in Gone /\ sup[s].pc \in Minding
    BY <1>12 DEF AwaitExit, OwnExit, Alive, At
  <2>3. sup' = [sup EXCEPT ![s] = sup'[s]] /\ sup'[s] \in SupState /\ sup'[s].pc = "backoff"
    BY <1>t, <2>1, DelayedType DEF Backs
  <2> QED BY <1>t, <2>1, <2>2, <2>3
<1>13. CASE Reap(s)
  BY <1>t, <1>13 DEF Reap, Alive, At
<1>14. CASE WaitBackoff(s)
  BY <1>t, <1>14 DEF WaitBackoff
<1>15. CASE StoppedExit(s)
  BY <1>t, <1>15 DEF StoppedExit, Alive, At
<1>16. CASE LoopStop(s)
  BY <1>t, <1>16 DEF LoopStop
<1>17. CASE ReleaseSupervisor(s)
  BY <1>t, <1>17 DEF ReleaseSupervisor, Off
<1> QED BY <1>1, <1>2, <1>3, <1>4, <1>5, <1>6, <1>7, <1>8, <1>9, <1>10, <1>11, <1>12, <1>13,
           <1>14, <1>15, <1>16, <1>17

-----------------------------------------------------------------------------
(* Births, deaths and control stop.                                        *)

\* The steps of both at once: the supervisor stops or kills the runtime it minds.
LEMMA BothStep ==
  ASSUME IInv, NEW s \in Supervisors, NEW p \in Runtimes, NEW r, NEW t,
         RuntimeMoves(p, r), sup' = [sup EXCEPT ![s] = t], t \in SupState,
         UNCHANGED <<supOwner, ctl>>, supOwner = s,
         sup[s].pc \in Minding /\ sup[s].child = p, t.pc # "probe",
         \/ r.pc \in Gone /\ t.pc \notin Minding
         \/ t.pc \in Minding /\ t.child = p
  PROVE  IInv'
<1> USE DEF IInv, RuntimeMoves
<1>t. /\ rt' \in [Runtimes -> State] /\ rt'[p] = r /\ \A q \in Runtimes : q # p => rt'[q] = rt[q]
      /\ sup' \in [Supervisors -> SupState] /\ sup'[s] = t
      /\ \A u \in Supervisors : u # s => sup'[u] = sup[u]
  BY DEF TypeInv
<1>1. TypeInv'
  BY <1>t DEF TypeInv
<1>2. LocalInv'
  BY <1>t DEF LocalInv
<1>3. OwnerInv'
  <2>1. ASSUME NEW q \in Runtimes, rt'[q].pc \in Holding PROVE owner' = q
    BY <1>t, <2>1, SupervisorAssumption DEF OwnerInv
  <2>2. ASSUME NEW u \in Supervisors, sup'[u].pc = "probe" PROVE owner' = u
    BY <1>t, <2>2, SupervisorAssumption DEF OwnerInv
  <2>3. ASSUME ctl' = "quiet" PROVE owner' = Control
    BY <2>3, SupervisorAssumption DEF OwnerInv
  <2> QED BY <2>1, <2>2, <2>3 DEF OwnerInv
<1>4. SupInv'
  BY <1>t DEF SupInv
<1>5. ChildInv'
  BY <1>t, SupervisorAssumption DEF ChildInv, Minds
<1>6. ControlInv'
  BY <1>t DEF ControlInv
<1> QED BY <1>1, <1>2, <1>3, <1>4, <1>5, <1>6

\* Whatever it was doing, a runtime may die.
LEMMA DeathMoves ==
  ASSUME IInv, NEW p \in Runtimes, Kill(p)
  PROVE  RuntimeMoves(p, rt'[p]) /\ rt'[p].pc \in Gone
<1>t. rt[p] \in State /\ rt \in [Runtimes -> State] /\ Sound(rt[p])
      /\ (rt[p].pc \in Holding => owner = p)
  BY DEF IInv, TypeInv, LocalInv, OwnerInv
<1>1. CASE Alive(p)
  <2> DEFINE r == [NotBorn EXCEPT !.said = rt[p].said]
  <2>1. rt' = [rt EXCEPT ![p] = r] /\ owner' = IF owner = p THEN Free ELSE owner
    BY <1>1 DEF Kill, Death
  <2>2. /\ r \in State /\ r.pc = "dead" /\ r.db = FALSE /\ r.trip = FALSE
        /\ r.col = "gone" /\ r.sch = "gone"
    BY <1>t DEF NotBorn, State, RtPc
  <2> HIDE DEF r
  <2> QED BY <1>t, <2>1, <2>2 DEF RuntimeMoves, Sound, Holding, Opened, Joining, Ending, Gone
<1>2. CASE ~Alive(p)
  <2>1. UNCHANGED rtVars /\ rt[p].pc = "dead"
    BY <1>2 DEF Kill, Alive, At
  <2>2. rt' = [rt EXCEPT ![p] = rt'[p]]
    BY <1>t, <2>1 DEF rtVars
  <2> QED BY <1>t, <2>1, <2>2 DEF RuntimeMoves, Gone, Holding, Opened, Joining, Ending, rtVars
<1> QED BY <1>1, <1>2

LEMMA MinderActions ==
  ASSUME IInv, NEW s \in Supervisors,
         AwaitTimeout(s) \/ AwaitStop(s) \/ StoppedTimeout(s) \/ OwnStop(s)
  PROVE  IInv'
<1> DEFINE p == sup[s].child
<1>t. /\ sup[s] \in SupState /\ sup \in [Supervisors -> SupState] /\ rt \in [Runtimes -> State]
      /\ sup[s].pc \in Minding /\ p \in Runtimes /\ supOwner = s
  BY DEF IInv, TypeInv, SupInv, ChildInv, AwaitTimeout, AwaitStop, StoppedTimeout, OwnStop,
         Is, Minding
<1>1. CASE AwaitTimeout(s)
  <2>1. Kill(p) /\ sup' = [sup EXCEPT ![s] = Delayed(sup[s], FALSE)]
    BY <1>1 DEF AwaitTimeout, Backs
  <2> QED BY <1>t, <1>1, <2>1, DelayedType, DeathMoves, BothStep DEF AwaitTimeout, Minding
<1>2. CASE AwaitStop(s) \/ StoppedTimeout(s)
  <2> DEFINE t == [sup[s] EXCEPT !.pc = "release", !.child = Nobody]
  <2>1. Kill(p) /\ sup' = [sup EXCEPT ![s] = t] /\ UNCHANGED <<supOwner, ctl>>
    BY <1>t, <1>2 DEF AwaitStop, StoppedTimeout
  <2>2. t \in SupState /\ t.pc = "release"
    BY <1>t DEF SupState, SupPc
  <2> HIDE DEF t
  <2> QED BY <1>t, <2>1, <2>2, DeathMoves, BothStep DEF Minding
<1>3. CASE OwnStop(s)
  <2> DEFINE t == [sup[s] EXCEPT !.pc = "stopping"]
             r == [rt[p] EXCEPT !.stop = TRUE]
  <2>1. rt' = [rt EXCEPT ![p] = r] /\ sup' = [sup EXCEPT ![s] = t] /\ UNCHANGED <<owner, supOwner, ctl>>
    BY <1>t, <1>3 DEF OwnStop, Moves
  <2>2. t \in SupState /\ t.pc = "stopping" /\ t.child = p
    BY <1>t DEF SupState, SupPc, Minding
  <2>3. RuntimeMoves(p, r)
    <3>1. rt[p] \in State /\ Sound(rt[p]) /\ (rt[p].pc \in Holding => owner = p)
      BY <1>t DEF IInv, LocalInv, OwnerInv
    <3>2. /\ r \in State /\ r.pc = rt[p].pc /\ r.db = rt[p].db /\ r.trip = rt[p].trip
          /\ r.col = rt[p].col /\ r.sch = rt[p].sch /\ r.parent = rt[p].parent
          /\ r.seen = rt[p].seen
      BY <3>1 DEF State
    <3> HIDE DEF r
    <3> QED BY <2>1, <3>1, <3>2 DEF RuntimeMoves, Sound
  <2> HIDE DEF t, r
  <2> QED BY <1>t, <2>1, <2>2, <2>3, BothStep DEF Minding
<1> QED BY <1>1, <1>2, <1>3

\* A runtime is born in the place of one that is gone.
LEMMA BirthStep ==
  ASSUME IInv, NEW p \in Unused, NEW parent \in Supervisors \cup {"user"}, Birth(p, parent),
         UNCHANGED <<owner, supOwner, ctl>>,
         \/ parent = "user" /\ UNCHANGED sup
         \/ /\ parent \in Supervisors /\ sup[parent].pc = "start"
            /\ sup' = [sup EXCEPT ![parent].pc = "await", ![parent].child = p]
  PROVE  IInv'
<1> USE DEF IInv
<1> DEFINE r == [NotBorn EXCEPT !.pc = "born", !.parent = parent]
<1>r. /\ r \in State /\ Sound(r) /\ r.pc = "born" /\ r.parent = parent /\ r.seen = FALSE
  BY DEF NotBorn, State, RtPc, Sound, Joining, Opened, Ending
<1>t. /\ p \in Runtimes /\ rt' = [rt EXCEPT ![p] = r] /\ rt[p].pc = "dead"
      /\ rt' \in [Runtimes -> State] /\ rt'[p] = r /\ \A q \in Runtimes : q # p => rt'[q] = rt[q]
  BY <1>r DEF TypeInv, Birth, Unused, Alive, At
<1> HIDE DEF r
<1>s. /\ sup' \in [Supervisors -> SupState]
      /\ \A u \in Supervisors :
           IF u = parent THEN sup[u].pc = "start" /\ Minds(sup'[u], p) /\ sup'[u].pc = "await"
                         ELSE sup'[u] = sup[u]
  BY <1>t, SupervisorAssumption DEF TypeInv, SupState, SupPc, Minds, Minding
<1>1. TypeInv'
  BY <1>t, <1>s DEF TypeInv
<1>2. LocalInv'
  BY <1>t, <1>r DEF LocalInv
<1>3. OwnerInv'
  BY <1>t, <1>r, <1>s DEF OwnerInv, Holding, Opened, Joining, Ending
<1>4. SupInv'
  BY <1>s DEF SupInv
<1>5. ChildInv'
  <2>1. ASSUME NEW u \in Supervisors, sup'[u].pc \in Minding PROVE sup'[u].child \in Runtimes
    BY <1>t, <1>s, <2>1 DEF ChildInv, Minds
  <2>2. ASSUME NEW u \in Supervisors, NEW q \in Runtimes, rt'[q].parent = u, rt'[q].pc \notin Gone
        PROVE  Minds(sup'[u], q)
    <3>1. CASE q = p
      BY <1>t, <1>r, <1>s, <2>2, <3>1, SupervisorAssumption
    <3>2. CASE q # p
      BY <1>t, <1>s, <2>2, <3>2 DEF ChildInv, Minds, Minding
    <3> QED BY <3>1, <3>2
  <2> QED BY <2>1, <2>2 DEF ChildInv
<1>6. ControlInv'
  BY <1>t, <1>r DEF ControlInv
<1> QED BY <1>1, <1>2, <1>3, <1>4, <1>5, <1>6

\* A supervisor dies and leaves an orphan.
LEMMA KillSupervisorStep ==
  ASSUME IInv, NEW s \in Supervisors, KillSupervisor(s)
  PROVE  IInv'
<1> USE DEF IInv, KillSupervisor
<1>r. /\ rt' \in [Runtimes -> State]
      /\ \A p \in Runtimes :
           /\ rt'[p].pc = rt[p].pc /\ rt'[p].seen = rt[p].seen
           /\ Sound(rt[p]) => Sound(rt'[p])
           /\ IF rt[p].parent = s THEN rt'[p].parent = "orphan" ELSE rt'[p] = rt[p]
  BY DEF TypeInv, State, Sound
<1>s. /\ sup' \in [Supervisors -> SupState] /\ sup'[s].pc = "off"
      /\ \A u \in Supervisors : u # s => sup'[u] = sup[u]
  <2>1. Off \in SupState /\ Off.pc = "off"
    BY SupervisorAssumption DEF Off, SupState, SupPc
  <2> QED BY <2>1 DEF TypeInv
<1>1. TypeInv'
  BY <1>r, <1>s DEF TypeInv
<1>2. LocalInv'
  BY <1>r DEF LocalInv
<1>3. OwnerInv'
  BY <1>r, <1>s, SupervisorAssumption DEF OwnerInv
<1>4. SupInv'
  BY <1>s, SupervisorAssumption DEF SupInv
<1>5. ChildInv'
  BY <1>r, <1>s, SupervisorAssumption DEF ChildInv, Minds, Minding
<1>6. ControlInv'
  BY <1>r, SupervisorAssumption DEF ControlInv
<1> QED BY <1>1, <1>2, <1>3, <1>4, <1>5, <1>6

\* control stop moves on: it takes a mutex only when free and gives up only its own.
\* A supervisor absent while it holds that mutex minds nobody.
LEMMA ControlActions ==
  ASSUME IInv, ControlStop \/ CtlRuns \/ WaitTimeout
  PROVE  IInv'
<1> USE SupervisorAssumption DEF IInv
<1>1. CASE ControlStop
  <2>r. /\ rt' \in [Runtimes -> State]
        /\ \A p \in Runtimes : rt'[p] = [rt[p] EXCEPT !.seen = Alive(p)]
    <3>1. \A p \in Runtimes : Alive(p) \in BOOLEAN
      BY DEF Alive
    <3>2. \A p \in Runtimes : [rt[p] EXCEPT !.seen = Alive(p)] \in State
      BY <3>1, ZenonT(40) DEF TypeInv, State
    <3> QED BY <1>1, <3>2 DEF ControlStop
  <2>s. \A p \in Runtimes : /\ rt'[p].pc = rt[p].pc /\ rt'[p].parent = rt[p].parent
                            /\ Sound(rt[p]) => Sound(rt'[p])
    BY <2>r DEF TypeInv, State, Sound
  <2> QED BY <1>1, <2>r, <2>s
          DEF ControlStop, CtlGoes, ctlOnly, rest, TypeInv, CtlPc, LocalInv, OwnerInv, SupInv,
              ChildInv, ControlInv
<1>2. CASE CtlRuns \/ WaitTimeout
  <2>c. UNCHANGED <<rt, sup>> /\ ctl' \in CtlPc
    BY <1>2 DEF CtlRuns, WaitTimeout, CtlProbes, CtlProbeEnds, SignalSupervisorStop, CtlRuntimeProbe,
                CtlGoes, ctlOnly, rtVars, CtlPc
  <2>1. TypeInv'
    BY <1>2, <2>c DEF TypeInv, CtlRuns, WaitTimeout, CtlProbes, CtlProbeEnds,
                SignalSupervisorStop, CtlRuntimeProbe, CtlGoes, rtVars
  <2>2. LocalInv'
    BY <2>c DEF LocalInv
  <2>3. OwnerInv'
    BY <1>2, <2>c DEF OwnerInv, CtlRuns, WaitTimeout, CtlProbes, CtlProbeEnds,
                SignalSupervisorStop, CtlRuntimeProbe, CtlGoes, rtVars
  <2>4. SupInv'
    BY <1>2, <2>c DEF SupInv, CtlRuns, WaitTimeout, CtlProbes, CtlProbeEnds,
                SignalSupervisorStop, CtlRuntimeProbe, CtlGoes, rtVars
  <2>5. ChildInv'
    BY <2>c DEF ChildInv
  <2>6. ControlInv'
    <3>1. SUFFICES ASSUME ctl' \in {"absent", "runtime", "quiet"}, NEW p \in Runtimes,
                          rt[p].seen, rt[p].pc \notin Gone, rt[p].parent \in Supervisors
                   PROVE  FALSE
      BY <2>c DEF ControlInv
    <3>2. CASE ctl' = "absent"
      <4>1. supOwner = Free
        BY <1>2, <3>2 DEF CtlRuns, WaitTimeout, CtlProbes, CtlProbeEnds, SignalSupervisorStop,
                CtlRuntimeProbe, CtlGoes
      <4>2. Minds(sup[rt[p].parent], p)
        BY <3>1 DEF ChildInv
      <4> QED BY <3>1, <4>1, <4>2 DEF SupInv, Minds, Minding
    <3>3. CASE ctl' \in {"runtime", "quiet"}
      <4>1. ctl \in {"absent", "runtime", "quiet"}
        BY <1>2, <3>3 DEF CtlRuns, WaitTimeout, CtlProbes, CtlProbeEnds, SignalSupervisorStop,
                CtlRuntimeProbe, CtlGoes
      <4> QED BY <3>1, <4>1 DEF ControlInv
    <3> QED BY <3>1, <3>2, <3>3
  <2> QED BY <2>1, <2>2, <2>3, <2>4, <2>5, <2>6
<1> QED BY <1>1, <1>2

-----------------------------------------------------------------------------
(* The invariant and what follows from it.                                 *)

LEMMA Initial == Init => IInv
BY SupervisorAssumption
   DEF Init, IInv, TypeInv, LocalInv, OwnerInv, SupInv, ChildInv, ControlInv, NotBorn, Off, State,
       RtPc, SupState, SupPc, CtlPc, Sound, Opened, Joining, Ending, Holding, Gone, Minding

LEMMA Inductive == IInv /\ [Next]_vars => IInv'
<1> SUFFICES ASSUME IInv, [Next]_vars PROVE IInv'
  OBVIOUS
<1>1. ASSUME NEW s \in Supervisors, StartSupervisor(s) \/ WatchStopEvent(s) \/ Interrupt(s)
             \/ Loop(s) \/ Overdue(s)
      PROVE  IInv'
  <2>1. CASE StartRuntime(s)
    <3>1. Unused # {} /\ (CHOOSE q \in Unused : TRUE) \in Unused
      BY <2>1 DEF StartRuntime
    <3> QED BY <2>1, <3>1, BirthStep DEF StartRuntime, Is, rest
  <2>2. CASE AwaitStop(s) \/ OwnStop(s) \/ Overdue(s)
    BY <2>2, MinderActions DEF Overdue
  <2> QED BY <1>1, <2>1, <2>2, SupervisorActions, SupervisorStep DEF Loop
<1>2. ASSUME NEW s \in Supervisors, KillSupervisor(s) PROVE IInv'
  BY <1>2, KillSupervisorStep
<1>3. ASSUME NEW p \in Runtimes, MainRuns(p) \/ GoroutinesRun(p) \/ RuntimeMishap(p) PROVE IInv'
  BY <1>3, RuntimeActions, RuntimeStep DEF MainRuns, GoroutinesRun, RuntimeMishap, others
<1>4. ASSUME NEW p \in Runtimes, KillRuntime(p) PROVE IInv'
  BY <1>4, DeathMoves, RuntimeStep DEF KillRuntime, Kill
<1>5. ASSUME NEW p \in Runtimes, InterruptRuntime(p) PROVE IInv'
  <2> DEFINE r == [rt[p] EXCEPT !.stop = TRUE]
  <2>1. rt[p] \in State /\ Sound(rt[p]) /\ (rt[p].pc \in Holding => owner = p)
    BY DEF IInv, TypeInv, LocalInv, OwnerInv
  <2>2. /\ r \in State /\ r.pc = rt[p].pc /\ r.db = rt[p].db /\ r.trip = rt[p].trip
        /\ r.col = rt[p].col /\ r.sch = rt[p].sch /\ r.parent = rt[p].parent /\ r.seen = rt[p].seen
    BY <2>1 DEF State
  <2>3. rt' = [rt EXCEPT ![p] = r] /\ UNCHANGED <<owner, sup, supOwner, ctl>>
    BY <1>5 DEF InterruptRuntime, IInv, TypeInv
  <2> HIDE DEF r
  <2>4. RuntimeMoves(p, r)
    BY <2>1, <2>2, <2>3 DEF RuntimeMoves, Sound
  <2> QED BY <2>3, <2>4, RuntimeStep
<1>6. CASE StartManually
  <2>1. Unused # {} /\ (CHOOSE q \in Unused : TRUE) \in Unused
    BY <1>6 DEF StartManually
  <2> QED BY <1>6, <2>1, BirthStep DEF StartManually
<1>7. CASE ControlStop \/ CtlRuns \/ WaitTimeout
  BY <1>7, ControlActions
<1>8. CASE Rests \/ UNCHANGED vars
  <2>1. UNCHANGED <<rt, owner, sup, supOwner, ctl>>
    BY <1>8 DEF Rests, vars
  <2> QED BY <2>1 DEF IInv, TypeInv, LocalInv, OwnerInv, SupInv, ChildInv, ControlInv
<1> QED BY <1>1, <1>2, <1>3, <1>4, <1>5, <1>6, <1>7, <1>8 DEF Next

LEMMA Invariant == Spec => []IInv
BY Initial, Inductive, PTL DEF Spec

\* One writer for a database: who has it open holds its mutex, whatever supervisors,
\* manual starts, probes, kills and orphans there are.
THEOREM OneWriter == Spec => []OneAuthority
<1>1. IInv => OneAuthority
  BY DEF IInv, LocalInv, OwnerInv, Sound, Holding, OneAuthority
<1> QED BY <1>1, Invariant, PTL

\* The shutdown of a runtime is in order: its last flush and its checkpoint run alone.
THEOREM ShutdownInOrder == Spec => []FlushAlone
<1>1. IInv => FlushAlone
  BY DEF IInv, LocalInv, Sound, Joining, Ending, FlushAlone
<1> QED BY <1>1, Invariant, PTL

\* After the disk guard tripped, a runtime writes nothing more once its scheduler is
\* joined.
THEOREM TripIsQuiet == Spec => []QuiescentAfterTrip
<1>1. IInv => QuiescentAfterTrip
  BY DEF IInv, LocalInv, Sound, Joining, QuiescentAfterTrip, MayBeWriting
<1> QED BY <1>1, Invariant, PTL

\* A supervisor that has ended and was not killed left no runtime behind.
THEOREM NoOrphanByExit == Spec => []NoChildLeft
<1>1. IInv => NoChildLeft
  BY DEF IInv, ChildInv, Minds, Minding, Gone, NoChildLeft, Is, MayWrite
<1> QED BY <1>1, Invariant, PTL

\* When control stop succeeds nobody has the database open, and no runtime that was a
\* supervisor's when it began has, or may yet take, the database.
THEOREM StopIsQuiet == Spec => StopMeansQuiet
<1>1. ASSUME IInv, [Next]_vars, ctl' = "ok", ctl # "ok"
      PROVE  \A p \in Runtimes : ~rt[p].db /\ (MayWrite(p) /\ rt[p].seen => rt[p].parent \notin Supervisors)
  <2>1. ctl = "quiet"
    BY <1>1 DEF Next, vars, StartSupervisor, Loop, Overdue, WatchStopEvent, Interrupt, KillSupervisor,
            AcquireSupervisorOwnership, CreateEvent, ResetEvent, ProbeBegins, ProbeEnds, WaitProbe,
            StartRuntime, AwaitReady, AwaitAlreadyRunning, AwaitExit, AwaitStop, Reap, OwnStop, OwnExit,
            WaitBackoff, StoppedExit, LoopStop, ReleaseSupervisor, AwaitTimeout, StoppedTimeout,
            MainRuns, GoroutinesRun, RuntimeMishap, KillRuntime, InterruptRuntime, StartManually,
            others, supOnly, Rests, ControlStop, WaitTimeout, CtlRuns, CtlProbes, CtlProbeEnds,
            SignalSupervisorStop, CtlRuntimeProbe, CtlGoes
  <2>2. \A p \in Runtimes : ~rt[p].db
    BY <1>1, <2>1, SupervisorAssumption DEF IInv, LocalInv, Sound, OwnerInv, Holding
  <2>3. \A p \in Runtimes : MayWrite(p) /\ rt[p].seen => rt[p].parent \notin Supervisors
    BY <1>1, <2>1 DEF IInv, ControlInv, MayWrite, Gone
  <2> QED BY <2>2, <2>3
<1>2. IInv /\ [Next]_vars =>
        [ctl' = "ok" /\ ctl # "ok" =>
           \A p \in Runtimes : ~rt[p].db /\ (MayWrite(p) /\ rt[p].seen => rt[p].parent \notin Supervisors)]_vars
  BY <1>1
<1> QED BY <1>2, Invariant, PTL DEF Spec, StopMeansQuiet

-----------------------------------------------------------------------------
(* The delays.                                                             *)

\* Of the numbers at which a claim fails one is the least.
LEMMA Least ==
  ASSUME NEW S \in SUBSET Nat, S # {}
  PROVE  \E m \in S : \A k \in S : m <= k
<1>1. PICK m \in S : \A k \in S : ~(<<k, m>> \in OpToRel(<, Nat))
  BY NatLessThanWellFounded, WFMin
<1>2. \A k \in S : ~(k < m)
  BY <1>1 DEF OpToRel
<1> QED BY <1>2

IsDoubled(f, n) == f = [k \in 0..n |-> IF k = 0 THEN InitialDelay ELSE 2 * f[k - 1]]

LEMMA DoubledExists == \A n \in Nat : \E f : IsDoubled(f, n)
<1> DEFINE Bad == {n \in Nat : ~\E f : IsDoubled(f, n)}
<1>1. SUFFICES ASSUME Bad # {} PROVE FALSE
  OBVIOUS
<1>2. PICK m \in Bad : \A k \in Bad : m <= k
  BY <1>1, Least
<1>3. m # 0
  <2>1. IsDoubled([k \in 0..0 |-> InitialDelay], 0)
    BY DEF IsDoubled
  <2> QED BY <1>2, <2>1
<1>4. PICK g : IsDoubled(g, m - 1)
  BY <1>2, <1>3
<1> DEFINE h == [k \in 0..m |-> IF k = m THEN 2 * g[m - 1] ELSE g[k]]
<1>5. /\ \A k \in 0..m : h[k] = IF k = m THEN 2 * g[m - 1] ELSE g[k]
      /\ \A k \in 0..(m - 1) : g[k] = IF k = 0 THEN InitialDelay ELSE 2 * g[k - 1]
      /\ h = [k \in 0..m |-> h[k]]
  BY <1>4, Zenon DEF IsDoubled
<1> HIDE DEF h
<1>6. \A k \in 0..m : h[k] = IF k = 0 THEN InitialDelay ELSE 2 * h[k - 1]
  <2> TAKE k \in 0..m
  <2>1. CASE k = m
    BY <1>2, <1>3, <1>5, <2>1
  <2>2. CASE k # m
    BY <1>2, <1>3, <1>5, <2>2
  <2> QED BY <2>1, <2>2
<1>7. IsDoubled(h, m)
  BY <1>5, <1>6, Zenon DEF IsDoubled
<1> QED BY <1>2, <1>7

\* A delay doubled n times is greater than n.
LEMMA Doubles ==
  /\ Doubled[0] = InitialDelay
  /\ \A n \in 1..MaxDelay : Doubled[n] = 2 * Doubled[n - 1]
  /\ \A n \in 0..MaxDelay : Doubled[n] \in Nat /\ n < Doubled[n]
<1>1. \E f : IsDoubled(f, MaxDelay)
  BY DoubledExists, SupervisorAssumption
<1>2. IsDoubled(Doubled, MaxDelay)
  BY <1>1, Zenon DEF Doubled, IsDoubled
<1>3. \A n \in 0..MaxDelay : Doubled[n] = IF n = 0 THEN InitialDelay ELSE 2 * Doubled[n - 1]
  BY <1>2, Zenon DEF IsDoubled
<1>4. \A n \in 0..MaxDelay : Doubled[n] \in Nat /\ n < Doubled[n]
  <2> DEFINE Bad == {n \in Nat : n \in 0..MaxDelay /\ ~(Doubled[n] \in Nat /\ n < Doubled[n])}
  <2>1. SUFFICES ASSUME Bad # {} PROVE FALSE
    OBVIOUS
  <2>2. PICK m \in Bad : \A k \in Bad : m <= k
    BY <2>1, Least
  <2>3. m # 0
    BY <1>3, <2>2, SupervisorAssumption
  <2>4. m - 1 \in 0..MaxDelay /\ m - 1 \in Nat /\ m - 1 \notin Bad
    BY <2>2, <2>3, SupervisorAssumption
  <2>5. Doubled[m - 1] \in Nat /\ m - 1 < Doubled[m - 1] /\ Doubled[m] = 2 * Doubled[m - 1]
    BY <1>3, <2>2, <2>3, <2>4
  <2> HIDE DEF Bad
  <2>6. m \in Nat /\ m < Doubled[m] /\ Doubled[m] \in Nat
    BY <2>2, <2>3, <2>5 DEF Bad
  <2> QED BY <2>2, <2>6 DEF Bad
<1> QED BY <1>3, <1>4, SupervisorAssumption

\* The delay under way and the next one, of a supervisor that has failed so often.
Backed(t) ==
  /\ t.fails \in 0..(MaxDelay + 1)
  /\ t.next = IF t.fails = 0 THEN InitialDelay ELSE Lesser(MaxDelay, 2 * Doubled[t.fails - 1])
  /\ t.pc = "backoff" => t.fails > 0 /\ t.delay = Lesser(MaxDelay, Doubled[t.fails - 1])

DelayInv == \A s \in Supervisors : Backed(sup[s])

LEMMA DelayedBacks ==
  ASSUME NEW t \in SupState, NEW stable \in BOOLEAN, Backed(t)
  PROVE  Backed(Delayed(t, stable))
<1> DEFINE delay == IF stable THEN InitialDelay ELSE t.next
           doubled == delay * 2
           next == IF doubled < delay \/ doubled > MaxDelay THEN MaxDelay ELSE doubled
           fails == IF stable THEN 1 ELSE Lesser(t.fails + 1, MaxDelay + 1)
<1>1. /\ InitialDelay \in 1..MaxDelay /\ MaxDelay \in Nat
      /\ t.fails \in 0..(MaxDelay + 1)
      /\ t.next = IF t.fails = 0 THEN InitialDelay ELSE Lesser(MaxDelay, 2 * Doubled[t.fails - 1])
  BY SupervisorAssumption DEF Backed
<1>2. fails \in 1..(MaxDelay + 1) /\ delay = Lesser(MaxDelay, Doubled[fails - 1])
  <2>1. CASE stable
    BY <1>1, <2>1, Doubles DEF Lesser
  <2>2. CASE ~stable /\ t.fails = 0
    BY <1>1, <2>2, Doubles DEF Lesser
  <2>3. CASE ~stable /\ t.fails \in 1..MaxDelay
    <3>1. fails = t.fails + 1 /\ fails - 1 = t.fails
      BY <1>1, <2>3 DEF Lesser
    <3>2. Doubled[t.fails] = 2 * Doubled[t.fails - 1]
      BY <2>3, Doubles
    <3> QED BY <1>1, <2>3, <3>1, <3>2
  <2>4. CASE ~stable /\ t.fails = MaxDelay + 1
    <3>1. fails = MaxDelay + 1 /\ fails - 1 = MaxDelay /\ t.fails - 1 = MaxDelay
      BY <1>1, <2>4 DEF Lesser
    <3>2. Doubled[MaxDelay] \in Nat /\ MaxDelay < Doubled[MaxDelay]
      BY <1>1, Doubles
    <3>3. delay = MaxDelay
      BY <1>1, <2>4, <3>1, <3>2 DEF Lesser
    <3> QED BY <1>1, <3>1, <3>2, <3>3 DEF Lesser
  <2> QED BY <1>1, <2>1, <2>2, <2>3, <2>4
<1>3. next = Lesser(MaxDelay, 2 * Doubled[fails - 1])
  <2>1. fails - 1 \in 0..MaxDelay
    BY <1>1, <1>2
  <2>2. Doubled[fails - 1] \in Nat /\ Doubled[fails - 1] > 0
    BY <1>1, <2>1, Doubles
  <2> HIDE DEF fails, delay
  <2> QED BY <1>1, <1>2, <2>2 DEF Lesser
<1>4. Delayed(t, stable) = [t EXCEPT !.pc = "backoff", !.child = Nobody, !.delay = delay,
                                     !.next = next, !.fails = fails]
  BY DEF Delayed, SupState
<1> HIDE DEF delay, next, fails
<1>5. /\ Delayed(t, stable).pc = "backoff" /\ Delayed(t, stable).delay = delay
      /\ Delayed(t, stable).next = next /\ Delayed(t, stable).fails = fails
  BY <1>4 DEF SupState
<1> QED BY <1>1, <1>2, <1>3, <1>5 DEF Backed

\* Every step leaves a supervisor's delays as they are, backs off or begins anew.
LEMMA DelaysKept ==
  ASSUME IInv, DelayInv, [Next]_vars
  PROVE  DelayInv'
<1>1. \A s \in Supervisors : sup[s] \in SupState /\ Backed(sup[s])
  BY DEF IInv, TypeInv, DelayInv
<1>2. sup \in [Supervisors -> SupState] /\ Backed(Off)
  BY SupervisorAssumption DEF IInv, TypeInv, Backed, Off
<1>3. ASSUME NEW s \in Supervisors, NEW t, sup' = [sup EXCEPT ![s] = t], Backed(t)
      PROVE  DelayInv'
  BY <1>1, <1>2, <1>3 DEF DelayInv
<1>4. ASSUME NEW s \in Supervisors, NEW t, sup' = [sup EXCEPT ![s] = t],
             t.fails = sup[s].fails, t.next = sup[s].next, t.pc # "backoff"
      PROVE  DelayInv'
  <2>1. Backed(t)
    BY <1>1, <1>4 DEF Backed
  <2> QED BY <1>3, <1>4, <2>1
<1>5. ASSUME NEW s \in Supervisors, NEW stable \in BOOLEAN, Backs(s, stable) PROVE DelayInv'
  BY <1>1, <1>3, <1>5, DelayedBacks DEF Backs
<1>6. ASSUME NEW s \in Supervisors, NEW l, Moves(s, l), l # "backoff" PROVE DelayInv'
  <2>1. sup' = [sup EXCEPT ![s] = [sup[s] EXCEPT !.pc = l]]
    BY <1>2, <1>6 DEF Moves
  <2>2. LET t == [sup[s] EXCEPT !.pc = l]
        IN  t.fails = sup[s].fails /\ t.next = sup[s].next /\ t.pc # "backoff"
    BY <1>1, <1>6 DEF SupState
  <2> QED BY <1>4, <2>1, <2>2
<1>7. ASSUME NEW s \in Supervisors,
             StartSupervisor(s) \/ KillSupervisor(s) \/ ReleaseSupervisor(s)
      PROVE  DelayInv'
  <2>1. Backed([Off EXCEPT !.pc = "acquire"])
    BY <1>2 DEF Backed, Off
  <2> QED BY <1>2, <1>3, <1>7, <2>1 DEF StartSupervisor, KillSupervisor, ReleaseSupervisor
<1>8. ASSUME NEW s \in Supervisors, WatchStopEvent(s) \/ Interrupt(s) PROVE DelayInv'
  <2>1. sup' = [sup EXCEPT ![s] = [sup[s] EXCEPT !.stop = TRUE]]
    BY <1>8 DEF WatchStopEvent, Interrupt
  <2>2. Backed([sup[s] EXCEPT !.stop = TRUE])
    BY <1>1 DEF Backed, SupState
  <2> QED BY <1>3, <2>1, <2>2
<1>9. ASSUME NEW s \in Supervisors,
             \/ CreateEvent(s) \/ ResetEvent(s) \/ ProbeBegins(s) \/ ProbeEnds(s) \/ WaitProbe(s)
             \/ AwaitReady(s) \/ AwaitAlreadyRunning(s) \/ OwnStop(s) \/ LoopStop(s)
      PROVE  DelayInv'
  <2>1. \E l : Moves(s, l) /\ l # "backoff"
    BY <1>9 DEF CreateEvent, ResetEvent, ProbeBegins, ProbeEnds, WaitProbe, AwaitReady,
                AwaitAlreadyRunning, OwnStop, LoopStop
  <2> QED BY <1>6, <2>1
<1>10. ASSUME NEW s \in Supervisors, AcquireSupervisorOwnership(s) PROVE DelayInv'
  BY <1>2, <1>3, <1>6, <1>10 DEF AcquireSupervisorOwnership
<1>11. ASSUME NEW s \in Supervisors, AwaitExit(s) \/ AwaitTimeout(s) \/ OwnExit(s)
       PROVE  DelayInv'
  BY <1>5, <1>11 DEF AwaitExit, AwaitTimeout, OwnExit
<1>12. ASSUME NEW s \in Supervisors,
              StartRuntime(s) \/ AwaitStop(s) \/ Reap(s) \/ StoppedExit(s) \/ StoppedTimeout(s)
       PROVE  DelayInv'
  <2>1. PICK l, c : /\ l # "backoff"
                    /\ sup' = [sup EXCEPT ![s].pc = l, ![s].child = c]
    BY <1>12 DEF StartRuntime, AwaitStop, Reap, StoppedExit, StoppedTimeout
  <2>2. sup' = [sup EXCEPT ![s] = [sup[s] EXCEPT !.pc = l, !.child = c]]
    BY <1>2, <2>1
  <2>3. LET t == [sup[s] EXCEPT !.pc = l, !.child = c]
        IN  t.fails = sup[s].fails /\ t.next = sup[s].next /\ t.pc # "backoff"
    BY <1>1, <2>1 DEF SupState
  <2> QED BY <1>4, <2>2, <2>3
<1>13. ASSUME NEW s \in Supervisors, WaitBackoff(s) PROVE DelayInv'
  <2>0. PICK l : l = IF sup[s].stop THEN "release" ELSE "loop"
    OBVIOUS
  <2>1. l # "backoff" /\ sup' = [sup EXCEPT ![s].pc = l, ![s].delay = 0]
    BY <1>13, <2>0 DEF WaitBackoff
  <2>2. sup' = [sup EXCEPT ![s] = [sup[s] EXCEPT !.pc = l, !.delay = 0]]
    BY <1>2, <2>1
  <2>3. LET t == [sup[s] EXCEPT !.pc = l, !.delay = 0]
        IN  t.fails = sup[s].fails /\ t.next = sup[s].next /\ t.pc # "backoff"
    BY <1>1, <2>1 DEF SupState
  <2> QED BY <1>4, <2>2, <2>3
<1>14. CASE UNCHANGED sup
  BY <1>14 DEF DelayInv
<1>15. CASE \E p \in Runtimes : \/ MainRuns(p) \/ GoroutinesRun(p) \/ RuntimeMishap(p)
                                \/ KillRuntime(p) \/ InterruptRuntime(p)
  BY <1>14, <1>15 DEF MainRuns, GoroutinesRun, RuntimeMishap, KillRuntime, InterruptRuntime, others
<1>16. CASE StartManually \/ ControlStop \/ CtlRuns \/ WaitTimeout \/ Rests \/ UNCHANGED vars
  BY <1>14, <1>16 DEF StartManually, ControlStop, CtlRuns, WaitTimeout, Rests, vars, ctlOnly,
                      CtlProbes, CtlProbeEnds, SignalSupervisorStop, CtlRuntimeProbe
<1> QED BY <1>7, <1>8, <1>9, <1>10, <1>11, <1>12, <1>13, <1>15, <1>16 DEF Next, Loop, Overdue

\* Restarts back off: each delay is the double of the one before, up to the greatest,
\* whatever happens between two exits, until a run was stable.
THEOREM DelaysDouble == Spec => []RestartsBackOff
<1>1. Init => DelayInv
  BY SupervisorAssumption DEF Init, DelayInv, Backed, Off
<1>2. IInv /\ DelayInv /\ [Next]_vars => DelayInv'
  BY DelaysKept
<1>3. DelayInv => RestartsBackOff
  BY DEF DelayInv, Backed, RestartsBackOff, Is
<1> QED BY <1>1, <1>2, <1>3, Invariant, PTL DEF Spec
=============================================================================
