----------------------------- MODULE Supervisor -----------------------------
(***************************************************************************)
(* Who keeps a runtime alive: the supervisor (Supervisor.Run), which       *)
(* probes for a runtime, starts one of its own, restarts it with a growing *)
(* delay and stops it when it is itself stopped, and "control stop", the   *)
(* command that asks for that and answers whether the database is quiet.   *)
(*                                                                         *)
(* A probe takes the mutex for a moment, and whoever waits for it just     *)
(* then is told that somebody runs.  A killed supervisor leaves its        *)
(* runtime behind: the end of stdin is not a STOP.                         *)
(***************************************************************************)
EXTENDS Runtime, FiniteSets

CONSTANTS Supervisors,
          InitialDelay, MaxDelay,   \* RestartPolicy
          MaxStarts,                \* bound: supervisors started
          MaxMishaps                \* bound: kills, failures, missed deadlines, manual starts

Control == "control"
Nobody == "nobody"

ASSUME SupervisorAssumption ==
  /\ Supervisors \cap Runtimes = {} /\ Free \notin Supervisors \cup Runtimes
  /\ {Control, Nobody, "orphan", "user"} \cap (Supervisors \cup Runtimes \cup {Free}) = {}
  /\ {InitialDelay, MaxDelay, MaxStarts, MaxMishaps} \subseteq Nat
  /\ InitialDelay \in 1..MaxDelay

VARIABLES
  sup,       \* supervisor -> its state
  supOwner,  \* holder of the supervisor mutex of the database
  event,     \* the named stop event: who has it open, whether it is set
  ctl,       \* the control stop command
  starts, mishaps

vars == <<rt, owner, sup, supOwner, event, ctl, starts, mishaps>>

\* stop: runCtx is cancelled.  next: RestartBackoff.next.  delay: the wait under way.
\* fails: exits and failed starts since the last stable run (for the properties).
Off == [pc |-> "off", stop |-> FALSE, child |-> Nobody, next |-> InitialDelay,
        delay |-> 0, fails |-> 0]

Is(s, l) == sup[s].pc = l
Moves(s, l) == sup' = [sup EXCEPT ![s].pc = l]
Lesser(a, b) == IF a < b THEN a ELSE b

rest == UNCHANGED <<starts, mishaps>>
supOnly == UNCHANGED <<rt, owner, supOwner, event, ctl>> /\ rest

-----------------------------------------------------------------------------
(* The start of a supervisor.                                              *)

StartSupervisor(s) ==
  /\ Is(s, "off") /\ starts < MaxStarts
  /\ sup' = [sup EXCEPT ![s] = [Off EXCEPT !.pc = "acquire"]]
  /\ starts' = starts + 1
  /\ UNCHANGED <<rt, owner, supOwner, event, ctl, mishaps>>

AcquireSupervisorOwnership(s) ==
  /\ Is(s, "acquire")
  /\ \/ supOwner = Free /\ supOwner' = s /\ Moves(s, "create")
     \/ supOwner # Free /\ sup' = [sup EXCEPT ![s] = Off] /\ UNCHANGED supOwner
  /\ UNCHANGED <<rt, owner, event, ctl>> /\ rest

\* OpenSupervisorStopEvent: create or open, then reset.
CreateEvent(s) ==
  /\ Is(s, "create")
  /\ event' = [event EXCEPT !.open = @ \cup {s}]
  /\ Moves(s, "reset")
  /\ UNCHANGED <<rt, owner, supOwner, ctl>> /\ rest

ResetEvent(s) ==
  /\ Is(s, "reset")
  /\ event' = [event EXCEPT !.set = FALSE]
  /\ Moves(s, "loop")
  /\ UNCHANGED <<rt, owner, supOwner, ctl>> /\ rest

Started(s) == sup[s].pc \notin {"off", "acquire", "create", "reset", "release"}

\* The watcher of the event; STOP on stdin or an interrupt.
WatchStopEvent(s) ==
  /\ Started(s) /\ event.set /\ ~sup[s].stop
  /\ sup' = [sup EXCEPT ![s].stop = TRUE]
  /\ supOnly

Interrupt(s) ==
  /\ Started(s) /\ ~sup[s].stop
  /\ mishaps < MaxMishaps /\ mishaps' = mishaps + 1
  /\ sup' = [sup EXCEPT ![s].stop = TRUE]
  /\ UNCHANGED <<rt, owner, supOwner, event, ctl, starts>>

-----------------------------------------------------------------------------
(* The loop.                                                               *)

\* ProbeRuntimePresence, at the top of the loop with no runtime of its own.
ProbeBegins(s) ==
  /\ Is(s, "loop") /\ ~sup[s].stop
  /\ \/ owner # Free /\ Moves(s, "present") /\ UNCHANGED owner
     \/ owner = Free /\ owner' = s /\ Moves(s, "probe")
  /\ UNCHANGED <<rt, supOwner, event, ctl>> /\ rest

ProbeEnds(s) ==
  /\ Is(s, "probe") /\ owner' = Free /\ Moves(s, "start")
  /\ UNCHANGED <<rt, supOwner, event, ctl>> /\ rest

\* Mutant: a runtime found once is taken to stay.
WaitProbe_Once(s) ==
  /\ Is(s, "present") /\ Moves(s, IF sup[s].stop THEN "release" ELSE "present")
  /\ supOnly

\* waitContext with the probe interval.
WaitProbe(s) ==
  /\ Is(s, "present")
  /\ Moves(s, IF sup[s].stop THEN "release" ELSE "loop")
  /\ supOnly

\* A new process takes the place of one that is gone and no longer waited for.
Unused == {p \in Runtimes : ~Alive(p) /\ \A t \in Supervisors : sup[t].child # p}

StartRuntime(s) ==
  /\ Is(s, "start")
  /\ Unused # {}
  /\ LET p == CHOOSE q \in Unused : TRUE
     IN Birth(p, s) /\ sup' = [sup EXCEPT ![s].pc = "await", ![s].child = p]
  /\ UNCHANGED <<owner, supOwner, event, ctl>> /\ rest

Kill(p) == IF Alive(p) THEN Death(p) ELSE UNCHANGED rtVars

\* Mutant: an exit puts the delay back, however short the run was.
Delayed_Reset(state, stable) ==
  [state EXCEPT !.pc = "backoff", !.child = Nobody, !.delay = InitialDelay,
                !.next = Lesser(2 * InitialDelay, MaxDelay),
                !.fails = IF stable THEN 1 ELSE Lesser(@ + 1, MaxDelay + 1)]

\* RestartBackoff.NextDelay, after a start that failed or a run that ended.
Delayed(state, stable) ==
  LET delay == IF stable THEN InitialDelay ELSE state.next
      doubled == delay * 2
  IN [state EXCEPT !.pc = "backoff", !.child = Nobody, !.delay = delay,
                   !.next = IF doubled < delay \/ doubled > MaxDelay THEN MaxDelay ELSE doubled,
                   !.fails = IF stable THEN 1 ELSE Lesser(@ + 1, MaxDelay + 1)]

Backs(s, stable) == sup' = [sup EXCEPT ![s] = Delayed(sup[s], stable)]

AwaitReady(s) ==
  /\ Is(s, "await") /\ rt[sup[s].child].said = "ready"
  /\ Moves(s, "own")
  /\ supOnly

AwaitAlreadyRunning(s) ==
  /\ Is(s, "await") /\ rt[sup[s].child].said = "already"
  /\ Moves(s, "reap")
  /\ supOnly

\* Its exit, or the end of its output, may be seen before what it said.
AwaitExit(s) ==
  /\ Is(s, "await") /\ rt[sup[s].child].pc \in {"exiting", "dead"}
  /\ Backs(s, FALSE)
  /\ supOnly

AwaitTimeout(s) ==
  /\ Is(s, "await")
  /\ mishaps < MaxMishaps /\ mishaps' = mishaps + 1
  /\ Kill(sup[s].child) /\ Backs(s, FALSE)
  /\ UNCHANGED <<supOwner, event, ctl, starts>>

\* Mutant: the start is given up and the child forgotten.
AwaitStop_Forgets(s) ==
  /\ Is(s, "await") /\ sup[s].stop
  /\ sup' = [sup EXCEPT ![s].pc = "release", ![s].child = Nobody]
  /\ supOnly

AwaitStop(s) ==
  /\ Is(s, "await") /\ sup[s].stop
  /\ Kill(sup[s].child)
  /\ sup' = [sup EXCEPT ![s].pc = "release", ![s].child = Nobody]
  /\ UNCHANGED <<supOwner, event, ctl>> /\ rest

\* candidate.wait, then the loop again with no delay.
Reap(s) ==
  /\ Is(s, "reap") /\ ~Alive(sup[s].child)
  /\ sup' = [sup EXCEPT ![s].pc = "loop", ![s].child = Nobody]
  /\ supOnly

\* Mutant: the wait for the child's exit does not listen to the stop.
OwnStop_Deaf(s) == FALSE

\* stopOwnedRuntime: STOP, then the wait.
OwnStop(s) ==
  /\ Is(s, "own") /\ sup[s].stop
  /\ rt' = [rt EXCEPT ![sup[s].child].stop = TRUE]
  /\ Moves(s, "stopping")
  /\ UNCHANGED <<owner, supOwner, event, ctl>> /\ rest

OwnExit(s) ==
  /\ Is(s, "own") /\ ~Alive(sup[s].child)
  /\ \E stable \in BOOLEAN : Backs(s, stable)
  /\ supOnly

WaitBackoff(s) ==
  /\ Is(s, "backoff")
  /\ sup' = [sup EXCEPT ![s].pc = IF sup[s].stop THEN "release" ELSE "loop", ![s].delay = 0]
  /\ supOnly

StoppedExit(s) ==
  /\ Is(s, "stopping") /\ ~Alive(sup[s].child)
  /\ sup' = [sup EXCEPT ![s].pc = "release", ![s].child = Nobody]
  /\ supOnly

\* The deadline is five seconds and the runtime's own last flush may take thirty.
StoppedTimeout(s) ==
  /\ Is(s, "stopping")
  /\ mishaps < MaxMishaps /\ mishaps' = mishaps + 1
  /\ Kill(sup[s].child)
  /\ sup' = [sup EXCEPT ![s].pc = "release", ![s].child = Nobody]
  /\ UNCHANGED <<supOwner, event, ctl, starts>>

LoopStop(s) == Is(s, "loop") /\ sup[s].stop /\ Moves(s, "release") /\ supOnly

\* The event closes with its last handle; then the mutex is released.
Closed(s) == [open |-> event.open \ {s}, set |-> event.set /\ event.open # {s}]

ReleaseSupervisor(s) ==
  /\ Is(s, "release")
  /\ event' = Closed(s) /\ supOwner' = Free
  /\ sup' = [sup EXCEPT ![s] = Off]
  /\ UNCHANGED <<rt, owner, ctl>> /\ rest

Loop(s) ==
  \/ AcquireSupervisorOwnership(s) \/ CreateEvent(s) \/ ResetEvent(s)
  \/ ProbeBegins(s) \/ ProbeEnds(s) \/ WaitProbe(s) \/ StartRuntime(s)
  \/ AwaitReady(s) \/ AwaitAlreadyRunning(s) \/ AwaitExit(s) \/ AwaitStop(s) \/ Reap(s)
  \/ OwnStop(s) \/ OwnExit(s) \/ WaitBackoff(s) \/ StoppedExit(s) \/ LoopStop(s) \/ ReleaseSupervisor(s)

Overdue(s) == AwaitTimeout(s) \/ StoppedTimeout(s)

-----------------------------------------------------------------------------
(* control stop.                                                           *)

CtlGoes(l) == ctl' = l
ctlOnly == UNCHANGED <<sup, event>> /\ rest

\* Every runtime alive now is marked, to be asked after at the end.
ControlStop ==
  /\ ctl = "idle"
  /\ CtlGoes("probe")
  /\ rt' = [p \in Runtimes |-> [rt[p] EXCEPT !.seen = Alive(p)]]
  /\ ctlOnly /\ UNCHANGED <<owner, supOwner>>

\* ProbeSupervisorPresence, before the signal, after it failed, and while waiting.
CtlProbes(from, present, absent) ==
  /\ ctlOnly /\ UNCHANGED rtVars
  /\ \/ ctl = from /\ supOwner # Free /\ CtlGoes(present) /\ UNCHANGED supOwner
     \/ ctl = from /\ supOwner = Free /\ supOwner' = Control /\ CtlGoes(absent)

CtlProbeEnds(from, to) ==
  /\ ctl = from /\ supOwner' = Free /\ CtlGoes(to)
  /\ ctlOnly /\ UNCHANGED rtVars

\* The event can only be opened if a supervisor has it open.
SignalSupervisorStop ==
  /\ ctl = "signal"
  /\ \/ event.open # {} /\ event' = [event EXCEPT !.set = TRUE] /\ CtlGoes("wait")
     \/ event.open = {} /\ CtlGoes("again") /\ UNCHANGED event
  /\ UNCHANGED <<rt, owner, sup, supOwner>> /\ rest

WaitTimeout == ctl = "wait" /\ CtlGoes("failed") /\ ctlOnly /\ UNCHANGED <<rt, owner, supOwner>>

\* Mutant: the supervisor's absence is the answer.
CtlRuntimeProbe_Skipped ==
  /\ ctl = "runtime" /\ CtlGoes("ok")
  /\ ctlOnly /\ UNCHANGED <<rt, owner, supOwner>>

\* controlStatusAfterSupervisorStop: an active runtime is an error.
CtlRuntimeProbe ==
  /\ ctlOnly /\ UNCHANGED <<rt, supOwner>>
  /\ \/ ctl = "runtime" /\ owner # Free /\ CtlGoes("failed") /\ UNCHANGED owner
     \/ ctl = "runtime" /\ owner = Free /\ owner' = Control /\ CtlGoes("quiet")
     \/ ctl = "quiet" /\ owner' = Free /\ CtlGoes("ok")

CtlRuns ==
  \/ CtlProbes("probe", "signal", "absent") \/ CtlProbeEnds("absent", "runtime")
  \/ SignalSupervisorStop
  \/ CtlProbes("again", "failed", "gone") \/ CtlProbeEnds("gone", "wait")
  \/ CtlProbes("wait", "wait", "absent")
  \/ CtlRuntimeProbe

-----------------------------------------------------------------------------
(* What the system does to them.                                           *)

\* A supervisor dies; its runtime goes on without it.
KillSupervisor(s) ==
  /\ ~Is(s, "off")
  /\ mishaps < MaxMishaps /\ mishaps' = mishaps + 1
  /\ sup' = [sup EXCEPT ![s] = Off]
  /\ supOwner' = IF supOwner = s THEN Free ELSE supOwner
  /\ owner' = IF owner = s THEN Free ELSE owner
  /\ event' = Closed(s)
  /\ rt' = [p \in Runtimes |-> IF rt[p].parent = s THEN [rt[p] EXCEPT !.parent = "orphan"] ELSE rt[p]]
  /\ UNCHANGED <<ctl, starts>>

KillRuntime(p) ==
  /\ Alive(p) /\ mishaps < MaxMishaps /\ mishaps' = mishaps + 1
  /\ Death(p)
  /\ UNCHANGED <<sup, supOwner, event, ctl, starts>>

StartManually ==
  /\ Unused # {}
  /\ mishaps < MaxMishaps /\ mishaps' = mishaps + 1
  /\ Birth(CHOOSE q \in Unused : TRUE, "user")
  /\ UNCHANGED <<owner, sup, supOwner, event, ctl, starts>>

InterruptRuntime(p) ==
  /\ Alive(p) /\ ~rt[p].stop /\ mishaps < MaxMishaps /\ mishaps' = mishaps + 1
  /\ rt' = [rt EXCEPT ![p].stop = TRUE]
  /\ UNCHANGED <<owner, sup, supOwner, event, ctl, starts>>

RuntimeMishap(p) ==
  /\ mishaps < MaxMishaps /\ mishaps' = mishaps + 1
  /\ Mishap(p)
  /\ UNCHANGED <<sup, supOwner, event, ctl, starts>>

others == UNCHANGED <<sup, supOwner, event, ctl, starts, mishaps>>
MainRuns(p) == Main(p) /\ others
GoroutinesRun(p) == Goroutines(p) /\ others

Init ==
  /\ rt = [p \in Runtimes |-> NotBorn] /\ owner = Free
  /\ sup = [s \in Supervisors |-> Off] /\ supOwner = Free
  /\ event = [open |-> {}, set |-> FALSE] /\ ctl = "idle"
  /\ starts = 0 /\ mishaps = 0

\* The system rests when nobody has anything left to do.
Rests ==
  /\ \A s \in Supervisors : sup[s].pc \in {"off", "own"}
  /\ \A p \in Runtimes : rt[p].pc = "dead" \/ rt[p].pc = "low" \/ rt[p].pc = "select"
  /\ UNCHANGED vars

Next ==
  \/ \E s \in Supervisors :
       \/ StartSupervisor(s) \/ Loop(s) \/ Overdue(s)
       \/ WatchStopEvent(s) \/ Interrupt(s) \/ KillSupervisor(s)
  \/ \E p \in Runtimes :
       \/ MainRuns(p) \/ GoroutinesRun(p) \/ RuntimeMishap(p)
       \/ KillRuntime(p) \/ InterruptRuntime(p)
  \/ StartManually \/ ControlStop \/ CtlRuns \/ WaitTimeout
  \/ Rests

Spec == Init /\ [][Next]_vars

\* Every process runs on.  A cancelled collector ends its run (Runner!RunEnds).
\* Nothing makes a supervisor start, a process die or a deadline pass.
FairSpec ==
  /\ Spec
  /\ \A s \in Supervisors : WF_vars(Loop(s)) /\ WF_vars(WatchStopEvent(s))
  /\ \A p \in Runtimes :
       /\ WF_vars(MainRuns(p))
       /\ WF_vars(SchedulerLeaves(p) /\ others) /\ WF_vars(CollectorLeaves(p) /\ others)
  /\ WF_vars(CtlRuns)

-----------------------------------------------------------------------------
(* Properties.                                                             *)

\* The types of the processes' shared state.
TypeOK ==
  /\ DOMAIN rt = Runtimes /\ DOMAIN sup = Supervisors
  /\ owner \in Runtimes \cup Supervisors \cup {Control, Free}
  /\ supOwner \in Supervisors \cup {Control, Free}
  /\ event.open \subseteq Supervisors
  /\ \A s \in Supervisors : sup[s].child \in Runtimes \cup {Nobody} /\ sup[s].next \in 1..MaxDelay

\* One writer: whoever has the database open holds its mutex, from before the open
\* to after the close, through every kill, probe and orphan.
OneAuthority == \A p \in Runtimes : rt[p].db => owner = p

\* The last flush and the checkpoint run over a journal nobody writes.
FlushAlone ==
  \A p \in Runtimes :
    rt[p].pc \in Ending => rt[p].col = "gone" /\ rt[p].sch = "gone"

\* A runtime whose collector stopped for the disk's sake writes nothing more once
\* its scheduler is joined, whichever way it was stopped.
QuiescentAfterTrip ==
  \A p \in Runtimes : rt[p].trip /\ rt[p].sch = "gone" => ~MayBeWriting(p)

\* A supervisor that ended, and was not killed, left no runtime of its own behind
\* that has, or may yet take, the database.
NoChildLeft ==
  \A s \in Supervisors :
    Is(s, "off") => \A p \in Runtimes : rt[p].parent = s => ~MayWrite(p)

\* The first delay, doubled n times.
Doubled[n \in 0..MaxDelay] == IF n = 0 THEN InitialDelay ELSE 2 * Doubled[n - 1]

\* Each delay is the double of the one before, up to the greatest, until a run
\* was stable.
RestartsBackOff ==
  \A s \in Supervisors :
    Is(s, "backoff") => sup[s].delay = Lesser(MaxDelay, Doubled[sup[s].fails - 1])

\* control stop succeeds only when nobody has the database open, and no runtime
\* that was a supervisor's when it began has, or may yet take, the database.
StopMeansQuiet ==
  [][ctl' = "ok" /\ ctl # "ok" =>
       \A p \in Runtimes : ~rt[p].db /\ (MayWrite(p) /\ rt[p].seen => rt[p].parent \notin Supervisors)]_vars

InCharge(s) == Started(s) /\ ~sup[s].stop

\* While a supervisor is in charge, some runtime serves, or soon does again.
RuntimeReturns ==
  \A s \in Supervisors : InCharge(s) ~> (~InCharge(s) \/ \E p \in Runtimes : Serves(p))

\* A supervisor asked to stop ends, its runtime first.
StopEnds == \A s \in Supervisors : sup[s].stop ~> Is(s, "off")

=============================================================================
