------------------------------ MODULE Settings ------------------------------
(***************************************************************************)
(* The three places that hold the settings: runtime.json, the credential   *)
(* of the controller and the scheduled task of the installed supervisor,   *)
(* and the commands that change them: "config apply", which puts back what *)
(* it changed when a later step fails, "install ensure-owner", which makes *)
(* the task follow the file, and the single commands.                      *)
(*                                                                         *)
(* The commands are processes without a lock between them.  Every call on  *)
(* a store is atomic (the file is renamed into place), may fail, and has   *)
(* then changed nothing.  A process may die between two calls.             *)
(***************************************************************************)
EXTENDS Naturals, FiniteSets

CONSTANTS Urls, Secrets,
          None,                   \* no file, no address, no credential
          MaxFailures,            \* bound: calls that fail, processes that die
          MaxCommands             \* bound: commands given

ASSUME SettingsAssumption ==
  None \notin Urls \cup Secrets /\ {MaxFailures, MaxCommands} \subseteq Nat

VARIABLES
  store,     \* file, secret, task
  apply,     \* config apply
  ensure,    \* install ensure-owner
  cli,       \* a single command
  layout,    \* the installed layout, where the task may be changed
  failures, commands

vars == <<store, apply, ensure, cli, layout, failures, commands>>

Config == [url : Urls \cup {None}, auto : BOOLEAN]
Stores == [file : Config \cup {None}, secret : Secrets \cup {None},
           task : {"none", "disabled", "enabled"}]

\* LoadConfig: no file is the default, with autostart.
Load(file) == IF file = None THEN [url |-> None, auto |-> TRUE] ELSE file

Saved(cfg) == [store EXCEPT !.file = cfg]
WithSecret(value) == [store EXCEPT !.secret = value]
WithTask(registered) == [store EXCEPT !.task = IF registered THEN "enabled" ELSE "none"]

\* A call on a store by one process: what the others have read may be stale now.
Touches(new) == store' = new
Alone(process) == [process EXCEPT !.alone = process.alone /\ store' = store]

Call(new) == Touches(new) /\ UNCHANGED failures
Fails == UNCHANGED store /\ failures < MaxFailures /\ failures' = failures + 1

-----------------------------------------------------------------------------
(* config apply: applyRuntimeSettings.                                     *)

Request == [url : Urls \cup {None}, action : {"keep", "replace", "clear"},
            secret : Secrets, auto : BOOLEAN]

Quiet == [pc |-> "idle", alone |-> TRUE]

autoChanged == apply.req.auto # apply.old.auto
secretChanged == apply.req.action # "keep"
taskChanges == autoChanged /\ layout

\* saved and incomplete are what the result says, failed whether there is an error.
Begin ==
  /\ apply.pc = "idle" /\ commands < MaxCommands /\ commands' = commands + 1
  /\ \E req \in Request :
       apply' = [pc |-> "load", alone |-> TRUE, req |-> req, before |-> store,
                 old |-> Load(None), existed |-> TRUE, oldSecret |-> None, oldTask |-> "none",
                 mutated |-> FALSE, saved |-> FALSE, incomplete |-> FALSE, failed |-> FALSE]
  /\ UNCHANGED <<store, ensure, cli, layout, failures>>

others == ensure' = Alone(ensure) /\ cli' = Alone(cli) /\ UNCHANGED <<layout, commands>>

Errs(next) == [apply EXCEPT !.pc = next, !.failed = TRUE]

ApplyLoad ==
  /\ apply.pc = "load"
  /\ \/ Call(store) /\ apply' = [apply EXCEPT !.pc = "oldSecret", !.old = Load(store.file),
                                              !.existed = store.file # None]
     \/ Fails /\ apply' = Errs("done")
  /\ others

\* The old credential is read only if it is to change, the old task likewise.
ReadOldSecret ==
  /\ apply.pc = "oldSecret"
  /\ \/ ~secretChanged /\ Call(store) /\ apply' = [apply EXCEPT !.pc = "oldTask"]
     \/ /\ secretChanged /\ Call(store)
        /\ apply' = [apply EXCEPT !.pc = "oldTask", !.oldSecret = store.secret]
     \/ secretChanged /\ Fails /\ apply' = Errs("done")
  /\ others

ReadOldTask ==
  /\ apply.pc = "oldTask"
  /\ \/ ~taskChanges /\ Call(store) /\ apply' = [apply EXCEPT !.pc = "secret"]
     \/ /\ taskChanges /\ Call(store)
        /\ apply' = [apply EXCEPT !.pc = "secret", !.oldTask = store.task]
     \/ taskChanges /\ Fails /\ apply' = Errs("done")
  /\ others

MutateSecret ==
  /\ apply.pc = "secret"
  /\ \/ ~secretChanged /\ Call(store) /\ apply' = [apply EXCEPT !.pc = "save"]
     \/ /\ secretChanged
        /\ Call(WithSecret(IF apply.req.action = "replace" THEN apply.req.secret ELSE None))
        /\ apply' = [apply EXCEPT !.pc = "save", !.mutated = TRUE]
     \/ secretChanged /\ Fails /\ apply' = Errs("done")
  /\ others

\* If the file cannot be saved only the credential is to be put back.
SaveConfig ==
  /\ apply.pc = "save"
  /\ \/ /\ Call(Saved([url |-> apply.req.url, auto |-> apply.req.auto]))
        /\ apply' = [apply EXCEPT !.pc = "task"]
     \/ Fails /\ apply' = Errs("onlySecret")
  /\ others

MutateTask ==
  /\ apply.pc = "task"
  /\ \/ ~taskChanges /\ Call(store) /\ apply' = [apply EXCEPT !.pc = "verify", !.saved = TRUE]
     \/ /\ taskChanges /\ Call(WithTask(apply.req.auto))
        /\ apply' = [apply EXCEPT !.pc = "verify", !.saved = TRUE]
     \/ taskChanges /\ Fails /\ apply' = Errs("rollFile")
  /\ others

\* The credential is read once more for the answer; saved stays as it is.
Verify ==
  /\ apply.pc = "verify"
  /\ \/ Call(store) /\ apply' = [apply EXCEPT !.pc = "done"]
     \/ Fails /\ apply' = Errs("rollFile")
  /\ others

Incomplete(next) == [apply EXCEPT !.pc = next, !.incomplete = TRUE]

\* Mutant: the old configuration is saved even where there was no file.
RollbackFile_Saves ==
  /\ apply.pc = "rollFile"
  /\ \/ Call(Saved(apply.old)) /\ apply' = [apply EXCEPT !.pc = "rollSecret"]
     \/ Fails /\ apply' = Incomplete("rollSecret")
  /\ others

\* rollbackConfigApply, each part whatever became of the others.
RollbackFile ==
  /\ apply.pc = "rollFile"
  /\ \/ /\ Call(Saved(IF apply.existed THEN apply.old ELSE None))
        /\ apply' = [apply EXCEPT !.pc = "rollSecret"]
     \/ Fails /\ apply' = Incomplete("rollSecret")
  /\ others

RestoreSecret ==
  /\ apply.pc \in {"onlySecret", "rollSecret"}
  /\ LET next == IF apply.pc = "onlySecret" THEN "done" ELSE "rollTask"
     IN \/ ~apply.mutated /\ Call(store) /\ apply' = [apply EXCEPT !.pc = next]
        \/ apply.mutated /\ Call(WithSecret(apply.oldSecret)) /\ apply' = [apply EXCEPT !.pc = next]
        \/ apply.mutated /\ Fails /\ apply' = Incomplete(next)
  /\ others

\* oldTask is "none" also when it was never read: then a task there is unregistered.
RollbackTask ==
  /\ apply.pc = "rollTask"
  /\ \/ ~layout /\ Call(store) /\ apply' = [apply EXCEPT !.pc = "done"]
     \/ layout /\ Call(WithTask(apply.oldTask # "none")) /\ apply' = [apply EXCEPT !.pc = "done"]
     \/ layout /\ Fails /\ apply' = Incomplete("done")
  /\ others

\* The process dies, or its answer has been read.
ApplyEnds ==
  /\ apply.pc # "idle"
  /\ \/ apply.pc = "done" /\ UNCHANGED failures
     \/ apply.pc # "done" /\ failures < MaxFailures /\ failures' = failures + 1
  /\ apply' = Quiet
  /\ UNCHANGED <<store, ensure, cli, layout, commands>>

Apply ==
  \/ Begin \/ ApplyLoad \/ ReadOldSecret \/ ReadOldTask \/ MutateSecret \/ SaveConfig \/ MutateTask
  \/ Verify \/ RollbackFile \/ RestoreSecret \/ RollbackTask \/ ApplyEnds

-----------------------------------------------------------------------------
(* install ensure-owner.                                                   *)

withEnsure == apply' = Alone(apply) /\ cli' = Alone(cli) /\ UNCHANGED layout

\* Outside an installed layout the command only answers.
EnsureOwner ==
  /\ ensure.pc \in {"idle", "done", "failed"} /\ layout
  /\ commands < MaxCommands /\ commands' = commands + 1
  /\ \/ Call(store) /\ ensure' = [pc |-> "reconcile", alone |-> TRUE, auto |-> Load(store.file).auto]
     \/ Fails /\ ensure' = [pc |-> "failed", alone |-> TRUE]
  /\ withEnsure

\* Register creates or updates; Unregister of no task is no error.
ReconcileOwner ==
  /\ ensure.pc = "reconcile"
  /\ \/ Call(WithTask(ensure.auto))
        /\ ensure' = [ensure EXCEPT !.pc = IF ensure.auto THEN "run" ELSE "done"]
     \/ Fails /\ ensure' = [ensure EXCEPT !.pc = "failed"]
  /\ withEnsure /\ UNCHANGED commands

\* The task is started, and the supervisor waited for (Supervisor).
RunOwner ==
  /\ ensure.pc = "run"
  /\ \/ store.task # "none" /\ Call(store) /\ ensure' = [ensure EXCEPT !.pc = "done"]
     \/ store.task = "none" /\ Call(store) /\ ensure' = [ensure EXCEPT !.pc = "failed"]
     \/ Fails /\ ensure' = [ensure EXCEPT !.pc = "failed"]
  /\ withEnsure /\ UNCHANGED commands

Ensure == EnsureOwner \/ ReconcileOwner \/ RunOwner

-----------------------------------------------------------------------------
(* The single commands; the two that change the file read it first.        *)

withCli == apply' = Alone(apply) /\ ensure' = Alone(ensure) /\ UNCHANGED layout
Given == commands < MaxCommands /\ commands' = commands + 1

SetControllerOrAutostart ==
  /\ cli.pc = "idle" /\ Given /\ Call(store)
  /\ LET cfg == Load(store.file)
     IN \/ \E url \in Urls :
             cli' = [pc |-> "save", alone |-> TRUE, cfg |-> [cfg EXCEPT !.url = url], task |-> FALSE]
        \/ \E auto \in BOOLEAN :
             cli' = [pc |-> "save", alone |-> TRUE, cfg |-> [cfg EXCEPT !.auto = auto], task |-> TRUE]
  /\ withCli

SaveSetting ==
  /\ cli.pc = "save"
  /\ \/ Call(Saved(cli.cfg)) /\ cli' = IF cli.task /\ layout THEN [cli EXCEPT !.pc = "task"] ELSE Quiet
     \/ Fails /\ cli' = Quiet
  /\ withCli /\ UNCHANGED commands

\* reconcileExistingInstalledOwner: the file keeps the setting if this fails.
ReconcileExistingOwner ==
  /\ cli.pc = "task" /\ cli' = Quiet
  /\ \/ Call(WithTask(cli.cfg.auto))
     \/ Fails
  /\ withCli /\ UNCHANGED commands

SetSecret ==
  /\ cli.pc = "idle" /\ Given /\ cli' = cli
  /\ \E value \in Secrets \cup {None} : Call(WithSecret(value))
  /\ withCli

InstallTask ==
  /\ cli.pc = "idle" /\ layout /\ Given /\ cli' = cli
  /\ \E registered \in BOOLEAN : Call(WithTask(registered))
  /\ withCli

Cli == SetControllerOrAutostart \/ SaveSetting \/ ReconcileExistingOwner \/ SetSecret \/ InstallTask

\* In the Task Scheduler's own window the user disables the task.
UserDisables ==
  /\ store.task = "enabled" /\ Given /\ Call([store EXCEPT !.task = "disabled"])
  /\ apply' = Alone(apply) /\ ensure' = Alone(ensure) /\ cli' = Alone(cli) /\ UNCHANGED layout

-----------------------------------------------------------------------------
(* The whole.                                                              *)

Init ==
  /\ store \in Stores /\ layout \in BOOLEAN
  /\ apply = Quiet /\ ensure = Quiet /\ cli = Quiet
  /\ failures = 0 /\ commands = 0

Next == Apply \/ Ensure \/ Cli \/ UserDisables

Spec == Init /\ [][Next]_vars

-----------------------------------------------------------------------------
(* Properties.                                                             *)

Answered(failed) == apply.pc = "done" /\ apply.failed = failed /\ apply.alone

\* An apply that succeeds has changed what was asked for and nothing else, unless
\* another command interfered.
AppliedInFull ==
  Answered(FALSE) =>
    /\ store.file = [url |-> apply.req.url, auto |-> apply.req.auto]
    /\ store.secret = CASE apply.req.action = "keep" -> apply.before.secret
                        [] apply.req.action = "replace" -> apply.req.secret
                        [] apply.req.action = "clear" -> None
    /\ store.task = IF taskChanges THEN IF apply.req.auto THEN "enabled" ELSE "none"
                                   ELSE apply.before.task

SameTask == (store.task = "none") = (apply.before.task = "none")

\* One that fails, and does not say that its rollback is incomplete, has put file
\* and credential back as they were, and the task if that was to change.
RolledBack ==
  Answered(TRUE) /\ ~apply.incomplete =>
    /\ store.file = apply.before.file /\ store.secret = apply.before.secret
    /\ autoChanged => SameTask

\* An apply does all that was asked, or nothing, or says that it could not undo.
AllOrNothing == AppliedInFull /\ RolledBack

\* "safe rollback across config, credential, and exact owner-task reconciliation"
\* (docs/decisions/0008, 144): the task too is as it was.
RollbackIsSafe == Answered(TRUE) /\ ~apply.incomplete => SameTask

\* Whatever earlier commands left undone, ensure-owner makes the task follow the
\* file, if it succeeds and no other command comes between.
EnsureHeals ==
  ensure.pc = "done" /\ ensure.alone =>
    store.task = IF Load(store.file).auto THEN "enabled" ELSE "none"

=============================================================================
