--------------------------- MODULE SettingsProofs ---------------------------
(***************************************************************************)
(* Theorems about Settings, for any addresses, credentials, failures and   *)
(* commands: config apply does all that was asked or puts it back, and     *)
(* ensure-owner makes the task follow the file.                            *)
(*                                                                         *)
(* The invariant says, for every place of apply, how the stores differ     *)
(* from those it began with, as long as no other command has touched them. *)
(***************************************************************************)
EXTENDS Settings, TLAPS

Tasks == {"none", "disabled", "enabled"}
Applying == [pc : {"load", "oldSecret", "oldTask", "secret", "save", "task", "verify",
                   "rollFile", "onlySecret", "rollSecret", "rollTask", "done"},
             alone : BOOLEAN, req : Request, before : Stores, old : Config,
             existed : BOOLEAN, oldSecret : Secrets \cup {None}, oldTask : Tasks,
             mutated : BOOLEAN, saved : BOOLEAN, incomplete : BOOLEAN, failed : BOOLEAN]

EnsureTypes == [pc : {"idle", "failed"}, alone : BOOLEAN]
  \cup [pc : {"reconcile", "run", "done", "failed"}, alone : BOOLEAN, auto : BOOLEAN]
CliTypes == [pc : {"idle"}, alone : BOOLEAN]
  \cup [pc : {"save", "task"}, alone : BOOLEAN, cfg : Config, task : BOOLEAN]

TypeInv ==
  /\ store \in Stores /\ layout \in BOOLEAN /\ failures \in Nat /\ commands \in Nat
  /\ apply \in [pc : {"idle"}, alone : BOOLEAN] \cup Applying
  /\ ensure \in EnsureTypes /\ cli \in CliTypes

-----------------------------------------------------------------------------
(* How far apply has come.                                                 *)

NewFile == [url |-> apply.req.url, auto |-> apply.req.auto]
NewSecret == IF apply.req.action = "keep" THEN apply.before.secret
             ELSE IF apply.req.action = "replace" THEN apply.req.secret ELSE None
NewTask == IF taskChanges THEN IF apply.req.auto THEN "enabled" ELSE "none"
                          ELSE apply.before.task

Holds(file, secret, task) ==
  store.file = file /\ store.secret = secret /\ store.task \in task

\* What was read of the stores, by the time it is needed.
ReadInv ==
  /\ apply.pc # "load" => /\ apply.old = Load(apply.before.file)
                          /\ apply.existed = (apply.before.file # None)
  /\ apply.pc \notin {"load", "oldSecret"} /\ secretChanged =>
       apply.oldSecret = apply.before.secret
  /\ apply.pc \notin {"load", "oldSecret", "oldTask"} /\ taskChanges =>
       apply.oldTask = apply.before.task

Before == {"load", "oldSecret", "oldTask", "secret"}
Forward == Before \cup {"save", "task", "verify"}

\* What has been changed, or put back.
StoreInv ==
  LET old == apply.before
  IN /\ apply.pc \in Before => Holds(old.file, old.secret, {old.task})
     /\ apply.pc \in {"save", "onlySecret"} => Holds(old.file, NewSecret, {old.task})
     /\ apply.pc = "task" => Holds(NewFile, NewSecret, {old.task})
     /\ apply.pc = "verify" => Holds(NewFile, NewSecret, {NewTask})
     /\ apply.pc \in {"rollFile", "rollSecret"} =>
          store.secret = NewSecret /\ store.task \in {old.task, NewTask}
     /\ apply.pc = "rollSecret" /\ ~apply.incomplete => store.file = old.file
     /\ apply.pc = "rollTask" => store.task \in {old.task, NewTask}
     /\ apply.pc = "rollTask" /\ ~apply.incomplete =>
          store.file = old.file /\ store.secret = old.secret
     /\ apply.pc \in Before => ~apply.mutated
     /\ apply.pc \in {"save", "task", "verify", "onlySecret", "rollFile", "rollSecret"} =>
          apply.mutated = secretChanged
     /\ apply.pc \in Forward => ~apply.failed
     /\ apply.pc \notin Forward \cup {"done"} => apply.failed
     /\ apply.pc = "done" /\ ~apply.failed => Holds(NewFile, NewSecret, {NewTask})
     /\ apply.pc = "done" /\ apply.failed /\ ~apply.incomplete =>
          /\ store.file = old.file /\ store.secret = old.secret
          /\ autoChanged => SameTask

ApplyInv ==
  apply.pc # "idle" /\ apply.alone =>
    /\ ~(apply.pc = "done" /\ apply.failed) => ReadInv
    /\ StoreInv

EnsureInv ==
  ensure.alone =>
    /\ ensure.pc \in {"reconcile", "run", "done"} => ensure.auto = Load(store.file).auto
    /\ ensure.pc \in {"run", "done"} => store.task = IF ensure.auto THEN "enabled" ELSE "none"

SettingsInv == TypeInv /\ ApplyInv /\ EnsureInv

-----------------------------------------------------------------------------
(* The stores.                                                             *)

LEMMA StoresPut ==
  ASSUME store \in Stores
  PROVE  /\ \A cfg \in Config \cup {None} :
              /\ Saved(cfg) \in Stores /\ Saved(cfg).file = cfg
              /\ Saved(cfg).secret = store.secret /\ Saved(cfg).task = store.task
         /\ \A value \in Secrets \cup {None} :
              /\ WithSecret(value) \in Stores /\ WithSecret(value).file = store.file
              /\ WithSecret(value).secret = value /\ WithSecret(value).task = store.task
         /\ \A registered \in BOOLEAN :
              /\ WithTask(registered) \in Stores /\ WithTask(registered).file = store.file
              /\ WithTask(registered).secret = store.secret
              /\ WithTask(registered).task = IF registered THEN "enabled" ELSE "none"
BY DEF Stores, Saved, WithSecret, WithTask

LEMMA LoadTyped ==
  /\ \A file \in Config \cup {None} : Load(file) \in Config
  /\ \A file : file # None => Load(file) = file
BY DEF Load, Config

\* A process that another step passes by keeps all but its solitude.
LEMMA ApplyKept ==
  ASSUME apply \in Applying
  PROVE  /\ Alone(apply) \in Applying /\ Alone(apply).pc = apply.pc
         /\ Alone(apply).alone => apply.alone /\ store' = store
         /\ Alone(apply).req = apply.req /\ Alone(apply).before = apply.before
         /\ Alone(apply).old = apply.old /\ Alone(apply).existed = apply.existed
         /\ Alone(apply).oldSecret = apply.oldSecret /\ Alone(apply).oldTask = apply.oldTask
         /\ Alone(apply).mutated = apply.mutated /\ Alone(apply).failed = apply.failed
         /\ Alone(apply).incomplete = apply.incomplete
<1>1. PICK b \in BOOLEAN : b = (apply.alone /\ store' = store)
                          /\ Alone(apply) = [apply EXCEPT !.alone = b]
  BY Zenon DEF Alone
<1>2. b => apply.alone /\ store' = store
  BY <1>1
<1>3. Alone(apply).alone = b /\ Alone(apply) \in Applying
  BY <1>1 DEF Applying
<1> QED BY <1>1, <1>2, <1>3 DEF Applying

LEMMA OthersKept ==
  ASSUME TypeInv
  PROVE  /\ apply.pc = "idle" => Alone(apply) \in [pc : {"idle"}, alone : BOOLEAN]
         /\ Alone(ensure) \in EnsureTypes
         /\ Alone(ensure).pc = ensure.pc
         /\ Alone(ensure).alone => ensure.alone /\ store' = store
         /\ ensure.pc \in {"reconcile", "run", "done"} => Alone(ensure).auto = ensure.auto
         /\ Alone(cli) \in CliTypes
<1>1. PICK b \in BOOLEAN : b = (apply.alone /\ store' = store)
                          /\ Alone(apply) = [apply EXCEPT !.alone = b]
  BY Zenon DEF Alone
<1>2. PICK c \in BOOLEAN : c = (ensure.alone /\ store' = store)
                          /\ Alone(ensure) = [ensure EXCEPT !.alone = c]
  BY Zenon DEF Alone
<1>3. PICK d \in BOOLEAN : d = (cli.alone /\ store' = store)
                          /\ Alone(cli) = [cli EXCEPT !.alone = d]
  BY Zenon DEF Alone
<1>4. c => ensure.alone /\ store' = store
  BY <1>2
<1>5. apply.pc = "idle" => [apply EXCEPT !.alone = b] \in [pc : {"idle"}, alone : BOOLEAN]
  BY DEF TypeInv, Applying
<1>6. /\ [ensure EXCEPT !.alone = c] \in EnsureTypes
      /\ [ensure EXCEPT !.alone = c].pc = ensure.pc /\ [ensure EXCEPT !.alone = c].alone = c
      /\ ensure.pc \in {"reconcile", "run", "done"} => [ensure EXCEPT !.alone = c].auto = ensure.auto
  BY DEF TypeInv, EnsureTypes
<1>7. [cli EXCEPT !.alone = d] \in CliTypes
  BY DEF TypeInv, CliTypes
<1> QED BY <1>1, <1>2, <1>3, <1>4, <1>5, <1>6, <1>7

-----------------------------------------------------------------------------
(* The steps of apply.                                                     *)

\* What was asked and what was there do not change under way.
SameRequest ==
  /\ apply'.req = apply.req /\ apply'.before = apply.before /\ layout' = layout
  /\ apply'.old = apply.old /\ apply'.existed = apply.existed

LEMMA RequestStays ==
  ASSUME SameRequest
  PROVE  /\ NewFile' = NewFile /\ NewSecret' = NewSecret /\ NewTask' = NewTask
         /\ autoChanged' = autoChanged /\ secretChanged' = secretChanged
         /\ taskChanges' = taskChanges
BY DEF SameRequest, NewFile, NewSecret, NewTask, autoChanged, secretChanged, taskChanges

LEMMA ApplyTyped ==
  ASSUME TypeInv, Apply, ~Begin, ~ApplyEnds
  PROVE  /\ apply \in Applying /\ apply' \in Applying /\ store' \in Stores
         /\ apply'.req = apply.req /\ apply'.before = apply.before /\ layout' = layout
         /\ apply'.alone = apply.alone
         /\ ensure' = Alone(ensure) /\ cli' = Alone(cli) /\ commands' = commands
         /\ failures' \in Nat
<1>1. apply \in Applying
  BY DEF TypeInv, Apply, ApplyLoad, ReadOldSecret, ReadOldTask, MutateSecret, SaveConfig,
     MutateTask, Verify, RollbackFile, RestoreSecret, RollbackTask
<1>2. /\ layout' = layout /\ ensure' = Alone(ensure) /\ cli' = Alone(cli)
      /\ commands' = commands
  BY DEF Apply, ApplyLoad, ReadOldSecret, ReadOldTask, MutateSecret, SaveConfig,
     MutateTask, Verify, RollbackFile, RestoreSecret, RollbackTask, others
<1>3. failures' \in Nat
  <2>1. failures' \in {failures, failures + 1}
    BY DEF Apply, ApplyLoad, ReadOldSecret, ReadOldTask, MutateSecret, SaveConfig,
       MutateTask, Verify, RollbackFile, RestoreSecret, RollbackTask, Fails, Call
  <2> QED BY <2>1 DEF TypeInv
<1>4. /\ store \in Stores /\ store.file \in Config \cup {None}
      /\ store.secret \in Secrets \cup {None} /\ store.task \in Tasks
  BY DEF TypeInv, Stores, Tasks
<1>5. /\ apply.req \in Request /\ apply.old \in Config /\ apply.oldSecret \in Secrets \cup {None}
  BY <1>1 DEF Applying
<1>6. store' \in Stores
  <2>1. [url |-> apply.req.url, auto |-> apply.req.auto] \in Config /\ apply.req.auto \in BOOLEAN
        /\ apply.req.secret \in Secrets
    BY <1>5 DEF Config, Request
  <2>2. \/ store' = store
        \/ \E cfg \in Config \cup {None} : store' = Saved(cfg)
        \/ \E value \in Secrets \cup {None} : store' = WithSecret(value)
        \/ \E registered \in BOOLEAN : store' = WithTask(registered)
    <3>1. CASE ApplyLoad \/ ReadOldSecret \/ ReadOldTask \/ Verify
      BY <3>1 DEF ApplyLoad, ReadOldSecret, ReadOldTask, Verify, Call, Touches, Fails
    <3>2. CASE MutateSecret \/ RestoreSecret
      BY <1>5, <2>1, <3>2 DEF MutateSecret, RestoreSecret, Call, Touches, Fails
    <3>3. CASE SaveConfig \/ RollbackFile
      BY <1>5, <2>1, <3>3 DEF SaveConfig, RollbackFile, Call, Touches, Fails
    <3>4. CASE MutateTask
      BY <2>1, <3>4 DEF MutateTask, Call, Touches, Fails
    <3>5. CASE RollbackTask
      <4>1. (apply.oldTask # "none") \in BOOLEAN
        OBVIOUS
      <4>2. store' = store \/ store' = WithTask(apply.oldTask # "none")
        BY <3>5 DEF RollbackTask, Call, Touches, Fails
      <4> QED BY <4>1, <4>2, Zenon
    <3> QED BY <3>1, <3>2, <3>3, <3>4, <3>5 DEF Apply
  <2> QED BY <1>4, <2>2, StoresPut
<1>7. /\ apply' \in Applying /\ apply'.req = apply.req /\ apply'.before = apply.before
      /\ apply'.alone = apply.alone
  <2>1. CASE ApplyLoad
    <3>1. Load(store.file) \in Config
      BY <1>4, LoadTyped
    <3>2. PICK b \in BOOLEAN : \/ apply' = [apply EXCEPT !.pc = "oldSecret", !.old = Load(store.file),
                                                         !.existed = b]
                              \/ apply' = [apply EXCEPT !.pc = "done", !.failed = TRUE]
      BY <2>1, Zenon DEF ApplyLoad, Errs
    <3>3. /\ [apply EXCEPT !.pc = "oldSecret", !.old = Load(store.file), !.existed = b] \in Applying
          /\ [apply EXCEPT !.pc = "done", !.failed = TRUE] \in Applying
      BY <1>1, <3>1 DEF Applying
    <3> QED BY <1>1, <3>2, <3>3, ZenonT(40) DEF Applying
  <2>2. CASE ReadOldSecret
    BY <1>1, <1>4, <2>2 DEF ReadOldSecret, Errs, Applying
  <2>3. CASE ReadOldTask
    BY <1>1, <1>4, <2>3 DEF ReadOldTask, Errs, Applying
  <2>4. CASE MutateSecret
    BY <1>1, <2>4 DEF MutateSecret, Errs, Applying
  <2>5. CASE SaveConfig
    BY <1>1, <2>5 DEF SaveConfig, Errs, Applying
  <2>6. CASE MutateTask
    BY <1>1, <2>6 DEF MutateTask, Errs, Applying
  <2>7. CASE Verify
    BY <1>1, <2>7 DEF Verify, Errs, Applying
  <2>8. CASE RollbackFile
    BY <1>1, <2>8 DEF RollbackFile, Incomplete, Applying
  <2>9. CASE RestoreSecret
    BY <1>1, <2>9 DEF RestoreSecret, Incomplete, Applying
  <2>10. CASE RollbackTask
    BY <1>1, <2>10 DEF RollbackTask, Incomplete, Applying
  <2> QED BY <2>1, <2>2, <2>3, <2>4, <2>5, <2>6, <2>7, <2>8, <2>9, <2>10 DEF Apply
<1> QED BY <1>1, <1>2, <1>3, <1>6, <1>7

\* With no other command about, a step of apply leads to what its next place says.
\* With no other command about, a step of apply leads to what its next place says.
\* With no other command about, a step of apply leads to what its next place says.
LEMMA ApplyActs ==
  ASSUME TypeInv, ReadInv, StoreInv, Apply, ~Begin, ~ApplyEnds
  PROVE  /\ ~(apply'.pc = "done" /\ apply'.failed) => ReadInv'
         /\ StoreInv'
<1>1. /\ apply \in Applying /\ apply' \in Applying /\ store \in Stores /\ store' \in Stores
      /\ apply'.req = apply.req /\ apply'.before = apply.before /\ layout' = layout
      /\ apply.before \in Stores /\ apply.req \in Request
  BY ApplyTyped DEF TypeInv, Applying
<1>2. apply'.old = apply.old /\ apply'.existed = apply.existed =>
        /\ NewFile' = NewFile /\ NewSecret' = NewSecret /\ NewTask' = NewTask
        /\ autoChanged' = autoChanged /\ secretChanged' = secretChanged
        /\ taskChanges' = taskChanges
  BY <1>1, RequestStays DEF SameRequest
<1>3. CASE ApplyLoad
  <2>1. CASE store' = store /\ apply' = Errs("done")
    <3>1. apply'.pc = "done" /\ apply'.failed /\ apply.pc = "load" /\ apply'.incomplete = apply.incomplete
      BY <1>1, <1>3, <2>1 DEF ApplyLoad, Errs, Applying
    <3> QED BY <1>1, <2>1, <3>1 DEF StoreInv, Before, Forward, Holds, SameTask
  <2>2. CASE /\ store' = store
             /\ apply' = [apply EXCEPT !.pc = "oldSecret", !.old = Load(store.file),
                                       !.existed = store.file # None]
    <3>1. PICK b \in BOOLEAN : /\ b = (store.file # None)
                              /\ apply' = [apply EXCEPT !.pc = "oldSecret", !.old = Load(store.file),
                                                        !.existed = b]
      BY <2>2, Zenon
    <3>2. /\ apply.pc = "load" /\ apply'.pc = "oldSecret" /\ apply'.old = Load(store.file)
          /\ apply'.existed = b /\ apply'.mutated = apply.mutated /\ apply'.failed = apply.failed
      BY <1>1, <1>3, <3>1 DEF ApplyLoad, Applying
    <3>3. store = store' /\ store.file = apply.before.file
      BY <2>2, <3>2 DEF StoreInv, Before, Holds
    <3>4. ReadInv'
      BY <1>1, <3>1, <3>2, <3>3 DEF ReadInv
    <3> QED BY <1>1, <2>2, <3>2, <3>4 DEF StoreInv, Before, Forward, Holds
  <2> QED BY <1>3, <2>1, <2>2 DEF ApplyLoad, Call, Touches, Fails
<1>4. CASE ReadOldSecret
  <2>1. CASE /\ ~secretChanged
             /\ store' = store
             /\ apply' = [apply EXCEPT !.pc = "oldTask"]
    <3>1. /\ apply.pc = "oldSecret" /\ apply'.pc = "oldTask"
          /\ apply'.mutated = apply.mutated /\ apply'.failed = apply.failed /\ apply'.incomplete = apply.incomplete
          /\ apply'.old = apply.old /\ apply'.existed = apply.existed
      BY <1>1, <1>4, <2>1 DEF ReadOldSecret, Errs, Incomplete, Applying
    <3>2. ~(apply'.pc = "done" /\ apply'.failed) => ReadInv'
      BY <1>1, <1>2, <2>1, <3>1 DEF ReadInv, StoreInv, Before, Holds
    <3>3. StoreInv'
      BY <1>1, <1>2, <2>1, <3>1
      DEF ReadInv, StoreInv, Before, Forward, Holds, SameTask
    <3> QED BY <3>2, <3>3
  <2>2. CASE /\ secretChanged
             /\ store' = store
             /\ apply' = [apply EXCEPT !.pc = "oldTask", !.oldSecret = store.secret]
    <3>1. /\ apply.pc = "oldSecret" /\ apply'.pc = "oldTask" /\ apply'.oldSecret = store.secret
          /\ apply'.mutated = apply.mutated /\ apply'.failed = apply.failed /\ apply'.incomplete = apply.incomplete
          /\ apply'.old = apply.old /\ apply'.existed = apply.existed
      BY <1>1, <1>4, <2>2 DEF ReadOldSecret, Errs, Incomplete, Applying
    <3>2. ~(apply'.pc = "done" /\ apply'.failed) => ReadInv'
      BY <1>1, <1>2, <2>2, <3>1 DEF ReadInv, StoreInv, Before, Holds
    <3>3. StoreInv'
      BY <1>1, <1>2, <2>2, <3>1
      DEF ReadInv, StoreInv, Before, Forward, Holds, SameTask
    <3> QED BY <3>2, <3>3
  <2>3. CASE /\ store' = store
             /\ apply' = Errs("done")
    <3>1. /\ apply.pc = "oldSecret" /\ apply'.pc = "done" /\ apply'.failed
          /\ apply'.incomplete = apply.incomplete
          /\ apply'.old = apply.old /\ apply'.existed = apply.existed
      BY <1>1, <1>4, <2>3 DEF ReadOldSecret, Errs, Incomplete, Applying
    <3>2. StoreInv'
      BY <1>1, <1>2, <2>3, <3>1
      DEF ReadInv, StoreInv, Before, Forward, Holds, SameTask
    <3> QED BY <3>1, <3>2
  <2> QED BY <1>4, <2>1, <2>2, <2>3 DEF ReadOldSecret, Call, Touches, Fails
<1>5. CASE ReadOldTask
  <2>1. CASE /\ ~taskChanges
             /\ store' = store
             /\ apply' = [apply EXCEPT !.pc = "secret"]
    <3>1. /\ apply.pc = "oldTask" /\ apply'.pc = "secret"
          /\ apply'.oldSecret = apply.oldSecret /\ apply'.mutated = apply.mutated /\ apply'.failed = apply.failed /\ apply'.incomplete = apply.incomplete
          /\ apply'.old = apply.old /\ apply'.existed = apply.existed
      BY <1>1, <1>5, <2>1 DEF ReadOldTask, Errs, Incomplete, Applying
    <3>2. ~(apply'.pc = "done" /\ apply'.failed) => ReadInv'
      BY <1>1, <1>2, <2>1, <3>1 DEF ReadInv, StoreInv, Before, Holds
    <3>3. StoreInv'
      BY <1>1, <1>2, <2>1, <3>1
      DEF ReadInv, StoreInv, Before, Forward, Holds, SameTask
    <3> QED BY <3>2, <3>3
  <2>2. CASE /\ taskChanges
             /\ store' = store
             /\ apply' = [apply EXCEPT !.pc = "secret", !.oldTask = store.task]
    <3>1. /\ apply.pc = "oldTask" /\ apply'.pc = "secret" /\ apply'.oldTask = store.task
          /\ apply'.oldSecret = apply.oldSecret /\ apply'.mutated = apply.mutated /\ apply'.failed = apply.failed /\ apply'.incomplete = apply.incomplete
          /\ apply'.old = apply.old /\ apply'.existed = apply.existed
      BY <1>1, <1>5, <2>2 DEF ReadOldTask, Errs, Incomplete, Applying
    <3>2. ~(apply'.pc = "done" /\ apply'.failed) => ReadInv'
      BY <1>1, <1>2, <2>2, <3>1 DEF ReadInv, StoreInv, Before, Holds
    <3>3. StoreInv'
      BY <1>1, <1>2, <2>2, <3>1
      DEF ReadInv, StoreInv, Before, Forward, Holds, SameTask
    <3> QED BY <3>2, <3>3
  <2>3. CASE /\ store' = store
             /\ apply' = Errs("done")
    <3>1. /\ apply.pc = "oldTask" /\ apply'.pc = "done" /\ apply'.failed
          /\ apply'.incomplete = apply.incomplete
          /\ apply'.old = apply.old /\ apply'.existed = apply.existed
      BY <1>1, <1>5, <2>3 DEF ReadOldTask, Errs, Incomplete, Applying
    <3>2. StoreInv'
      BY <1>1, <1>2, <2>3, <3>1
      DEF ReadInv, StoreInv, Before, Forward, Holds, SameTask
    <3> QED BY <3>1, <3>2
  <2> QED BY <1>5, <2>1, <2>2, <2>3 DEF ReadOldTask, Call, Touches, Fails
<1>6. CASE MutateSecret
  <2>1. CASE /\ ~secretChanged
             /\ store' = store
             /\ apply' = [apply EXCEPT !.pc = "save"]
    <3>1. /\ apply.pc = "secret" /\ apply'.pc = "save"
          /\ apply'.oldSecret = apply.oldSecret /\ apply'.oldTask = apply.oldTask
          /\ apply'.mutated = apply.mutated /\ apply'.failed = apply.failed /\ apply'.incomplete = apply.incomplete
          /\ apply'.old = apply.old /\ apply'.existed = apply.existed
      BY <1>1, <1>6, <2>1 DEF MutateSecret, Errs, Incomplete, Applying
    <3>2. apply'.mutated = FALSE /\ NewSecret = apply.before.secret /\ secretChanged' = FALSE
      BY <1>1, <1>2, <2>1, <3>1 DEF StoreInv, Before, NewSecret, secretChanged, Applying
    <3>3. ~(apply'.pc = "done" /\ apply'.failed) => ReadInv'
      BY <1>1, <1>2, <2>1, <3>1 DEF ReadInv
    <3>4. StoreInv'
      BY <1>1, <1>2, <2>1, <3>1, <3>2
      DEF StoreInv, Before, Forward, Holds, SameTask
    <3> QED BY <3>3, <3>4
  <2>2. CASE /\ secretChanged
             /\ store' = WithSecret(IF apply.req.action = "replace" THEN apply.req.secret ELSE None)
             /\ apply' = [apply EXCEPT !.pc = "save", !.mutated = TRUE]
    <3>1. /\ apply.pc = "secret" /\ apply'.pc = "save" /\ apply'.mutated
          /\ apply'.oldSecret = apply.oldSecret /\ apply'.oldTask = apply.oldTask
          /\ apply'.failed = apply.failed /\ apply'.incomplete = apply.incomplete
          /\ apply'.old = apply.old /\ apply'.existed = apply.existed
      BY <1>1, <1>6, <2>2 DEF MutateSecret, Errs, Incomplete, Applying
    <3>2. /\ store'.file = store.file /\ store'.task = store.task
          /\ store'.secret = IF apply.req.action = "replace" THEN apply.req.secret ELSE None
      BY <1>1, <2>2, <3>1, StoresPut DEF Stores, Applying, Config, Request
    <3>3. ~(apply'.pc = "done" /\ apply'.failed) => ReadInv'
      BY <1>1, <1>2, <2>2, <3>1 DEF ReadInv
    <3>4. StoreInv'
      BY <1>1, <1>2, <2>2, <3>1, <3>2, ZenonT(40)
      DEF StoreInv, Before, Forward, Holds, SameTask, NewSecret, secretChanged
    <3> QED BY <3>3, <3>4
  <2>3. CASE /\ store' = store
             /\ apply' = Errs("done")
    <3>1. /\ apply.pc = "secret" /\ apply'.pc = "done" /\ apply'.failed
          /\ apply'.incomplete = apply.incomplete
          /\ apply'.old = apply.old /\ apply'.existed = apply.existed
      BY <1>1, <1>6, <2>3 DEF MutateSecret, Errs, Incomplete, Applying
    <3>2. StoreInv'
      BY <1>1, <1>2, <2>3, <3>1
      DEF StoreInv, Before, Forward, Holds, SameTask, NewSecret, secretChanged
    <3> QED BY <3>1, <3>2
  <2> QED BY <1>6, <2>1, <2>2, <2>3 DEF MutateSecret, Call, Touches, Fails
<1>7. CASE SaveConfig
  <2>1. CASE /\ store' = Saved([url |-> apply.req.url, auto |-> apply.req.auto])
             /\ apply' = [apply EXCEPT !.pc = "task"]
    <3>1. /\ apply.pc = "save" /\ apply'.pc = "task"
          /\ apply'.oldSecret = apply.oldSecret /\ apply'.oldTask = apply.oldTask
          /\ apply'.mutated = apply.mutated /\ apply'.failed = apply.failed /\ apply'.incomplete = apply.incomplete
          /\ apply'.old = apply.old /\ apply'.existed = apply.existed
      BY <1>1, <1>7, <2>1 DEF SaveConfig, Errs, Incomplete, Applying
    <3>2. store'.file = NewFile /\ store'.secret = store.secret /\ store'.task = store.task
      BY <1>1, <2>1, <3>1, StoresPut DEF Stores, Applying, Config, Request, NewFile
    <3>3. ~(apply'.pc = "done" /\ apply'.failed) => ReadInv'
      BY <1>1, <1>2, <2>1, <3>1 DEF ReadInv
    <3>4. StoreInv'
      BY <1>1, <1>2, <2>1, <3>1, <3>2
      DEF StoreInv, Before, Forward, Holds, SameTask, NewTask
    <3> QED BY <3>3, <3>4
  <2>2. CASE /\ store' = store
             /\ apply' = Errs("onlySecret")
    <3>1. /\ apply.pc = "save" /\ apply'.pc = "onlySecret" /\ apply'.failed
          /\ apply'.oldSecret = apply.oldSecret /\ apply'.oldTask = apply.oldTask
          /\ apply'.mutated = apply.mutated /\ apply'.incomplete = apply.incomplete
          /\ apply'.old = apply.old /\ apply'.existed = apply.existed
      BY <1>1, <1>7, <2>2 DEF SaveConfig, Errs, Incomplete, Applying
    <3>2. ~(apply'.pc = "done" /\ apply'.failed) => ReadInv'
      BY <1>1, <1>2, <2>2, <3>1 DEF ReadInv
    <3>3. StoreInv'
      BY <1>1, <1>2, <2>2, <3>1
      DEF StoreInv, Before, Forward, Holds, SameTask, NewTask
    <3> QED BY <3>2, <3>3
  <2> QED BY <1>7, <2>1, <2>2 DEF SaveConfig, Call, Touches, Fails
<1>8. CASE MutateTask
  <2>1. CASE /\ ~taskChanges
             /\ store' = store
             /\ apply' = [apply EXCEPT !.pc = "verify", !.saved = TRUE]
    <3>1. /\ apply.pc = "task" /\ apply'.pc = "verify"
          /\ apply'.oldSecret = apply.oldSecret /\ apply'.oldTask = apply.oldTask
          /\ apply'.mutated = apply.mutated /\ apply'.failed = apply.failed /\ apply'.incomplete = apply.incomplete
          /\ apply'.old = apply.old /\ apply'.existed = apply.existed
      BY <1>1, <1>8, <2>1 DEF MutateTask, Errs, Incomplete, Applying
    <3>2. ~(apply'.pc = "done" /\ apply'.failed) => ReadInv'
      BY <1>1, <1>2, <2>1, <3>1 DEF ReadInv
    <3>3. StoreInv'
      BY <1>1, <1>2, <2>1, <3>1
      DEF StoreInv, Before, Forward, Holds, SameTask, NewTask
    <3> QED BY <3>2, <3>3
  <2>2. CASE /\ taskChanges
             /\ store' = WithTask(apply.req.auto)
             /\ apply' = [apply EXCEPT !.pc = "verify", !.saved = TRUE]
    <3>1. /\ apply.pc = "task" /\ apply'.pc = "verify"
          /\ apply'.oldSecret = apply.oldSecret /\ apply'.oldTask = apply.oldTask
          /\ apply'.mutated = apply.mutated /\ apply'.failed = apply.failed /\ apply'.incomplete = apply.incomplete
          /\ apply'.old = apply.old /\ apply'.existed = apply.existed
      BY <1>1, <1>8, <2>2 DEF MutateTask, Errs, Incomplete, Applying
    <3>2. /\ store'.file = store.file /\ store'.secret = store.secret
          /\ store'.task = IF apply.req.auto THEN "enabled" ELSE "none"
      BY <1>1, <2>2, <3>1, StoresPut DEF Stores, Applying, Config, Request
    <3>3. ~(apply'.pc = "done" /\ apply'.failed) => ReadInv'
      BY <1>1, <1>2, <2>2, <3>1 DEF ReadInv
    <3>4. StoreInv'
      BY <1>1, <1>2, <2>2, <3>1, <3>2
      DEF StoreInv, Before, Forward, Holds, SameTask, NewTask
    <3> QED BY <3>3, <3>4
  <2>3. CASE /\ store' = store
             /\ apply' = Errs("rollFile")
    <3>1. /\ apply.pc = "task" /\ apply'.pc = "rollFile" /\ apply'.failed
          /\ apply'.oldSecret = apply.oldSecret /\ apply'.oldTask = apply.oldTask
          /\ apply'.mutated = apply.mutated /\ apply'.incomplete = apply.incomplete
          /\ apply'.old = apply.old /\ apply'.existed = apply.existed
      BY <1>1, <1>8, <2>3 DEF MutateTask, Errs, Incomplete, Applying
    <3>2. ~(apply'.pc = "done" /\ apply'.failed) => ReadInv'
      BY <1>1, <1>2, <2>3, <3>1 DEF ReadInv
    <3>3. StoreInv'
      BY <1>1, <1>2, <2>3, <3>1
      DEF StoreInv, Before, Forward, Holds, SameTask, NewTask
    <3> QED BY <3>2, <3>3
  <2> QED BY <1>8, <2>1, <2>2, <2>3 DEF MutateTask, Call, Touches, Fails
<1>9. CASE Verify
  <2>1. CASE /\ store' = store
             /\ apply' = [apply EXCEPT !.pc = "done"]
    <3>1. /\ apply.pc = "verify" /\ apply'.pc = "done"
          /\ apply'.oldSecret = apply.oldSecret /\ apply'.oldTask = apply.oldTask
          /\ apply'.mutated = apply.mutated /\ apply'.failed = apply.failed /\ apply'.incomplete = apply.incomplete
          /\ apply'.old = apply.old /\ apply'.existed = apply.existed
      BY <1>1, <1>9, <2>1 DEF Verify, Errs, Incomplete, Applying
    <3>2. ~(apply'.pc = "done" /\ apply'.failed) => ReadInv'
      BY <1>1, <1>2, <2>1, <3>1 DEF ReadInv
    <3>3. StoreInv'
      BY <1>1, <1>2, <2>1, <3>1
      DEF StoreInv, Before, Forward, Holds, SameTask
    <3> QED BY <3>2, <3>3
  <2>2. CASE /\ store' = store
             /\ apply' = Errs("rollFile")
    <3>1. /\ apply.pc = "verify" /\ apply'.pc = "rollFile" /\ apply'.failed
          /\ apply'.oldSecret = apply.oldSecret /\ apply'.oldTask = apply.oldTask
          /\ apply'.mutated = apply.mutated /\ apply'.incomplete = apply.incomplete
          /\ apply'.old = apply.old /\ apply'.existed = apply.existed
      BY <1>1, <1>9, <2>2 DEF Verify, Errs, Incomplete, Applying
    <3>2. ~(apply'.pc = "done" /\ apply'.failed) => ReadInv'
      BY <1>1, <1>2, <2>2, <3>1 DEF ReadInv
    <3>3. StoreInv'
      BY <1>1, <1>2, <2>2, <3>1
      DEF StoreInv, Before, Forward, Holds, SameTask
    <3> QED BY <3>2, <3>3
  <2> QED BY <1>9, <2>1, <2>2 DEF Verify, Call, Touches, Fails
<1>10. CASE RollbackFile
  <2>1. CASE /\ store' = Saved(IF apply.existed THEN apply.old ELSE None)
             /\ apply' = [apply EXCEPT !.pc = "rollSecret"]
    <3>1. /\ apply.pc = "rollFile" /\ apply'.pc = "rollSecret"
          /\ apply'.oldSecret = apply.oldSecret /\ apply'.oldTask = apply.oldTask
          /\ apply'.mutated = apply.mutated /\ apply'.failed = apply.failed /\ apply'.incomplete = apply.incomplete
          /\ apply'.old = apply.old /\ apply'.existed = apply.existed
      BY <1>1, <1>10, <2>1 DEF RollbackFile, Errs, Incomplete, Applying
    <3>2. /\ store'.secret = store.secret /\ store'.task = store.task
          /\ store'.file = IF apply.existed THEN apply.old ELSE None
      BY <1>1, <2>1, <3>1, StoresPut DEF Stores, Applying, Config, Request
    <3>3. ~(apply'.pc = "done" /\ apply'.failed) => ReadInv'
      BY <1>1, <1>2, <2>1, <3>1 DEF ReadInv
    <3>4. StoreInv'
      BY <1>1, <1>2, <2>1, <3>1, <3>2
      DEF ReadInv, StoreInv, Before, Forward, Holds, SameTask, Load
    <3> QED BY <3>3, <3>4
  <2>2. CASE /\ store' = store
             /\ apply' = Incomplete("rollSecret")
    <3>1. /\ apply.pc = "rollFile" /\ apply'.pc = "rollSecret" /\ apply'.incomplete
          /\ apply'.oldSecret = apply.oldSecret /\ apply'.oldTask = apply.oldTask
          /\ apply'.mutated = apply.mutated /\ apply'.failed = apply.failed
          /\ apply'.old = apply.old /\ apply'.existed = apply.existed
      BY <1>1, <1>10, <2>2 DEF RollbackFile, Errs, Incomplete, Applying
    <3>2. ~(apply'.pc = "done" /\ apply'.failed) => ReadInv'
      BY <1>1, <1>2, <2>2, <3>1 DEF ReadInv
    <3>3. StoreInv'
      BY <1>1, <1>2, <2>2, <3>1
      DEF ReadInv, StoreInv, Before, Forward, Holds, SameTask, Load
    <3> QED BY <3>2, <3>3
  <2> QED BY <1>10, <2>1, <2>2 DEF RollbackFile, Call, Touches, Fails
<1>11. CASE RestoreSecret
  <2>1. CASE /\ apply.pc = "onlySecret"
             /\ ~apply.mutated
             /\ store' = store
             /\ apply' = [apply EXCEPT !.pc = "done"]
    <3>1. /\ apply.pc = "onlySecret" /\ apply'.pc = "done"
          /\ apply'.oldSecret = apply.oldSecret /\ apply'.oldTask = apply.oldTask
          /\ apply'.mutated = apply.mutated /\ apply'.failed = apply.failed /\ apply'.incomplete = apply.incomplete
          /\ apply'.old = apply.old /\ apply'.existed = apply.existed
      BY <1>1, <1>11, <2>1 DEF RestoreSecret, Errs, Incomplete, Applying
    <3>2. ~(apply'.pc = "done" /\ apply'.failed) => ReadInv'
      BY <1>1, <1>2, <2>1, <3>1 DEF ReadInv
    <3>3. StoreInv'
      BY <1>1, <1>2, <2>1, <3>1
      DEF ReadInv, StoreInv, Before, Forward, Holds, SameTask, NewSecret, secretChanged
    <3> QED BY <3>2, <3>3
  <2>2. CASE /\ apply.pc = "onlySecret"
             /\ apply.mutated
             /\ store' = WithSecret(apply.oldSecret)
             /\ apply' = [apply EXCEPT !.pc = "done"]
    <3>1. /\ apply.pc = "onlySecret" /\ apply'.pc = "done"
          /\ apply'.oldSecret = apply.oldSecret /\ apply'.oldTask = apply.oldTask
          /\ apply'.mutated = apply.mutated /\ apply'.failed = apply.failed /\ apply'.incomplete = apply.incomplete
          /\ apply'.old = apply.old /\ apply'.existed = apply.existed
      BY <1>1, <1>11, <2>2 DEF RestoreSecret, Errs, Incomplete, Applying
    <3>2. /\ store'.file = store.file /\ store'.task = store.task
          /\ store'.secret = apply.oldSecret
      BY <1>1, <2>2, <3>1, StoresPut DEF Stores, Applying, Config, Request
    <3>3. ~(apply'.pc = "done" /\ apply'.failed) => ReadInv'
      BY <1>1, <1>2, <2>2, <3>1 DEF ReadInv
    <3>4. StoreInv'
      BY <1>1, <1>2, <2>2, <3>1, <3>2, ZenonT(40)
      DEF ReadInv, StoreInv, Before, Forward, Holds, SameTask, NewSecret, secretChanged
    <3> QED BY <3>3, <3>4
  <2>3. CASE /\ apply.pc = "onlySecret"
             /\ store' = store
             /\ apply' = Incomplete("done")
    <3>1. /\ apply.pc = "onlySecret" /\ apply'.pc = "done" /\ apply'.incomplete
          /\ apply'.oldSecret = apply.oldSecret /\ apply'.oldTask = apply.oldTask
          /\ apply'.mutated = apply.mutated /\ apply'.failed = apply.failed
          /\ apply'.old = apply.old /\ apply'.existed = apply.existed
      BY <1>1, <1>11, <2>3 DEF RestoreSecret, Errs, Incomplete, Applying
    <3>2. ~(apply'.pc = "done" /\ apply'.failed) => ReadInv'
      BY <1>1, <1>2, <2>3, <3>1 DEF ReadInv
    <3>3. StoreInv'
      BY <1>1, <1>2, <2>3, <3>1
      DEF ReadInv, StoreInv, Before, Forward, Holds, SameTask, NewSecret, secretChanged
    <3> QED BY <3>2, <3>3
  <2>4. CASE /\ apply.pc = "rollSecret"
             /\ ~apply.mutated
             /\ store' = store
             /\ apply' = [apply EXCEPT !.pc = "rollTask"]
    <3>1. /\ apply.pc = "rollSecret" /\ apply'.pc = "rollTask"
          /\ apply'.oldSecret = apply.oldSecret /\ apply'.oldTask = apply.oldTask
          /\ apply'.mutated = apply.mutated /\ apply'.failed = apply.failed /\ apply'.incomplete = apply.incomplete
          /\ apply'.old = apply.old /\ apply'.existed = apply.existed
      BY <1>1, <1>11, <2>4 DEF RestoreSecret, Errs, Incomplete, Applying
    <3>2. ~(apply'.pc = "done" /\ apply'.failed) => ReadInv'
      BY <1>1, <1>2, <2>4, <3>1 DEF ReadInv
    <3>3. StoreInv'
      BY <1>1, <1>2, <2>4, <3>1
      DEF ReadInv, StoreInv, Before, Forward, Holds, SameTask, NewSecret, secretChanged
    <3> QED BY <3>2, <3>3
  <2>5. CASE /\ apply.pc = "rollSecret"
             /\ apply.mutated
             /\ store' = WithSecret(apply.oldSecret)
             /\ apply' = [apply EXCEPT !.pc = "rollTask"]
    <3>1. /\ apply.pc = "rollSecret" /\ apply'.pc = "rollTask"
          /\ apply'.oldSecret = apply.oldSecret /\ apply'.oldTask = apply.oldTask
          /\ apply'.mutated = apply.mutated /\ apply'.failed = apply.failed /\ apply'.incomplete = apply.incomplete
          /\ apply'.old = apply.old /\ apply'.existed = apply.existed
      BY <1>1, <1>11, <2>5 DEF RestoreSecret, Errs, Incomplete, Applying
    <3>2. /\ store'.file = store.file /\ store'.task = store.task
          /\ store'.secret = apply.oldSecret
      BY <1>1, <2>5, <3>1, StoresPut DEF Stores, Applying, Config, Request
    <3>3. ~(apply'.pc = "done" /\ apply'.failed) => ReadInv'
      BY <1>1, <1>2, <2>5, <3>1 DEF ReadInv
    <3>4. StoreInv'
      BY <1>1, <1>2, <2>5, <3>1, <3>2
      DEF ReadInv, StoreInv, Before, Forward, Holds, SameTask, NewSecret, secretChanged
    <3> QED BY <3>3, <3>4
  <2>6. CASE /\ apply.pc = "rollSecret"
             /\ store' = store
             /\ apply' = Incomplete("rollTask")
    <3>1. /\ apply.pc = "rollSecret" /\ apply'.pc = "rollTask" /\ apply'.incomplete
          /\ apply'.oldSecret = apply.oldSecret /\ apply'.oldTask = apply.oldTask
          /\ apply'.mutated = apply.mutated /\ apply'.failed = apply.failed
          /\ apply'.old = apply.old /\ apply'.existed = apply.existed
      BY <1>1, <1>11, <2>6 DEF RestoreSecret, Errs, Incomplete, Applying
    <3>2. ~(apply'.pc = "done" /\ apply'.failed) => ReadInv'
      BY <1>1, <1>2, <2>6, <3>1 DEF ReadInv
    <3>3. StoreInv'
      BY <1>1, <1>2, <2>6, <3>1
      DEF ReadInv, StoreInv, Before, Forward, Holds, SameTask, NewSecret, secretChanged
    <3> QED BY <3>2, <3>3
  <2> QED BY <1>11, <2>1, <2>2, <2>3, <2>4, <2>5, <2>6 DEF RestoreSecret, Call, Touches, Fails
<1>12. CASE RollbackTask
  <2>1. CASE /\ ~layout
             /\ store' = store
             /\ apply' = [apply EXCEPT !.pc = "done"]
    <3>1. /\ apply.pc = "rollTask" /\ apply'.pc = "done"
          /\ apply'.oldSecret = apply.oldSecret /\ apply'.oldTask = apply.oldTask
          /\ apply'.mutated = apply.mutated /\ apply'.failed = apply.failed /\ apply'.incomplete = apply.incomplete
          /\ apply'.old = apply.old /\ apply'.existed = apply.existed
      BY <1>1, <1>12, <2>1 DEF RollbackTask, Errs, Incomplete, Applying
    <3>2. ~(apply'.pc = "done" /\ apply'.failed) => ReadInv'
      BY <1>1, <1>2, <2>1, <3>1 DEF ReadInv
    <3>3. StoreInv'
      BY <1>1, <1>2, <2>1, <3>1
      DEF ReadInv, StoreInv, Before, Forward, Holds, SameTask, NewTask, taskChanges, autoChanged
    <3> QED BY <3>2, <3>3
  <2>2. CASE /\ layout
             /\ store' = WithTask(apply.oldTask # "none")
             /\ apply' = [apply EXCEPT !.pc = "done"]
    <3>1. /\ apply.pc = "rollTask" /\ apply'.pc = "done"
          /\ apply'.oldSecret = apply.oldSecret /\ apply'.oldTask = apply.oldTask
          /\ apply'.mutated = apply.mutated /\ apply'.failed = apply.failed /\ apply'.incomplete = apply.incomplete
          /\ apply'.old = apply.old /\ apply'.existed = apply.existed
      BY <1>1, <1>12, <2>2 DEF RollbackTask, Errs, Incomplete, Applying
    <3>2. /\ store'.file = store.file /\ store'.secret = store.secret
          /\ (store'.task = "none") <=> (apply.oldTask = "none")
      BY <1>1, <2>2, <3>1, StoresPut DEF Stores, Applying, Config, Request
    <3>3. ~(apply'.pc = "done" /\ apply'.failed) => ReadInv'
      BY <1>1, <1>2, <2>2, <3>1 DEF ReadInv
    <3>4. StoreInv'
      BY <1>1, <1>2, <2>2, <3>1, <3>2
      DEF ReadInv, StoreInv, Before, Forward, Holds, SameTask, NewTask, taskChanges, autoChanged
    <3> QED BY <3>3, <3>4
  <2>3. CASE /\ store' = store
             /\ apply' = Incomplete("done")
    <3>1. /\ apply.pc = "rollTask" /\ apply'.pc = "done" /\ apply'.incomplete
          /\ apply'.oldSecret = apply.oldSecret /\ apply'.oldTask = apply.oldTask
          /\ apply'.mutated = apply.mutated /\ apply'.failed = apply.failed
          /\ apply'.old = apply.old /\ apply'.existed = apply.existed
      BY <1>1, <1>12, <2>3 DEF RollbackTask, Errs, Incomplete, Applying
    <3>2. ~(apply'.pc = "done" /\ apply'.failed) => ReadInv'
      BY <1>1, <1>2, <2>3, <3>1 DEF ReadInv
    <3>3. StoreInv'
      BY <1>1, <1>2, <2>3, <3>1
      DEF ReadInv, StoreInv, Before, Forward, Holds, SameTask, NewTask, taskChanges, autoChanged
    <3> QED BY <3>2, <3>3
  <2> QED BY <1>12, <2>1, <2>2, <2>3 DEF RollbackTask, Call, Touches, Fails
<1> QED
  BY <1>3, <1>4, <1>5, <1>6, <1>7, <1>8, <1>9, <1>10, <1>11, <1>12 DEF Apply
-----------------------------------------------------------------------------
(* The invariant.                                                          *)

LEMMA InitInv == ASSUME Init PROVE SettingsInv
BY DEF Init, Quiet, SettingsInv, TypeInv, ApplyInv, EnsureInv, EnsureTypes, CliTypes

\* What a process has found out it keeps, unless another touches the stores.
LEMMA ApplyWaits ==
  ASSUME TypeInv, ApplyInv, apply' = Alone(apply), layout' = layout
  PROVE  /\ apply' \in [pc : {"idle"}, alone : BOOLEAN] \cup Applying
         /\ ApplyInv'
<1>1. CASE apply.pc = "idle"
  BY <1>1, OthersKept DEF ApplyInv
<1>2. CASE apply.pc # "idle"
  <2>1. apply \in Applying
    BY <1>2 DEF TypeInv
  <2>2. /\ apply' \in Applying /\ apply'.pc = apply.pc
        /\ apply'.alone => apply.alone /\ store' = store
        /\ apply'.req = apply.req /\ apply'.before = apply.before
        /\ apply'.old = apply.old /\ apply'.existed = apply.existed
        /\ apply'.oldSecret = apply.oldSecret /\ apply'.oldTask = apply.oldTask
        /\ apply'.mutated = apply.mutated /\ apply'.failed = apply.failed
        /\ apply'.incomplete = apply.incomplete
    BY <2>1, ApplyKept
  <2>3. /\ NewFile' = NewFile /\ NewSecret' = NewSecret /\ NewTask' = NewTask
        /\ autoChanged' = autoChanged /\ secretChanged' = secretChanged
        /\ taskChanges' = taskChanges
    BY <2>2, RequestStays DEF SameRequest
  <2>4. SUFFICES ASSUME apply'.alone
                 PROVE  /\ ~(apply'.pc = "done" /\ apply'.failed) => ReadInv'
                        /\ StoreInv'
    BY <2>2 DEF ApplyInv
  <2>5. /\ ~(apply.pc = "done" /\ apply.failed) => ReadInv
        /\ StoreInv /\ store' = store
    BY <1>2, <2>2, <2>4 DEF ApplyInv
  <2>6. ReadInv => ReadInv'
    BY <2>2, <2>3 DEF ReadInv
  <2>7. StoreInv'
    BY <2>2, <2>3, <2>5 DEF StoreInv, Holds, SameTask
  <2> QED BY <2>2, <2>5, <2>6, <2>7
<1> QED BY <1>1, <1>2

LEMMA ApplyBegins ==
  ASSUME TypeInv, Begin
  PROVE  /\ apply' \in Applying /\ store' = store /\ layout' = layout
         /\ ensure' = ensure /\ cli' = cli /\ failures' = failures
         /\ commands' = commands + 1 /\ ApplyInv'
<1>1. PICK req \in Request :
        apply' = [pc |-> "load", alone |-> TRUE, req |-> req, before |-> store,
                  old |-> Load(None), existed |-> TRUE, oldSecret |-> None, oldTask |-> "none",
                  mutated |-> FALSE, saved |-> FALSE, incomplete |-> FALSE, failed |-> FALSE]
  BY DEF Begin
<1>2. store' = store /\ layout' = layout /\ ensure' = ensure /\ cli' = cli /\ failures' = failures
      /\ commands' = commands + 1
  BY DEF Begin
<1>3. Load(None) \in Config
  BY LoadTyped
<1>4. apply' \in Applying
  BY <1>1, <1>3 DEF TypeInv, Applying, Tasks
<1>5. /\ apply'.pc = "load" /\ apply'.before = store /\ apply'.failed = FALSE
      /\ apply'.mutated = FALSE
  BY <1>1
<1>6. ReadInv'
  BY <1>5 DEF ReadInv
<1>7. StoreInv'
  BY <1>2, <1>5 DEF StoreInv, Holds, Before, Forward
<1> QED BY <1>2, <1>4, <1>6, <1>7 DEF ApplyInv

LEMMA EnsureWaits ==
  ASSUME TypeInv, EnsureInv, ensure' = Alone(ensure)
  PROVE  ensure' \in EnsureTypes /\ EnsureInv'
<1>1. /\ ensure' \in EnsureTypes /\ ensure'.pc = ensure.pc
      /\ ensure'.alone => ensure.alone /\ store' = store
      /\ ensure.pc \in {"reconcile", "run", "done"} => ensure'.auto = ensure.auto
  BY OthersKept DEF EnsureTypes
<1> QED BY <1>1 DEF EnsureInv

LEMMA EnsureActs ==
  ASSUME TypeInv, EnsureInv, Ensure
  PROVE  /\ ensure' \in EnsureTypes /\ EnsureInv' /\ store' \in Stores
         /\ apply' = Alone(apply) /\ cli' = Alone(cli) /\ layout' = layout
         /\ failures' \in Nat /\ commands' \in Nat
<1>1. /\ apply' = Alone(apply) /\ cli' = Alone(cli) /\ layout' = layout
      /\ failures' \in {failures, failures + 1} /\ commands' \in {commands, commands + 1}
  BY DEF Ensure, EnsureOwner, ReconcileOwner, RunOwner, withEnsure, Fails, Call
<1>2. /\ store.file \in Config \cup {None} /\ Load(store.file) \in Config
      /\ Load(store.file).auto \in BOOLEAN
  BY LoadTyped DEF TypeInv, Stores, Config
<1>3. CASE EnsureOwner
  <2>1. store' = store
    BY <1>3 DEF EnsureOwner, Call, Touches, Fails
  <2>2. \/ ensure' = [pc |-> "reconcile", alone |-> TRUE, auto |-> Load(store.file).auto]
        \/ ensure' = [pc |-> "failed", alone |-> TRUE]
    BY <1>3 DEF EnsureOwner
  <2>3. ensure' \in EnsureTypes /\ EnsureInv'
    <3>1. CASE ensure' = [pc |-> "failed", alone |-> TRUE]
      BY <3>1 DEF EnsureTypes, EnsureInv
    <3>2. CASE ensure' = [pc |-> "reconcile", alone |-> TRUE, auto |-> Load(store.file).auto]
      <4>1. ensure' \in EnsureTypes
        BY <1>2, <3>2 DEF EnsureTypes
      <4>2. ensure'.pc = "reconcile" /\ ensure'.auto = Load(store'.file).auto
        BY <2>1, <3>2
      <4> QED BY <4>1, <4>2 DEF EnsureInv
    <3> QED BY <2>2, <3>1, <3>2
  <2> QED BY <1>1, <2>1, <2>3 DEF TypeInv
<1>4. CASE ReconcileOwner
  <2>1. ensure.pc = "reconcile" /\ ensure \in EnsureTypes /\ ensure.auto \in BOOLEAN
    BY <1>4 DEF ReconcileOwner, TypeInv, EnsureTypes
  <2>2. CASE /\ store' = WithTask(ensure.auto)
             /\ ensure' = [ensure EXCEPT !.pc = IF ensure.auto THEN "run" ELSE "done"]
    <3>1. /\ store' \in Stores /\ store'.file = store.file
          /\ store'.task = IF ensure.auto THEN "enabled" ELSE "none"
      BY <2>1, <2>2, StoresPut DEF TypeInv
    <3>2. /\ ensure' \in EnsureTypes /\ ensure'.pc \in {"run", "done"}
          /\ ensure'.alone = ensure.alone /\ ensure'.auto = ensure.auto
      BY <2>1, <2>2 DEF EnsureTypes
    <3>3. EnsureInv'
      BY <2>1, <3>1, <3>2 DEF EnsureInv
    <3> QED BY <1>1, <3>1, <3>2, <3>3 DEF TypeInv
  <2>3. CASE store' = store /\ ensure' = [ensure EXCEPT !.pc = "failed"]
    BY <1>1, <2>1, <2>3 DEF EnsureInv, EnsureTypes, TypeInv
  <2> QED BY <1>4, <2>2, <2>3 DEF ReconcileOwner, Call, Touches, Fails
<1>5. CASE RunOwner
  <2>1. ensure.pc = "run" /\ ensure \in EnsureTypes /\ store' = store
    BY <1>5 DEF RunOwner, TypeInv, EnsureTypes, Call, Touches, Fails
  <2>2. \/ ensure' = [ensure EXCEPT !.pc = "done"]
        \/ ensure' = [ensure EXCEPT !.pc = "failed"]
    BY <1>5 DEF RunOwner
  <2> QED BY <1>1, <2>1, <2>2 DEF EnsureInv, EnsureTypes, TypeInv
<1> QED BY <1>3, <1>4, <1>5 DEF Ensure

LEMMA CliActs ==
  ASSUME TypeInv, Cli \/ UserDisables
  PROVE  /\ cli' \in CliTypes /\ store' \in Stores
         /\ apply' = Alone(apply) /\ ensure' = Alone(ensure) /\ layout' = layout
         /\ failures' \in Nat /\ commands' \in Nat
<1>1. /\ apply' = Alone(apply) /\ ensure' = Alone(ensure) /\ layout' = layout
      /\ failures' \in {failures, failures + 1} /\ commands' \in {commands, commands + 1}
  BY DEF Cli, SetControllerOrAutostart, SaveSetting, ReconcileExistingOwner, SetSecret,
     InstallTask, UserDisables, withCli, Given, Fails, Call
<1>2. /\ store.file \in Config \cup {None} /\ Load(store.file) \in Config /\ cli \in CliTypes
      /\ store \in Stores
  BY LoadTyped DEF TypeInv, Stores, CliTypes
<1>3. Quiet \in CliTypes
  BY DEF Quiet, CliTypes
<1>4. cli' \in CliTypes /\ store' \in Stores
  <2>1. CASE SetControllerOrAutostart
    <3>1. PICK cfg \in Config : cfg = Load(store.file)
      BY <1>2
    <3>2. store' = store
      BY <2>1 DEF SetControllerOrAutostart, Call, Touches
    <3>3. \/ \E url \in Urls : cli' = [pc |-> "save", alone |-> TRUE,
                                       cfg |-> [cfg EXCEPT !.url = url], task |-> FALSE]
          \/ \E auto \in BOOLEAN : cli' = [pc |-> "save", alone |-> TRUE,
                                            cfg |-> [cfg EXCEPT !.auto = auto], task |-> TRUE]
      BY <2>1, <3>1 DEF SetControllerOrAutostart
    <3>4. /\ \A url \in Urls : [cfg EXCEPT !.url = url] \in Config
          /\ \A auto \in BOOLEAN : [cfg EXCEPT !.auto = auto] \in Config
      BY DEF Config
    <3>5. PICK new \in Config, task \in BOOLEAN :
            cli' = [pc |-> "save", alone |-> TRUE, cfg |-> new, task |-> task]
      BY <3>3, <3>4
    <3>6. cli' \in CliTypes
      BY <3>5 DEF CliTypes
    <3> QED BY <1>2, <3>2, <3>6
  <2>2. CASE SaveSetting
    <3>1. cli.pc = "save" /\ cli.cfg \in Config
      BY <1>2, <2>2 DEF SaveSetting, CliTypes
    <3>2. store' = store \/ store' = Saved(cli.cfg)
      BY <2>2 DEF SaveSetting, Call, Touches, Fails
    <3>3. cli' = Quiet \/ cli' = [cli EXCEPT !.pc = "task"]
      BY <2>2 DEF SaveSetting
    <3>4. [cli EXCEPT !.pc = "task"] \in CliTypes
      BY <1>2, <3>1 DEF CliTypes
    <3> QED BY <1>2, <1>3, <3>1, <3>2, <3>3, <3>4, StoresPut
  <2>3. CASE ReconcileExistingOwner
    <3>1. cli' = Quiet /\ (store' = store \/ store' = WithTask(cli.cfg.auto))
      BY <2>3 DEF ReconcileExistingOwner, Call, Touches, Fails
    <3>2. cli.cfg.auto \in BOOLEAN
      BY <1>2, <2>3 DEF ReconcileExistingOwner, CliTypes, Config
    <3> QED BY <1>2, <1>3, <3>1, <3>2, StoresPut
  <2>4. CASE SetSecret
    BY <1>2, <2>4, StoresPut DEF SetSecret, Call, Touches
  <2>5. CASE InstallTask
    BY <1>2, <2>5, StoresPut DEF InstallTask, Call, Touches
  <2>6. CASE UserDisables
    <3>1. store' = [store EXCEPT !.task = "disabled"] /\ cli' = Alone(cli)
      BY <2>6 DEF UserDisables, Call, Touches
    <3>2. store' \in Stores
      BY <1>2, <3>1 DEF Stores
    <3> QED BY <3>1, <3>2, OthersKept DEF CliTypes
  <2> QED BY <2>1, <2>2, <2>3, <2>4, <2>5, <2>6 DEF Cli
<1> QED BY <1>1, <1>4 DEF TypeInv

LEMMA SettingsInductive == SettingsInv /\ [Next]_vars => SettingsInv'
<1> SUFFICES ASSUME SettingsInv, [Next]_vars PROVE SettingsInv'
  OBVIOUS
<1>1. TypeInv /\ ApplyInv /\ EnsureInv
  BY DEF SettingsInv
<1>2. CASE Begin
  <2>1. ensure' = ensure /\ store' = store
    BY <1>1, <1>2, ApplyBegins
  <2>2. EnsureInv'
    BY <1>1, <2>1 DEF EnsureInv
  <2>3. TypeInv'
    BY <1>1, <1>2, ApplyBegins DEF TypeInv
  <2> QED BY <1>1, <1>2, <2>2, <2>3, ApplyBegins DEF SettingsInv
<1>3. CASE ApplyEnds
  <2>1. /\ apply'.pc = "idle" /\ apply' \in [pc : {"idle"}, alone : BOOLEAN]
        /\ UNCHANGED <<store, ensure, cli, layout, commands>>
        /\ failures' \in {failures, failures + 1}
    BY <1>3 DEF ApplyEnds, Quiet
  <2> QED BY <1>1, <2>1 DEF SettingsInv, TypeInv, ApplyInv, EnsureInv
<1>4. CASE Apply /\ ~Begin /\ ~ApplyEnds
  <2>1. /\ apply \in Applying /\ apply' \in Applying /\ store' \in Stores /\ layout' = layout
        /\ apply'.alone = apply.alone /\ ensure' = Alone(ensure) /\ cli' = Alone(cli)
        /\ commands' = commands /\ failures' \in Nat
    BY <1>1, <1>4, ApplyTyped
  <2>2. apply.pc # "idle" /\ ~(apply.pc = "done")
    BY <1>4 DEF Apply, ApplyLoad, ReadOldSecret, ReadOldTask, MutateSecret, SaveConfig, MutateTask,
       Verify, RollbackFile, RestoreSecret, RollbackTask
  <2>3. ApplyInv'
    BY <1>1, <1>4, <2>1, <2>2, ApplyActs DEF ApplyInv
  <2>4. cli' \in CliTypes
    BY <1>1, <2>1, OthersKept DEF CliTypes
  <2>5. ensure' \in EnsureTypes /\ EnsureInv'
    BY <1>1, <2>1, EnsureWaits
  <2> QED BY <1>1, <2>1, <2>3, <2>4, <2>5 DEF SettingsInv, TypeInv
<1>5. CASE Ensure
  <2>1. /\ ensure' \in EnsureTypes /\ EnsureInv' /\ store' \in Stores
        /\ apply' = Alone(apply) /\ cli' = Alone(cli) /\ layout' = layout
        /\ failures' \in Nat /\ commands' \in Nat
    BY <1>1, <1>5, EnsureActs
  <2>2. apply' \in [pc : {"idle"}, alone : BOOLEAN] \cup Applying /\ ApplyInv'
    BY <1>1, <2>1, ApplyWaits
  <2>3. cli' \in CliTypes
    BY <1>1, <2>1, OthersKept DEF CliTypes
  <2> QED BY <1>1, <2>1, <2>2, <2>3 DEF SettingsInv, TypeInv
<1>6. CASE Cli \/ UserDisables
  <2>1. /\ cli' \in CliTypes /\ store' \in Stores
        /\ apply' = Alone(apply) /\ ensure' = Alone(ensure) /\ layout' = layout
        /\ failures' \in Nat /\ commands' \in Nat
    BY <1>1, <1>6, CliActs
  <2>2. apply' \in [pc : {"idle"}, alone : BOOLEAN] \cup Applying /\ ApplyInv'
    BY <1>1, <2>1, ApplyWaits
  <2>3. ensure' \in EnsureTypes /\ EnsureInv'
    BY <1>1, <2>1, EnsureWaits
  <2> QED BY <1>1, <2>1, <2>2, <2>3 DEF SettingsInv, TypeInv
<1>7. CASE UNCHANGED vars
  BY <1>1, <1>7 DEF vars, SettingsInv, TypeInv, ApplyInv, EnsureInv, ReadInv, StoreInv, Holds,
     NewFile, NewSecret, NewTask, autoChanged, secretChanged, taskChanges, SameTask
<1> QED BY <1>2, <1>3, <1>4, <1>5, <1>6, <1>7 DEF Next, Apply

-----------------------------------------------------------------------------
(* What the commands promise.                                              *)

\* An apply that no other command interferes with, and that ends, has done all that was
\* asked for; or put back file and credential, and the task if it was to change; or says
\* that its rollback is incomplete. Whichever call fails, or calls, of the apply or of
\* its rollback (applyRuntimeSettings, rollbackConfigApply).
THEOREM NothingByHalves == Spec => []AllOrNothing
<1>1. SettingsInv => AllOrNothing
  <2> SUFFICES ASSUME SettingsInv PROVE AllOrNothing
    OBVIOUS
  <2>1. SUFFICES ASSUME apply.pc = "done", apply.alone PROVE AllOrNothing
    BY DEF AllOrNothing, AppliedInFull, RolledBack, Answered
  <2>2. StoreInv /\ apply \in Applying
    BY <2>1 DEF SettingsInv, TypeInv, ApplyInv
  <2>3. AppliedInFull
    BY <2>1, <2>2 DEF AppliedInFull, Answered, StoreInv, Holds, NewFile, NewSecret, NewTask,
       Applying, Request
  <2>4. RolledBack
    BY <2>1, <2>2 DEF RolledBack, Answered, StoreInv
  <2> QED BY <2>3, <2>4 DEF AllOrNothing
<1> QED BY <1>1, InitInv, SettingsInductive, PTL DEF Spec

\* An ensure-owner that succeeds, with no other command in between, leaves the task
\* registered and enabled if the file asks for autostart, and unregistered if not,
\* whatever earlier commands left behind (ensureInstalledOwner).
THEOREM OwnerFollowsFile == Spec => []EnsureHeals
<1>1. SettingsInv => EnsureHeals
  BY DEF SettingsInv, EnsureInv, EnsureHeals
<1> QED BY <1>1, InitInv, SettingsInductive, PTL DEF Spec

=============================================================================
