# glow-ops: TLA+ models, checks and proofs

This directory models the concurrent and failure-prone parts of glow-server
(the Go packages under `internal/`), model-checks them with TLC and proves
their main safety properties with TLAPS.

## 1. The system

glow-server is one Go process. It starts and stops applications as child
processes, remembers them in an SQLite file, and offers an HTTP API (CLI) and
a TCP service (applications) that work on the same tables and files.

| Component (source) | State | Operations | What makes it correct |
|---|---|---|---|
| Application manager (`internal/manager/manager.go`) | mutex `mu`; goroutines `waitForExit`; child processes; `apps/<name>` | `StartApp`, `StopApp(WithOptions)`, `DeleteApp`, `waitForExit` | one instance per app; the record names the live one; a recorded stop or delete stays; every exit is recorded; no call hangs |
| Application table (`internal/statemanager`) | table `apps`, one JSON row per app | `SaveApp`, `GetApp`, `DeleteApp`, `ListApps` | whole-row upsert, survives the server |
| HTTP API (`internal/apiserver`) | none of its own | start, stop, delete, restart; upsert, update/render config, update/delete ingress; queries | a change of one field leaves the others alone; the two config stores agree |
| Configuration store (`internal/configmanager`) | cache, table `app_configs`, table `system_config` | `Get`, `Set` (merge or replace), system keys | cache and table agree; a merge loses nothing |
| Ingress (`internal/manager/nginx.go`) | `nginx/<name>.conf`, file in nginx's include directory | generate, remove, list | a file only for an app that declares port and domain |
| Log rotation, cleaning (`log_starter.go`, `log_cleaner.go`) | open file, size counter, backups | `Write`, `rotate`, cleaning by age and size | history is in order; only the oldest lines go; no file outgrows its limit |
| App center (`internal/appcenter`) | registry name -> connection | register, app_start, get_config, provision | a timely report does the life cycle no harm; the registry has connections that are served; no update is missed |
| Provisioning (`internal/provisioner`, `appcenter/provision.go`) | user maps in `system_config`, the MySQL and Redis servers | create database and user, store credentials, store DSN | what is stored and answered works; a repeated bind gives the same |
| Server file (`pkg/config`) | YAML file with the API key | load or initialise | an initialised key is never lost |
| Bootstrap, node status, types, scripts | none that matters | copy, query | not modelled, see section 7 |

How they interact: HTTP handlers call the manager, which takes `mu`; other
handlers and the app center call `SaveApp` on the same rows **without** `mu`.
Each started process has a goroutine that calls back into the manager when it
exits. The provisioner writes to the configuration store, `handleRenderConfig`
reads the application table.

Hard behaviours: exit reports that arrive late; the unlocked read-modify-write
of whole rows; a server restart between an effect and its record; failing
statements whose error is ignored; pids that are reused; partial failures of
multi-step operations on files, database servers and tables.

## 2. Modules

| Module | Models | Kind |
|---|---|---|
| `AppManager` | manager, application table, processes, server restarts, failing statements | specification, properties, inductive invariant |
| `AppLifecycle` | what clients are promised, without locks, pids or table | abstract specification |
| `AppManagerRefinement` | mapping of `AppManager` to `AppLifecycle` | refinement |
| `AppManagerProofs` | theorems about `AppManager` | proofs |
| `AppManagerRefinementProofs` | that every step of `AppManager` is one of `AppLifecycle` or none | proofs |
| `AppCenter` | the TCP service: connections, the store of active apps, reports, pushed updates; composed with `AppManager` | composition, properties, inductive invariant |
| `AppCenterProofs` | theorems about `AppCenter` | proofs |
| `Provisioner` | binding of databases and Redis users, over HTTP and TCP, and the system keys | specification, properties, inductive invariant |
| `ProvisionerProofs` | theorems about `Provisioner` | proofs |
| `LogFiles` | the log of one app: rotators and the cleaner | specification, properties, inductive invariant |
| `LogFilesProofs` | theorems about `LogFiles` | proofs |
| `ApiServer` | the HTTP handlers that save rows without the mutex, composed with `AppManager` | composition, properties, inductive invariant |
| `ApiServerProofs` | theorems about `ApiServer` | proofs |
| `ConfigManager` | the configuration store: cache, table, mutex, restarts | specification, properties, inductive invariant |
| `ConfigStore` | a store whose calls take effect at once | abstract specification |
| `ConfigManagerProofs` | theorems about `ConfigManager`, refinement included | proofs |
| `MCAppManager`, `MCAppManagerRefinement`, `MCApiServer`, `MCConfigManager`, `MCAppCenter`, `MCProvisioner`, `MCLogFiles` | sets of calls and changes, constraints, symmetry for TLC | instances |

### AppManager

State. `db` is the table `apps`; of a row the model keeps `status`, `pid`,
`exposed` (a port and a domain are declared) and `config`. `proc` is what the
kernel knows of a process *incarnation* (one per successful `cmd.Start`):
its pid, its app and whether it is live, told to stop, a zombie or gone.
`waiter` is the `waitForExit` goroutine of that process, `mu` the package
mutex, `pc`/`call`/`snap`/`child` a request goroutine with the call it serves,
the record it has read and the process it has started. `deployed` and `conf`
are the binary in the app directory and the nginx file. Neither
`RemoveNginxConfig` nor `os.RemoveAll` tells its caller that a removal failed:
`RemovesIngress` and `RemovesDirectory` may leave what they were to remove, and
the history variable `stray` knows the files left that way. `WritesIngress` may
end before the file is written, which a start only logs.

Steps. A critical section is cut at its writes, where another process can
exit or the server can die:

| Code | Actions |
|---|---|
| `StartApp` | `StartAlreadyRunning`, `StartRefused` (early returns); `StartPrepare` (read, merge, deploy, ingress) then `StartExec` then `StartSave`, or `StartExecFails` |
| `StopAppWithOptions` | `StopNothing`; `StopSignal` then `StopSave` |
| `DeleteApp` | `DeleteUnknown`; `DeleteRemove` then `DeleteSave` |
| `waitForExit` | `WaiterReap`; `WaiterIgnores` or `WaiterReads` then `WaiterSaves` |
| environment | `Request`, `Reply`, `ProcExit`, `ServerRestart` |

Taking the lock is merged with the first step of the section: what lies
between only reads what the lock protects. `GetApp` may fail and is then, as
in the code, "no such app"; a failing `SaveApp` is ignored by `StartApp` and
`waitForExit` and returned by the others. `ServerRestart` forgets threads,
goroutines and the lock, leaves table, files and processes, and reconciles
nothing, as the code does.

### AppLifecycle and AppManagerRefinement

`AppLifecycle` knows of an app only a phase and the instances nobody told to
stop. The mapping derives the phase from the record, or `launched` while a
start has a process it has not recorded yet, and the instances from the live
processes of the app. The refinement has two halves. `ImplementsLifecycle` is
its safety part, `Lifecycle!SafeSpec`: every step of the manager, its
goroutines and its processes is a step of the life cycle or none. It is proved.
`SettlesEventually` is `Lifecycle!Liveness`, the fairness of `Settle`: a
running app whose instance is gone is eventually called something else. It is
checked under `FairSpec`. `RowInv` is what the mapping needs beyond `IInv`.

### ApiServer

Extends `AppManager` with the handlers of `internal/apiserver/server.go` that
read a row, change it and save it back without `mu`. Each is cut at every
access to a store or a file, so that anything the manager does can come in
between:

| Handler | Actions |
|---|---|
| `handleUpsertApp`, `handleUpdateConfig` | `Reads`, `Saves` |
| `handleRenderConfig` | `Reads`, then `RenderFails` or `Saves` |
| `handleUpdateIngress`, `handleDeleteIngress` | `ChangesIngress`, `Reads`, `Saves` |
| `handleRestartApp` | `RestartStops`, a stop of `AppManager`, `RestartStarts`, a start, `RestartReplies` |
| server restart | `ApiRestart` |

`hsnap` is the row as it was read. `clean` is a history variable: it is true as
long as every save found the row as its handler had read it. A config is the
set of its top-level keys (a merge is a union, a replacement a new set). The
conflict of two handlers is not a guard somewhere: the model lets stale saves
happen, as the code does. The configuration store is not in this module: that
an apply and a config request end with `configmanager.Set`, and what a bind
sets, is in `ConfigManager` and `Provisioner`, and no property relates that
store to the rows. The `config.json` of a render is a copy nobody reads back.

### ConfigManager and ConfigStore

`Get` and `Set` take the mutex twice, for `EnsureInitialized` and for the
operation; other calls, and their effects, can come in between (`pc` is
`ready`). In the second section the row is written before the cache entry, and
the server can die between them (`written`). Loading can fail at once
(`LoadFails`), or end early: `rows.Err` is not looked at, and what was read
before an error stays in the cache (`LoadsSome`, allowed by `PartialLoads`).
The mapping to `ConfigStore`: the store is the table, and a call has taken
effect when its row is written (`Phase`).

### AppCenter

Extends `AppManager` with `internal/appcenter`: the processes connect over
TCP, report what they are, and get their configuration. A report is merged
into the row, which is read and saved without `mu`, as the HTTP handlers do.

| Code | Actions |
|---|---|
| `Start` (accept), a client | `Connects`, `Reports` |
| `handleConnection`, `Decode` and `RegisterActiveApp` | `Decodes` |
| register, app_start | `ReadsRow`, `SavesReport` (`mergeAppInfo` is `Merged`), for app_start then `GetsConfig` |
| get_config | `GetsConfig` |
| `Encode` of the reply | `Replies` |
| end of the handler, with `UnregisterActiveApp` | `Closes` |
| `configmanager.Set`, `SendConfigUpdate` | `Sets`, `SendConfigUpdate` |
| server restart | `CenterRestart` |

`active` is the store of active apps, `named` a handler's `connectedAppName`,
`csnap` the row it has read, `reply` and `got` the configuration that is to be
sent and that was sent last. A configuration is the number of the update that
made it, `update` the one that is set, `pushed` the newest that
`SendConfigUpdate` was called with. Nothing orders two callers of `Set` and
`SendConfigUpdate`: an update may be sent at any time after it was set, after
later ones too, again, or never (the HTTP handlers set and do not send).
`GetsConfig` finds nothing when no configuration exists, and may find nothing
when one does: `configmanager.Get` gives an error for a row that a load in part
has missed, and the reply has no data. A process may be gone when what it sent
is read. Of what a client can do wrong only this lateness is modelled: it
reports its own app and its own pid. The history variables `timely`, `doubled`
and `slipped` say which of the hazards of the code have happened.
`enrichAppInfoFromPID` fills fields nobody decides on, and the reserved name
`glow-server` is no app.

`SendConfigUpdate` and `Start` are called from the main program, which is not
in the repository; they are modelled as they are exported, an update by any
caller at any time.

### Provisioner

A bind, over HTTP (`ProvisionMySQL`, `ProvisionRedis`) or TCP
(`provisionMySQL`, `provisionRedis` of the app center), cut at every statement
on MySQL, Redis and `system_config`; the four are one machine with the
actions below, which they share as far as their code is the same.

| Code | Actions |
|---|---|
| request | `Asks` |
| `information_schema.SCHEMATA`, `ACL GETUSER` | `Finds`, `FindsNone` |
| existing: read the map, use its entry | `Reuses` |
| existing, no entry: refuse, ask on the terminal | `NeedsCredentials`, `IsTyped` |
| existing, password given: log in with it | `TakesGiven`, `Verifies`; `TakesUntried` when `sql.Open` fails over TCP |
| new: `CREATE DATABASE`, then `CREATE USER` and `GRANT` | `CreatesDatabase`, `CreatesUser` |
| new: `ACL SETUSER` | `SetsUser` |
| read the map again, write it | `RereadsUsers`, `SavesUsers` |
| `configmanager.Set`, answer | `Binds` |
| a statement that fails, the server's death | `Fails`, `Restart` |

`schemas` and `accepted` are the two external servers: which databases exist,
and the passwords each user can log in with (`ACL SETUSER name >p` adds one,
`CREATE USER IF NOT EXISTS` keeps the old one). `stored` has both rows of
`system_config`: per resource, the entry of the map. `view` is a map that a
request has read; a save writes all of `view` but for one entry. With `Faults`, a
map may fail to be read (it is then empty) or written, and `ACL GETUSER` may
fail (the user is then taken not to exist); that any other statement fails
needs no switch. `told`, `made`, `orphans`, `unproven` and `clean` are history
variables. The user of a database has the database's name, so a database stands
for both; a user of that name may be left over from a database that is gone,
or there before it: such users are among the initial states. `unproven` has the
passwords that go on without having been tried or set: generated ones for a
user that `CREATE USER IF NOT EXISTS` found, and typed ones that `sql.Open`
could not make a connection string of (over TCP the login is then skipped). A
dry run that is given a password looks at it no further and answers a
connection string without user and password: `hand` is `None` then.
Over HTTP the Redis user has the name of the app: with one app
and one user that is what the run has.

### LogFiles

The log of one app: name 0 is the current file, name *i* the backup `.log.i`,
a file the set of the (numbered) lines in it and its modification time. Each
start of the app makes a `LogRotator`; that of a process which has been told
to stop may still be at work. Nothing protects the names, so each operation on
them is a step.

| Code | Actions |
|---|---|
| `NewLogRotator`, or the plain file when that fails | `NewLogRotator`, `StartsPlain` |
| `Write` | `Write` (appends, or finds the file full), `WritesPending` |
| `rotate` | `Shifts` (one backup a step), `Renames`, `Reopens` |
| a write that fails, the end of the process | `WriteFails`, `ProcessEnds` |
| `cleanByAge` | `cleanByAge`, `ChecksAge`, `RemovesOld` |
| `cleanByTotalSize` | `cleanByTotalSize`, `Lists`, `Sorts`, `RemovesOldest`, `Finishes` |
| server restart | `Restart` |

An open file follows its name: `rename` and `remove` change `handle`, the name
that what a rotator has open goes by. A server that dies takes its rotators
with it, but not a process that was given the plain file. The history variable
`mishaps` collects what has happened of the things the code has no answer to,
so that each property can name those it is stated without.
`StartPeriodicCleanup` is called from the main program; the cleaner runs at any
time.

## 3. Properties and what the runs show

| Run | Properties | What it shows |
|---|---|---|
| `manager_safety` | `TypeOK`, `IInv`, `SingleInstance`, `LiveIsRecorded`, `RunningIsAttended`, `IngressHasRecord`, `StoppedOrDeletedIsFinal` | mutex and pid check keep one recorded instance per app, never lose a live one, and a late exit report undoes nothing, with a server restart or a failing statement at any point |
| `manager_lifecycle` | `RowInv`, `ImplementsLifecycle`, `SettlesEventually`, `ExitIsRecorded`, `RequestsReturn` | the manager implements the abstract life cycle, liveness included; every exit of a recorded process is recorded, every call returns |
| `config_store` | `CacheCoherent`, `IInv`, `ImplementsStore` | a cache that is not empty is a complete copy of the table; `Get` and `Set` behave as single operations |
| `config_liveness` | `CallsReturn` | they return, whatever fails |
| `api_lifecycle` | `ApiIInv`, `SavesKeepLifecycle` | apply, config, ingress and restart requests break the guarantees of the manager only by overwriting newer rows |
| `api_pids` | `ApiIInv`, `OwnProcessSignalled` | even what a stale save brings back never leads to a signal to another app's process |
| `appcenter` | `CenterIInv`, `ReportsKeepLifecycle`, `ActiveIsServed`, `ConnectedIsListed`, `NoUpdateMissed` | timely reports do the life cycle no harm; what the store of active apps has can be written to; no update that is sent passes a connected app by |
| `provision` | `CredentialsWork`, `CreatedIsStored`, `IInv`, `BindIsRepeatable` | a password that is stored, bound or answered works, but for those that were neither tried nor set (two ways), in any interleaving, with statements that fail and a server that dies; a later bind answers the same unless a map was overwritten |
| `logs` | `TypeOK`, `IInv`, `HistoryInOrder`, `OldestGoFirst`, `FilesWithinLimit`, `BackupsAreKept` | backups are in order and lose the oldest lines first, in the middle of a rotation, after a crash in it, and whatever the cleaner does; a rotation loses lines of the last backup only, and of that only when all backups exist and are full |

Runs that TLC ends with a violation, each against a sentence of the
repository (`findings` in PROJECT.json quotes it):

| Run | The code |
|---|---|
| `start_after_restart` | a server restart loses the goroutine that would record an exit; the record stays RUNNING, and a start answers success and starts nothing |
| `bound_not_reused` | two binds read the map of passwords, the second save drops the entry of the first; the next bind of that database asks for a password that only the server knew |
| `cleaner_deletes_active` | the cleaner's pattern matches the current `*.log`; the app goes on writing to a file without a name |

Further places where the models show the code and a document apart, without a
run of their own: `StartApp` builds the record it saves without the `Config`
of the row (`NewRecord`; openspec config-management asks for it to persist); a
handler that read a row before a start saves RUNNING away, and the next start
runs the app a second time, or brings a deleted row back (`Saves`, the
exception `clean`; openspec app-management); a delete leaves the app's row in
`app_configs` (`DeleteSave` changes the table only; openspec app-management);
a bind writes to the configuration store (`Binds`) while a render takes the
config of the `apps` row (openspec resource-provisioning); a report that
is read late brings a stopped process back as RUNNING (`SavesReport`, the
exception `timely`); `SendConfigUpdate` assumes that the handler is not
writing, which nothing ensures (the exception `slipped`); `DeleteApp` removes
the row of an app whose ingress file it could not remove, and answers success
(the exception `stray`).

What the code does not prevent is in the models and named in the passing
properties as their exception:
`SingleInstance`, `LiveIsRecorded` and `RunningIsAttended` are stated for
`faults = 0` and pids that are not reused, `RunningIsAttended` also for
`crashes = 0`, `IngressHasRecord` but for files that could not be removed
(`stray`), `SavesKeepLifecycle` while `clean`, `CacheCoherent` for
`~PartialLoads`. (A failing `GetApp` is taken for "no such app", so that a
start launches a second instance; a goroutine that waits for the lock can take
a new process with the same pid for its own; after loading that ended early, a
merge starts from an empty config and drops the keys of the row.)

Likewise in the newer modules. `ReportsKeepLifecycle` is stated while
`timely`: no report overwrote a row that is newer than what it was merged
with, or came from a process that had ended or whom the manager had lost.
`ConnectedIsListed` excepts apps announced on two connections at once
(`doubled`): the end of the first takes the second out of the store.
`NoUpdateMissed` excepts an app that was sent a newer configuration before an
older one, or whose configuration could not be read (`slipped`).
`CredentialsWork` excepts, password by password, what was neither tried nor set
(`unproven`): a user that was there keeps its password under `CREATE USER IF
NOT EXISTS`, be it left over or made by a concurrent request, while the request
stores its own; and a bind over TCP skips the login when `sql.Open` fails. A dry
run that is given a password answers none.
`BindIsRepeatable` and `CreatedIsStored` hold while the maps are `clean`,
`CreatedIsStored` but for creations that were cut off (`orphans`): their
password is nowhere, and a retry is asked for it. Of the log, two rotators at
once (`overlap`, `clash`), ignored errors (`fault`), the cleaner against a
rotation (`race`), the active file (`active`) and a cleaning by age that ends
early, the youngest files gone (`cut`) each take some of the promises away;
every property names which. `BackupsAreKept` has two degrees: unless two
rotations ran at once or an operation failed, a rotation loses only lines of
the last backup; that no backup is missing then, and each is full, is stated
for a log to which nothing of this has happened. (Two rotators that follow
each other, with a cleaning by age in between, lose the last backup while
others are missing: the second rotator's idea of the size is the first's.)

## 4. Bounds

- **Apps.** The manager's rows are independent but for the mutex, and nothing
  is decided from two of them, so one app shows all interleavings on a row;
  `api_pids` and `config_store` have two because they are about apps getting
  mixed up and about a complete cache.
- **Threads.** Two request threads (with the goroutines of the processes, up
  to five that compete for `mu`) give every order of two calls; a third would
  have to wait for the same mutex. `api_lifecycle` and `api_pids` have one
  thread and one handler beside two processes: the handlers are what is new
  there. That leaves out a call that comes between the two halves of a restart,
  which the theorems cover: they are for any number of threads.
- **Procs, Pids.** Incarnations are bounded, so starts end at `Procs`: three
  in `manager_safety` (an old one that reports late, one that runs, one that
  is being started), two elsewhere, also in `api_pids`, where two apps have
  one each at the same time. `PidReuse` is FALSE in every run; what
  is claimed in spite of it (`IngressHasRecord`, `StoppedOrDeletedIsFinal`) is
  proved.
- **`MaxCrashes`, `MaxFaults`.** One restart and one failing statement, at any
  point. `ConfigManager` has neither bound.
- **Configs.** No contents where a property does not look at them; two keys
  in `ConfigManager`, so that merge and replace differ (that the new value of a
  key wins is left to the proof).
- **Provisioner.** Two requests at a time show every lost update, since each
  reads and writes a map once. One database is new, one exists, and the Redis
  user is new: all branches, and an entry of the map to be lost. Two secrets
  mean that two creations are possible per behaviour, one of them perhaps of
  what was created before; the database to be created has a user already in
  some of the initial states. A wrong password is typed over TCP; one that is
  given over HTTP ends like any other failing login. `FewSecrets` generates
  each password once, since random ones differ, and allows one mishap of a
  creation or a login per behaviour (one password that is unproven, or one
  creation cut off).
- **LogFiles.** Two backups, so that one shifts and one falls out; files of
  three lines, written one or two at a time, so that a write may not fit a
  file that is not full; seven lines fill all files and make a full set drop
  its oldest one. The cleaner's
  total is below what three files hold. `OneMishap` keeps to one kind of mishap
  per behaviour, as often as it likes: the properties name the mishaps they
  except one by one.
- **AppCenter.** One app with two successive processes and two connections: an
  old connection and a new one. `OnlyTimely` cuts a behaviour after a late
  report or an update that slipped, where the properties are silent or change
  no more, and lets a restart or a failing statement happen only before the app
  is announced twice or updated. Two requests at once, an update and a failing
  statement come while the manager is at rest: the manager reads nothing of
  connections and updates. Two updates, so that one may be sent when the next
  is set, or never; after the first, one request is served at a time, and
  after the second or a mishap there is one connection. The theorems have none
  of these bounds.
- **Constraints.** `OnlyClean` cuts `api_lifecycle` after a stale save, where
  `SavesKeepLifecycle` says nothing more (`clean` never becomes true again).
  `OneMishap` allows either a restart or a failing statement, and keeps the
  apps of `api_pids` without port, domain and config, started from a command on
  the path, the renders to one of the two apps (apps are interchangeable);
  `NotExposed` keeps those
  of `manager_lifecycle` without port and domain. No step of these runs
  declares any, so that these parts only choose initial states.
- **Symmetry** is used only in runs without liveness, on threads, handlers,
  processes and pids (and keys and apps of `ConfigManager`); no definition
  there singles one out.

No run turns deadlock checking off: clients can always make another call.

## 5. Fairness

`FairSpec` of `AppManager` and `ConfigManager`: a goroutine that can run is
scheduled (weak fairness of every step inside a critical section and of
`cmd.Wait` returning for a zombie), and one that waits for the mutex gets it
(strong fairness of the steps that take it, because it is free and taken again
in between: Go's mutexes hand over to a waiter that has starved for a
millisecond). `cmd.Wait` also waits for the copying of the output, so the
second assumption behind `WaiterReap` is that descendants of the app close the
pipe they inherited. Nothing is assumed of clients (`Request`, `Reply`), of
the applications (`ProcExit`), or of the server (`ServerRestart`): the liveness
of `AppManager` is stated for runs without restart, where the goroutines that
must act still exist.

## 6. Proofs

Proved with TLAPS for any sets of apps (at least one), threads, handlers,
connections, processes, pids, configs, calls and rotators, any number of
restarts and failing statements, and any limits of the log. Assumed are only
the named assumptions on constants: `ConstantsAssumption`, `ApiAssumption`,
`ConfigAssumption`, `CenterAssumption`, `ProvisionAssumption` and
`LogAssumption`. They say that the special values are none of the ordinary
ones, the switches are Booleans, the bounds numbers and the requests of the
form that is decoded; of the log, that it has at least one backup and that no
single write is longer than a file (`os/exec` copies the output 32 KB at a time,
and `StartApp` gives the rotator 10 MB). Every property of a passing run that
is not a liveness property is a theorem.

### AppManagerProofs

`Spec => []IInv`, and from it `TypeCorrect`, `SingleInstanceHolds`,
`LiveIsRecordedHolds`, `RunningIsAttendedHolds`, `IngressHasRecordHolds` and
`StoppedOrDeletedIsFinalHolds`. None of these properties is inductive. The
invariant comes in parts, by what they depend on:

- `ControlInv` (`Typed`, `LockInv`, `ProcInv`, `ChildInv`): mutex, goroutines
  and processes hang together, whatever the table says. `ChildInv` ties a
  process without a goroutine to the call that has just started it.
- `LifeInv` (`CallInv`, `LiveIsRecorded`, `RunningHasProcess`): table and
  processes agree, with what a call has to know while it is at work.
- `StartedInv`, `SnapInv`, `IngressHasRecord`: what holds only because all who
  write the table hold `mu`. The last has to follow a delete between the
  removal of the file and that of the row: it is gone by then, or `stray`.

`LiveIsRecorded` survives `WaiterSaves` only because the snapshot is still the
row (`SnapInv`), which holds because everyone who writes the row holds `mu`
(`LockInv`), and because the pid in the record is that of the process the
goroutine waited for and of no live one (`ProcInv`). It survives `StartSave`
because the app had no live process when the start checked the row, and has
none since (`CallInv`). `RunningIsAttended` is the counterpart: what a RUNNING
record names is attended by a goroutine. `SingleInstance` follows from
`LiveIsRecorded`: two live processes would be recorded with one pid. There is a
lemma for each action and part. They are about the manager's steps and assume
of the rest of the invariant only what they use, so that they hold as well
where others write the table.

### ApiServerProofs

`ApiSpec => []ApiIInv`, `SavesKeepLifecycleHolds` and
`OwnProcessSignalledHolds`, for the handlers and the manager together. The
handlers never touch mutex, goroutines or processes, so `ControlInv` holds
throughout. `LifeInv` and `StartedInv` hold while `clean`: a save that finds
the row as it was read leaves status and pid alone, which is all that they look
at. `SavesKeepLifecycle` follows as in the manager. `OwnedInv`
needs no `clean`: a pid in a row, or in the copy a handler is about to save, was
given to a process of that app, however old it is. Hence a signal goes to a
process of the app it is meant for while pids are not reused.

### AppCenterProofs

`CenterSpec => []CenterIInv`, `ActiveIsServedHolds`, `ConnectedIsListedHolds`,
`NoUpdateMissedHolds` and `ReportsKeepLifecycleHolds`, for the app center and
the manager together. Reports write the table without `mu`; `ControlInv` holds
in spite of them, and `LifeInv` while they are `timely`: a timely report is
merged into the row as it is, and can only make it say RUNNING with the pid of
a process that lives and has its goroutine, or the call that started it
(`Entitled`). That a process, once started,
is of one app (`ProcessKept`) makes a connection announce one name only
(`ConnInv`); an entry of the store goes with that name (`Served`), and without
double announcements a name belongs to one connection. `UpdateInv` strengthens
`NoUpdateMissed` to every point of a request: what the connection has, or is
about to be sent in reply, is not older than the newest update that was sent,
or it has yet to read it; and then it will not be older, because what is sent
was set before (`SentWasSet`).

### AppManagerRefinementProofs

`RowInvariant`, `Spec => [](IInv /\ RowInv)`, and `LifecycleImplemented`:
without restart, failing statement and reuse of pids, `Spec =>
ImplementsLifecycle`. These are the conditions under which the life cycle is
promised, and those of the run. For each action there is a lemma that gives
the abstract one: `StartExec` is `Launch`, which needs that the app has no live
process (`CallInv`) and is not RUNNING; `StartSave` is `Confirm`; a signal or
an exit is `Leave`; `StopSave`, `DeleteSave` and `WaiterSaves` are `Settle`,
which needs that the process the row names has gone (`LifeInv`, `RowInv`).
`RowInv` supplies what the table alone does not say: only a RUNNING row has a
pid, so that a stop that has sent its signal takes the app from RUNNING.

### ConfigManagerProofs

`Spec => []IInv`, `CacheIsCoherent`, and `StoreImplemented`, `Spec =>
Store!Spec` under `~PartialLoads`. The mutex says that at most one call is
between row and cache (`pc = "written"` iff `mu` is its), whose row is what it
will put in the cache; a call that is past `EnsureInitialized` finds a cache
that is not empty, or a table that is: hence a miss in the cache is a miss in
the table, and a merge with the cache entry is one with the row.

### ProvisionerProofs

`Spec => []IInv`, `CredentialsWorkHolds`, `CreatedIsStoredHolds` and
`BindIsRepeatableHolds`, from `ProvisionAssumption` (databases are not Redis
users, what existed has no generated password, given passwords are passwords)
for any number of requests at a time. Passwords are never taken away
(`Monotone`), so that what works goes on working; one lemma per variable says
where what is in it came from (`StoredEffect`, `ViewEffect`, `HandEffect`,
...), and each source works: a map that was read, a login, a statement that has
just set it; a password that neither was goes to `unproven` in the step that takes
it. `CleanIsKept` says that clean maps mean one password
per resource, whose entry stays once it was told; `CreatedIsStored` goes along
because a creation is in the hands of a request until it is stored
(`CreatesOn`).

### LogFilesProofs

`Spec => []IInv`, `TypeCorrect`, `HistoryInOrderHolds`,
`FilesWithinLimitHolds`, `OldestGoFirstHolds`, and the action property
`BackupsAreKeptHolds`. Mishaps never go away, so each part of the invariant can
be stated for as many of them as it survives, and rest on parts that survive
more; the proof goes from the robust ones to the delicate ones:

1. `DiskInv` (always): what is open is a file that exists or nobody's.
2. `AloneInv` (no overlap): one rotator writes, and it writes to the current
   file or to one that was removed. `RoomInv` (no clash, no failed operation):
   who shifts a backup has made room for it, but for the last one.
3. `HistoryInOrder` (no overlap): a rename keeps the order of files, because
   it takes a file by one name, whether or not it replaces what was there
   (`RenameKeepsOrder`), and lines are appended to the current file only, or to
   one without a name.
4. `SizeInv` (no overlap, no failed operation): the rotator's counter is the
   length of its file, hence `FilesWithinLimit`.
5. `AgeInv` (nothing but crashes): a backup is full, and modification times are
   in the order of names, each file's younger than those of later names.
6. `CleanerInv` (nothing but crashes): the list the cleaner works from is still
   what is on disk and sorted, and a walk by age has yet to come by whatever it
   is going to remove. `RemovedIsOlder` concludes that what it removes is older
   than everything that stays, which gives `LatestKept`, from which
   `OldestGoFirst` follows between two cleanings by age.
7. `NoneMissing` (no mishap): no backup is missing below another one but for
   the place a rotation has made free. With it and `RoomInv`, `BackupsAreKept`.

The 15 actions come down to five kinds of steps as far as files go (`Quiet`,
`Opened`, `Appended`, `Renamed`, `Removed`; `KindOfStep`), so that each part is
proved by kind of step, not by action.

### Only model-checked

Liveness: `ExitIsRecorded`, `RequestsReturn`, `SettlesEventually` and
`CallsReturn`, because the prover does not reason about fairness or ENABLED.
The runs that end with a violation are TLC's by nature. That a log without
mishaps is what a deployment has is nobody's theorem: the mishaps are the
properties' stated exceptions.

## 7. Not modelled

- Bootstrap over SSH, install and build scripts: sequences of I/O without
  state of their own.
- Node status, free ports, listings: they only read. `GetFreePort` has no
  caller in the repository.
- The API client and the client's configuration file: no concurrency, no state
  shared with another process.
- Contents of nginx files, of rendered files and of log lines; the matching of
  keys in HTTP authentication.
- The upload of a binary: a file under `tmp` that only the start named with it
  reads.
- The server's configuration file: one process writes it once, at the first
  start, and a crash at that moment leaves it empty; there is no more to its
  behaviour.
- nginx's own directory and its reloads: the copy made there is a best effort
  whose errors are the outcome of an ingress request and of nothing else.
- The administrators' credentials of MySQL and Redis (`mysql_info`,
  `redis_info`): that they are missing is one of the ways a bind fails.
- `enrichAppInfoFromPID` and the read-only queries of the app center.

## 8. Plan

The proofs planned so far are done. What is left, in this order:

1. The life cycle across restarts: `AppLifecycle` with an action for a server
   that dies, refined for `MaxCrashes > 0`; today the refinement is stated
   for one life of the server.
2. `ApiServer` with a `ConfigStore`, and what the code keeps up between the
   rows and that store, which is little: a start drops the config of the row, a
   bind changes the store alone, a delete leaves it.
3. Hazards that are in the models and that no property covers: what a failing
   `GetApp` or `SaveApp` leaves behind, stale pids after a restart. The code
   has no answer to them; a property could say how far the damage goes (one
   app, until its next stop).
