# TLA+ specifications of configsctl

configsctl applies OpenTofu plans to hosts and backends that several operators
and services share. Two mechanisms keep their changes apart: a lease on each
target host (the *host lock*), and, on the controller, a *pause* under which a
*state migration* may move resource instances between backends. Both are
protocols between processes that may stop at any point. Between them lies the
*planned mutation*: the command that plans, asks, locks and applies. Around
them stand the *gate*, which starts such commands for others and keeps their
records, the process group and the redacted output of every command, and the
installation of providers, which several processes may run at once. The modules
are translated from the source; `PROJECT.json` names
the lines each definition stands for, the hazards the properties are aimed at,
and a mutated definition that breaks each property.

## 1. The system

### 1.1 Components

| component | code | state | operations | hard behaviour |
|---|---|---|---|---|
| host lock script | `hostlock/lock.sh` | one record per lock file (run id, expiry), a guard directory | acquire, renew, extend, release | runs late, runs after its sender died, whole-second clock, stale guards |
| host lock Set | `hostlock/set.go`, `additional.go`, `scope.go`, `state.go`, `hostlock.go` | held hosts, loss deadlines, lease files declared by children, renewal loop | AcquireAll, AcquireAdditional, KeepRenewed, Extend, Abandon, ReleaseAll, Scope.Check | partial failure, late and lost answers, deadlines racing renewals |
| lock commands | `cmd/configsctl/hostlocks.go`, `lock.go` | one Set for each run id | take locks, keep them renewed, `lock extend` | order of Set operations around a child process |
| migration pause | `internal/migrationpause`, `internal/statemigration/pause.go`, `cmd/configsctl/migrationguard.go` | `pause.json`, the flock of `writers.lock` | AcquireWriter, AcquireExclusive, pause, requirePause, release | look and lease are apart; crashes; power loss |
| migration engine | `internal/statemigration/engine.go`, `restore.go`, `cleanup.go`, `manifest.go`, `state.go`, `native.go` | journal, snapshots, one state in each backend | prepare, preflight, execute/resume, verify, transfer, restore, verify-restored | any command ends anywhere and is run again |
| migration plans | `internal/statemigration/baseline*.go`, `plan*.go` | frozen baseline of native plans | establish, check, compare | drift between plans |
| migration session | `internal/statemigration/session.go`, `cmd/configsctl/migrationcoordinator.go`, `migrationcredentials.go` | the locks of a command, whether its session is closed or canceled and which operation is active, accounts to rotate | WithSession, acquire, validate, rotate, close | closing while an operation runs, rotation between validation and use |
| planned mutation | `cmd/configsctl/tofuexplicit.go`, `tofumutation.go`, `tofusource.go`, `tofuinstalled.go`, `tofucredentials.go`, `tofurun`, `internal/tofuplansource` | private and reviewed plan, scope, pinned source; shared: saved plan, source records, the password of a device | plan, record, decide, confirm, lock, check, apply, cancel, release | what was looked at is stale when it is used; locks are lost while the operator is asked |
| lock decision | `internal/tofulock` | none | hosts a plan touches | deletes, renames, unknown targets |
| gate | `internal/gate`, `cmd/configsctl/gate.go` | run records, journal, worktrees, a systemd unit for each run | start, finish, status, logs, unlock, runs | two writers of a record, a reader that stops early, kills of either |
| process groups | `internal/procgroup`, `tofurun/output.go`, `internal/tofurun` | a process group, a pipe for its output | run, wait, stop, drain | survivors of SIGTERM, forks while polled, a pipe that stays open |
| protected output | `internal/redact` | automaton and the bytes held back | write, close | a secret split over chunks, overlapping secrets, a write that fails |
| provider installation | `cmd/configsctl/providersinstall.go` | staging directories, archive cache, mirror | download, check, extract, publish, sweep leftovers | two at once, reused process ids, power loss |
| installed source, vault, tokens, run log, lint, oracle, commands | see `PROJECT.json` | files and calls to services | reads, digests, requests | sequential; covered by their tests |

### 1.2 How they interact

A command that changes infrastructure first takes the shared lease of
`writers.lock` (look at the pause, lease, look again), then a Set of host locks,
and runs OpenTofu while `KeepRenewed` renews the Set. `Scope.Check` is asked
before each change and reports a lost lock; child processes extend a lease by a
file in the state directory of the Set, which the parent reads before each
round. A migration takes the same `writers.lock` exclusively for each command
(or for a whole session), publishes `pause.json` before its first push and
removes it when every state and every plan is proved. The gate starts commands
in systemd units, and its operator may unlock a host by deleting the record.
Every OpenTofu command runs as a process group whose output passes a redactor on
its way to the run log and to the console.

### 1.3 What must hold

* Host lock: while a Set reports its scope as usable, the record of every host
  names its run and outlives the time needed to stop; nobody takes a record
  that has not expired; a dead run blocks a host for a bounded time; a finished
  Set leaves nothing behind that it had an answer for; a loss is noticed.
* Pause: an unproved migration and an admitted writer never coexist, through
  crashes and power loss.
* Migration: writers see each instance at home, or nothing, or everything where
  the manifest moved it; no write of theirs is overwritten; the journal is true;
  somebody can always finish.
* Planned mutation: OpenTofu is given the plan that was reviewed, made from the
  source that was verified, under locks nobody else holds, with a password the
  device accepts; a command whose locks are lost ends.
* Session: operations of one command run one at a time and under its locks; what
  was validated and rotated holds when the action runs; each command ends.
* Gate: the record of a run has one writer at a time, is whole and true, and its
  outcome stays; the request it keeps is masked; who follows a run sees what was
  there when it last copied, and stops.
* Process group: nothing of it that configsctl may signal outlives its command,
  the command returns whatever descendants and destinations do, and its output
  arrives whole and redacted, if the copy was not abandoned.
* Providers: the mirror holds whole binaries of pinned archives, which nobody
  replaces; installations do not disturb one another.

## 2. Modules

| abstract | promises | implemented by |
|---|---|---|
| `ExclusiveLease` | one owner of a host at a time | `HostLock`: scopes are exclusive; `Mutation`: an apply runs only inside its scope |
| `LockRecord` | one record that a request reads and changes in one step | `LockGuard` |
| `WriteAdmission` | writers and unproved migrations exclude each other | `MigrationPause`, and `MigrationSession` composed of it |
| `AtomicTransfer` | writers see everything at home, nothing, or everything moved | `Migration` |

The detailed modules declare the abstract ones with `INSTANCE`, under the same
names or with a refinement mapping. Two seams are argued and not composed:

* `HostLock` takes a call of `lock.sh` as one step (`RunScript`). `LockGuard`
  shows that a call, taken apart, is one step of the record.
* `Migration` relies on the promise of `WriteAdmission`: its ordinary writers act
  in one step and only outside the pause and outside commands, because a command
  of the engine holds the exclusive lease from its first to its last step.

`MigrationSession` EXTENDS `MigrationPause` and `MigrationCredentials`, and
`RunGroup` EXTENDS `Redact`: these are compositions, checked as one system.

### 2.1 HostLock

`file[f]` is the record a lock file holds, `net` the requests on their way and
`answers` what a process still waits for. A request runs at any later time,
also after its sender gave up or died (`RunScript`), or never (`Drop`).
`ScriptAcquire`, `ScriptRenew` and `ScriptRelease` are the branches of `main`
in `lock.sh`; a host clock shows whole seconds (`HostClock`, `WholeSeconds`).

For each run, `phase`, `todo`, `await`, `held` and `fresh` are the loops of
`AcquireAllWithOptions`, `AcquireAdditional` and `releaseAll`: `Begin`,
`SendAcquire`, `AcquireGranted`, `AcquireRefused`, `AcquireFailed`, `Adopt`,
`AdoptFailed`, `GiveBack`, `SendRelease`, `ReleaseAnswered`, `ReleaseFailed`,
`ReleaseDone`. `loop`, `round`, `asked` and `lost` are `KeepRenewed`, `RenewAll`
and `watchDeadlines`: `RenewRound`, `RenewAnswered`, `RenewFailed`,
`RoundDrained`, `WatchDeadlines`, `StopRenewal`. `declared` is what children
wrote with `Extend`. `unsettled` is a history variable.

Assumed: the clocks of a host and the controller run at the same speed; a run id
has one Set; `lock.sh` runs as one step (see `LockGuard`); rounds start at least
`RenewInterval` apart; hosts are taken in any order. `Adopt` is one step: the
checks before it, `writeState` and the adoption (`additional.go:49-63`) are not
taken apart. A Set that is lost, or a deadline that passes, between them leaves a
Set that `usable` refuses, as every later use of it asks again. `MaxExtends` bounds
the extends of a run that have no answer yet; the code has no such bound.
`ReleaseAllChecked` has no caller and is left out.

### 2.2 MigrationPause

`writer[w]` goes out, looked, leased, in: the two looks around the shared flock
of `AcquireWriter`. `engine[m]` goes out, leased, published, working, sealed,
removed: a command of a migration up to the sync after the removal of its pause.
`pause` is the owner that `pause.json` names, `disk` what is left of it after a
power loss, and `moving` the migrations that pushed a state and are not proved.
`StopEngine` and `LeaveWriter` end a process anywhere; the kernel drops its
lease. `ChildrenOutlive` lets the OpenTofu child of a killed writer go on.
`LinkSettles` says that a pause whose publisher died before its sync reaches the
disk before another command uses it; section 4 shows what happens otherwise.

### 2.3 Migration

`backend[w]` is a state: lineage, serial, the instances it owns, and `rev`, which
counts the writes of ordinary writers and stands for the digest of the contents.
`phase`, `forward`, `written`, `recovery`, `restored` and `baseline` are the
fields of the journal. `command`, `step`, `todo` and `target` are the command
that runs, in memory only: `Stop` forgets them and keeps all the rest.

| code | actions |
|---|---|
| `Prepare`, `Preflight` | `Prepare`, `Preflight` |
| `Execute` | `BeginExecute`, `EstablishBaseline`, `Pause`, `CheckSet`, `FinishExecute` |
| `writeOne` | `FindWritten`, `ChooseWrite`, `PushPrepared`, `ConfirmPushed` |
| `Verify` | `BeginVerify`, `VerifyPlans`, `SealVerified`, `ReleasePause` |
| `Restore` | `BeginRestore`, `Pause`, `CaptureRestoration`, `CheckRestoration`, `FinishRestore` |
| `restoreWorkspace` | `FindRestored`, `ChooseRestore`, `PushInverse`, `ConfirmInverse` |
| `VerifyRestored` | `BeginVerifyRestored`, `VerifyRestoredPlans`, `SealRestored`, `ReleasePause` |

`Pushed` is what `tofu state push` may leave in a backend: it refuses another
lineage or an older serial, may raise the serial, and an absent backend may make
a lineage of its own. `Moved` is `tofu state mv`. `MatchesAfter` is
`matchesAfter` with `absentStateMetadata`, `Inverse` is `reverseTransfers` with
`removeDuplicateInstances`.

Assumed: one private directory for each migration; what a command has in memory
is what it saved, at the end of each action; several moves of one file raise its
serial once; a push ends with its executor (a push of a killed executor that
lands later is not modelled); the verdict on native plans is a free choice.
`Prepare` is one step: it compares every backend with the reviewed manifest and
serials only grow.

### 2.4 Mutation

One process of `configsctl tofu` for each run: an apply of its own plan, an apply
of the saved plan, or `plan -out`; each with or without the credential of a
device. `job` says which, `stage` how far it has come. `tree` is the checkout or
the installed files, `pinned` the verified copy of the latter, `savedPlan` the
file of `plan -out`, and `record` the cache of `tofuplansource`, keyed by the
bytes of a plan. A plan is what the commands tell apart: the hosts it touches,
whether something is pending, and the source it was made from.

| code | actions |
|---|---|
| `prepareInstalledTofuSource`, `requireMergedTofuSource` | `Open`, `CopySource`, `RequireSource` |
| `prepareExplicitCredential`, `lockCredentialHost`, `PrepareCredential` | `LockCredential`, `Rotate` |
| `prepareMutationPlan`, `executeTofu`, `recordTofuPlanSource` | `InspectSource`, `StartPlan`, `EndPlan`, `RecordSource` |
| `copyPrivateFile`, `requireTofuPlanSource` | `CopySaved`, `RequireSaved` |
| `runPlannedMutation` after the plan | `Decide`, `Confirm`, `LockPlanned`, `RequireCurrent` |
| `tofurun.Run` | `Prepare`, `StartApply`, `TofuExits` |
| cancellation, `RunGroup`, deferred calls | `Cancel`, `Interrupt`, `TofuStops`, `Fail`, `Release` |
| a lost Set and its record, an edit, an installation | `Lose`, `Lapse`, `ChangeTree` |

Any call may return an error (`Fail`), a process may be killed (`Crash`). Of the
host lock only what a command sees is kept: hosts are taken together (partial
acquisition is in `HostLock`), a lost Set stays lost, and a record of a lost Set
lapses only when OpenTofu had the time to stop, which is `ScopeIsBacked` of
`HostLock`. Where a change has no declared owner (`Stray`) the command ends.

Assumed: nobody else changes the private directories, so that the digest check
of `RequireCurrent` never refuses; OpenTofu dies with a killed configsctl
(`ChildrenOutlive` of `MigrationPause` is the other case for the pause); a request to the device has
its effect before its command goes on, or none; OpenTofu refuses a stale plan by
itself. `OnePlanCommand`: one command at a time writes the saved plan file.
`ChangesBack` is false: a checkout does not change and change back while it is
planned. Without the last two `SourceBound` does not hold: of two plan commands
with one file, the one that records hashes the bytes of the other, and a look
before and after a plan cannot see what was between. Both are listed as hazards.

### 2.5 LockGuard

One host, its lock file and the processes that run `lock.sh` on it. `guards` are
the guard directories by the boot they are named after, `job[s]` what a script
was asked and has read. `TakeGuard` is `mkdir`, `WaitForGuard` the sleep and the
give-up, `Sweep` is `remove_stale_guards`, `ReadRecord` reads, compares and
decides, `WriteRecord` is the `mv` or `rm`, `LeaveGuard` the EXIT trap. `Kill`
takes a script away at any of these points and leaves its guard; `Reboot` takes
all scripts, and gives the next guard another name. Time passes between any two.

Assumed: `~BootIdFollowsClock` (section 4). Operations that differ only in
what they refuse share a branch: `extend` and `renew`, `unlock` and `release`. The
refusals of symbolic links, which lead to an exit before the guard, are left out.

### 2.6 MigrationSession and MigrationCredentials

A command has locked the executor, then holds the lease and works alone or inside
a session: `command[c]`. `stage[c]` is how far the callback of
`coordinateMigrationAction` has come: validate, lock the hosts of the accounts,
rotate, then one or two operations. `op[c][g]` is the operation of one of two
goroutines, because a session may be used by helpers that outlive the callback.

| code | actions |
|---|---|
| the start of `WithSession`, executor lock | `Coordinate`, `Leave` |
| the rest of `WithSession`, `close` | `TakeLease`, `Cancel`, `Close`, `Drain`, `ReleaseLease` |
| `coordinateMigrationAction` | `ValidateAction`, `LockHosts`, `RotateCredentials` |
| `engineSession.acquire`, `acquirePauseLease` | `Begin`, `CheckLease`, `End` |
| the operations | `Work`: the actions of `MigrationPause` |
| kill, power loss, writers | `Kill`, `LosePower`, `Write`, `RotateByWriter` |

`device` names who rotated the credential last. Ordinary deployments rotate it as
well, but only under the shared lease. `MigrationCredentials` is what
`prepareMigrationCredentials` accepts and derives, as operators on the configured
bindings: which accounts to rotate, which hosts to lock, and the environment of
each workspace. `AcceptedConfigurations` decides which modes a command may have.

A variable of a binding may have another source, a default or a reviewed automatic
variable file (`supplied`), which `requireMigrationInputs` takes for a value as well.
Assumed: `~ChildrenOutlive` and `LinkSettles` of the pause. The rotation is one step
with a failure that may come before or after it took effect.

### 2.7 GateRun

One call of `configsctl gate` for each value of `Call`; a run is named by the
call that made it. `at[c]` is the way of a call, `file[r]` the contents of
`record.json` and of its temporary file, and `pen[r]` where the open file of each
of its two writers is found: a rename moves a file under the pen of the other
writer. `unit[r]`, `result[r]` and `fin[r]` are systemd's unit and gate-finish.

| code | actions |
|---|---|
| `handle`, `Validate`, `maskedRequest`, the journal | `Receive`, `RecordRequest`, `RequireOnMain` |
| `start`, `launch`, `Runs.Write` | `Create`, `OpenRecordTmp`, `WriteRecord`, `RenameRecord`, `AddWorktree`, `RefuseArgument`, `StartUnit`, `UnitFailed` |
| the unit, `runlog` | `OpenLog`, `Output`, `CommandExits` |
| `Finish` | `FinishRead`, `FinishOpen`, `FinishWrite`, `FinishRename`, `RemoveWorktree` |
| `status`, `logs`, `unlock`, `Runs.List` | `Status`, `Logs`, `CopyLog`, `LookAtRecord`, `Unlock`, `List` |
| kills and restarts | `Kill`, `FinishKilled`, `Reboot` |

Each write of a record may fail when its file is opened, half way, or at the rename.
A request is the fields it has, those that are malformed, and what `extra_vars`
holds: nothing of a secret, the value of one, or one written with escapes, which no
pattern matches (`mask.go:35`). `lines` says that they have a line break, which
`checkedArgs` refuses with an error that quotes the argument. `err[c]` is what the
text of an error holds (`Text`); `fail` and the journal keep it. `late` counts what
is written between the copy of a follower and its look at the record.

Assumed: `StartErrorIsFinal` (systemd-run reports an error only when no unit is
left).

### 2.8 RunGroup and Redact

`RunGroup` is one command, from its start to the return of `procgroup.RunGroup` or
`Run`: the wait, the look for members that are left, SIGTERM, the polls, SIGKILL,
and the end of the copy. Processes fork, leave the group, write, exit or ignore
signals; one may belong to another user ("foreign", and so do those it forks), which
the scan finds and no signal reaches (`Ours` are the others). When none is ours the
SIGTERM of `stopGroup` is refused and it returns. The pipe ends when processes have
ended or closed their output. `ReadStat` reads one process at a time, as the scan of `/proc` does.
The copier takes a chunk of any length (`TakeChunk`) and writes it to the run log
and then to the console (`Written`), each behind a redactor: `base[d]` and
`got[d]` delimit the buffer of its `Writer`. A destination may fail after a part
of a chunk (`Refused`) or never return, in which case no step of it is fair.

`Redact` is the Aho-Corasick automaton, built as `automaton.go` builds it
(`Failure`, `Ends`, `StepTo`), and the rule by which the `Writer` passes on what no
later byte can change (`EmitEnd`, `Emission`, `Rest`). `Redacted` is the reference:
the spans of all secrets, merged and replaced.

Assumed: `~ForksDuringScan`; standard error does the same as standard output.

### 2.9 Providers

Installations that share a mirror and an archive cache. `pc[r]` goes over the
staging root (`ReadRoot`, `Look`, `MakeDir`), through the rows of the pin file
(`NextRow`, `Download`, `MoveArchive`, `CheckDigest`, `Extract`, `BeforePublish`,
`Publish`, `CheckInstalled`) and out (`Clean`, `Exit`). `Look` removes a leftover
whose process id nobody has; `Stranger` gives ids to other programs. `Fail`,
`Signal` and `Kill` end an installation at any step. `risk[t]` says what of a
published binary a power loss may still take: its data until the candidate is
synced, its name until the directory is. An archive in the cache is never synced.

## 3. Runs

| run | what it asks | bounds, and why they are enough |
|---|---|---|
| `hostlock_contention` | `IInv`, `OnlyExpiredIsTaken`, `ImplementsLease` with two runs on one file | 6 ticks of which a lease has 4: a record expires and changes its owner; seconds of 2 ticks out of phase; two requests of a run on their way, so that an old one overtakes a new one |
| `hostlock_extend` | `ScopeIsBacked`, `BlockIsBounded`, `ExpiryNeverShrinks` with a strict Set and children that declare leases above the cap | 7 ticks, cap 6, declarations 7 and 8, which whole seconds make 6 and 8; two extends at a time, so that answers come in either order |
| `hostlock_liveness` | `ReleasedForGood`, `LossIsNoticed`, `SetSettles` | two hosts, a first list of one or both and AcquireAdditional of the rest; an operator who unlocks working runs; time ends at tick 4, so `LossIsNoticed` asks only for losses that leave room for the deadline |
| `lock_guard` | `GuardInv`, `ImplementsRecord` | three scripts (one inside, one that waits, one killed or late), two runs, leases of 1 and 2 s, two seconds, one restart, one second of waiting |
| `pause_durable` | expected violation of `DurablePause` | `LinkSettles` is false |
| `migration_session` | `PauseInv`, `ImplementsAdmission`, `SessionInv`, `CommandsEnd` | two commands on two migrations and two writers: every mode, a helper beside a callback, 729 configurations of three workspaces with agreeing and conflicting accounts, one of them with a variable file for its password |
| `migration_safety` | `MigrationInv`, `JournalTruthful`, `ImplementsTransfer`, `NoWriteLost` | three workspaces, one fresh; instances cross between two and one leaves for the fresh one; a push may raise a serial by 0 or 1; an ordinary write before or after the transfer |
| `migration_recovery` | `Recoverable` | two workspaces, one fresh, in manifest order, so that a stop lies before, between and after the pushes |
| `mutation` | `MutationInv`, `AppliedAsReviewed`, `SourceBound`, `CredentialInForce`, `ImplementsLease`, `LossEnds` | two commands in three pairings: `plan -out` beside an apply of the saved plan, the same with credentials, two applies of own plans of which one has the credential; one endpoint and one guest; a plan of the guest and one that nobody owns; a clean and a changed source, in Git and in installed mode; an older saved plan or none |
| `gate` | `GateInv`, `SecretsMasked`, `FollowerSawAll`, `OutcomeKept`, `FollowerEnds`, `OutcomeRecorded` | a call that starts a run, or is refused, with a secret in `extra_vars` as it is, escaped or with line breaks, and one that reads; one run log of two pieces, so that a follower copies before, between and after them; two writers of the record |
| `output` | `GroupInv`, `Redacts`, `OutputWhole`, `NoMemberLeft`, `GroupReturns` | a command and one descendant; three bytes of two kinds, a pipe of two, and the secrets `ab` and `ba`, which overlap each other: every chunking of every such stream |
| `providers` | `ProvidersInv`, `RefusedForReason`, `NeverReplaced` | two installations and two process ids, so that ids are used again; one row that both have and one that disagrees with it; a release whose archive was replaced; one power loss |

Deadlock is checked for `MigrationPause`, `MigrationSession` and `LockGuard`. It
is not where every command is over (`Mutation`, `GateRun`, `RunGroup`,
`Providers`), where time ends (`HostLock`) or where every workspace has had its
writes and the migration is closed (`Migration`).

### Fairness

`HostLock!Fairness`: time passes; a request runs or is lost; the loops of a Set go
on, because every ssh call and the guard of `lock.sh` have a timeout; and the
timer of `watchDeadlines` fires. Nothing says that a renewal is answered, that a
command ends or that a crashed run returns.

`Mutation!Fairness`: a call returns, with or without an error, because requests to
hosts and to the device have timeouts; a cancelled context is noticed; a group
that is killed ends; deferred calls run. Nothing says that OpenTofu exits, that
the operator answers or that a signal comes.

`Migration!FairSpec`: a command that runs goes on (`WF` on `CommandStep`, which
contains the verdict on plans: a plan that never agrees is an error of the
manifest and not of the engine), and the operator again and again runs whichever
closing command is accepted (`SF` on verify, restore and verify-restored; a
command that is cut short disables and enables them). `Recoverable` holds under
the condition `<>[][~Stop]_vars`: from some time on no command is cut short. It
excludes a backend that was written between prepare and the pause. There the
engine finds the drift only under the pause, and refuses both directions, as its
tests ask.

`MigrationSession!FairSession`: a command that waits for the lease gets it or an
error, callbacks return, operations end, and deferred releases run. Nothing says
that an operation succeeds, that anybody cancels, or that a helper begins one.

`GateRun!FairSpec`: a call that runs goes on, and so does gate-finish. Nothing says
that a command exits, so that `FollowerEnds` asks only for runs recorded as ended.

`RunGroup!FairSpec`: the code of configsctl goes on (`Main`), its timers fire
(`Tick`), a copier sees that its pipe is closed (`MeetsClosed`). `KillGroup` is
strongly fair: when the tick of the poll and the grace are both due, `select` in
`stopGroup` chooses one of them at random, and the grace stays due. Nothing is
assumed of processes or destinations.

## 4. Findings

`pause_durable` is a run: `pause` syncs the directory only after a link of its own
(`pause.go:82`). A command that ends between `os.Link` and the sync leaves a pause
that the next command finds, does not sync, and writes under. A power loss then
takes the pause of a half written transfer away. README.md:327 calls the pause
durable until verification succeeds.

The other places where the code and its text differ are assumptions of the models.
Some are stated as a property that does not hold without its assumption:

| place | what happens | in the modules |
|---|---|---|
| `lease_unix.go:73` | configsctl alone is killed and its OpenTofu child writes on without a lease, while README.md:327 says "Active writers prevent execution." | `ActiveWritersPreventExecution`, with `ChildrenOutlive` |
| `additional.go:29` | hosts are compared by name: a second name for a held lock file is acquired again, and given back when a later host fails, with the record of the retained host | `FailureRetainsExisting`, without `OneNamePerFile` |
| `engine.go:395` | a transfer ends between the phase `verified` and the removal of the pause; README.md:329 says to run `transfer` again, which is refused; only `verify` is accepted | `TransferResumes` |
| `runlog.go:76` | a later run log with a label that sorts first is not the one that `PlayLog` finds | `ListingIsChronological`, with two labels |
| `gate.go:148` | systemd-run reports an error and the unit runs: `fail` and gate-finish write one record through one temporary file | `StartErrorIsFinal` |
| `finish.go:72` | output and the recorded end of a run come between the copy of a follower and its look: it stops without them | `FollowerSawAll` excepts what is `late` |
| `gate.go:220`, `args.go:17` | a deploy whose `extra_vars` have a line break (JSON on several lines) is refused after its record was made, and the error quotes them unmasked: its text, with any secret in them, stays in `record.json` and `requests.jsonl`, of which `journal_test.go:134` says that they must not contain the secret value | `SecretsMasked` says for which runs a text quotes them |
| `mask.go:35` | a secret written with `\uXXXX` escapes is not masked | `vars` "escaped" |
| `lock.sh:56` | `kern.boottime` moves when the clock of the host is set; a script then sweeps the guard of one that runs | `BootIdFollowsClock`; `GuardInv` and `ImplementsRecord` fail |
| `lock.sh:77`, `hostlock.go:151` | a request to the own machine whose context ends kills bash inside its guard; the comment at `lock.sh:61` names only a reboot as skipping the trap | `GuardReturned`: until the next boot every call gives up |
| `migrationcredentials.go:283` | a password variable of one binding with the name of a rotator key of another is stripped from the environment; `requireMigrationInputs` accepts this when the variable has a default or a reviewed variable file, and the plan runs with that value | `EnvironmentReady` excepts variables that are `supplied` |
| `group_unix.go:95` | a process forked while the list of processes is read is missed by the scan | `ForksDuringScan` |
| `writer.go:87` | after an abandoned copy `Close` runs beside the copier on one `Writer`, whose comment forbids it | `OneUser` and `NothingLeaks` except that case |
| `run.go:92` of `internal/tofurun` | an error of the copy is not reported when the command ends with a nonzero status | `OutputWhole` excepts it |
| `record.go:96` | one run directory without a readable record makes the listing of all runs fail | `List` |
| `cache.go:54`, `tofusource.go:156` | two plan commands with one file; a source that changes and changes back | `OnePlanCommand`, `ChangesBack` |
| `main.go:625` | the drains of the whole process ignore their errors and leave a full pipe behind | not modelled |

## 5. Proofs

| theorem | property | assumes |
|---|---|---|
| `HostLockProofs!TypeCorrect` | `TypeOK` | nothing |
| `HostLockProofs!InvariantHolds` | `IInv` | `OneNamePerFile`, no operator unlock of a working run |
| `HostLockProofs!ScopeBacked` | `ScopeIsBacked` | the same |
| `HostLockProofs!ScopesImplementLease` | `ImplementsLease` | the same |
| `HostLockProofs!OnlyExpiredTaken` | `OnlyExpiredIsTaken` | no operator unlock of a working run |
| `HostLockProofs!BlockBounded` | `BlockIsBounded` | nothing |
| `HostLockProofs!ReleasedStays` | `ReleasedForGood` | nothing |
| `HostLockProofs!ExpiryGrows` | `ExpiryNeverShrinks` | `OneNamePerFile` |
| `SessionProofs!PauseHolds` | `PauseInv` | `~ChildrenOutlive`, `LinkSettles` |
| `SessionProofs!AdmissionImplemented` | `ImplementsAdmission` | the same |
| `MigrationProofs!MigrationHolds` | `MigrationInv` | the named assumption on manifests |
| `MigrationProofs!JournalHolds` | `JournalTruthful` | the same |
| `MigrationProofs!WritesKept` | `NoWriteLost` | the same |
| `MigrationProofs!TransferImplemented` | `ImplementsTransfer` | the same |
| `MutationProofs!MutationHolds` | `MutationInv` | `OnePlanCommand`, `~ChangesBack` |
| `MutationProofs!ReviewedIsApplied` | `AppliedAsReviewed` | the same |
| `MutationProofs!SourceIsBound` | `SourceBound` | the same |
| `MutationProofs!CredentialHolds` | `CredentialInForce` | the same |
| `MutationProofs!LeaseImplemented` | `ImplementsLease` | the same |
| `LockGuardProofs!GuardHolds` | `GuardInv` | `~BootIdFollowsClock` |
| `LockGuardProofs!RecordImplemented` | `ImplementsRecord` | the same |
| `SessionProofs!CredentialsHold` | the part `CredentialsReady` | nothing |
| `SessionProofs!SessionHolds` | `SessionInv` | `~ChildrenOutlive`, `LinkSettles` |
| `SessionProofs!SessionKeepsPause` | `PauseInv` | `~ChildrenOutlive`, `LinkSettles` |
| `SessionProofs!SessionAdmits` | `ImplementsAdmission` | the same |
| `GateProofs!GateHolds` | `GateInv` | `StartErrorIsFinal` |
| `GateProofs!OutcomeStays` | `OutcomeKept` | the same |
| `GateProofs!SecretsHold` | `SecretsMasked` | nothing |
| `GateProofs!FollowersSeeAll` | `FollowerSawAll` | `StartErrorIsFinal`, at most one run log (`MaxFiles <= 1`) |
| `RunGroupProofs!GroupSafe` | `GroupInv` | nothing |
| `RunGroupProofs!StreamsRedacted` | `Redacts` | nothing |
| `RunGroupProofs!OutputArrivesWhole` | `OutputWhole` | nothing |
| `RunGroupProofs!GroupReaped` | `NoMemberLeft` | nothing (the property itself asks for `~ForksDuringScan`) |
| `ProvidersProofs!ProvidersHold` | `ProvidersInv` | the named assumption on pin files |
| `ProvidersProofs!BinaryStays` | `NeverReplaced` | the same |
| `ProvidersProofs!RefusalsAreDue` | `RefusedForReason` | the same |

"Nothing" means: no more than the named assumption of the module that declares
the constants. The bounds of the models (`MaxTime`, `MaxInFlight`,
`MaxExtends`, `MaxRev`, `MaxBytes`) are constants; the theorems hold for every value of them, except
where the table bounds one.

*HostLock.* `ScopeIsBacked` is not inductive: an answer on its way becomes a
deadline later. `IInv` therefore also says that every answer that will be
believed is backed (`AnswersFit`), that every deadline noted or declared is
backed (`DeadlinesBacked`), and that no acquire or release on its way concerns a
host of the Set (`RequestsFit`, `SetsFit`). A deadline is *backed* when the
record names the run and outlives it by `RenewInterval`, or when it has passed
already. The argument for `lock.sh` is that a record moves away only when it has
expired, and by then each deadline it backed has passed. The refinement follows:
two usable scopes on one file would both be named by its record, and time and
losses only take permissions away.

`ReleasedForGood` and `ExpiryNeverShrinks` have invariants of their own, because
they hold where `IInv` does not. `ReleaseInv` keeps account of where a run that has
not died may be named: `Owed` are the hosts of its Set, those it is about to give
back, the one whose answer it awaits, and those of which it had no answer. Each
record that names the run, and each acquire that is still under way, lies on one of
them (`RecordsOwed`, `LateAcquires`), and what an answer says of a record still
holds when it is read (`AnswersHold`). A Set that ended has nothing left to do
(`Idle`), so it owes only what was never answered, which is what the property
excepts. Nothing here needs one name for each file, and an operator who deletes a
record only makes less of it true. `OnceInv` says that a run asks for a lock once
and has no record there before that request ran (`NotYet`, `Once`); so an acquire
never meets an extended record of its own run. With a second name for a file it
does, and sets the expiry back: hence `OneNamePerFile`.

*MigrationPause.* `PauseInv` adds to the exclusion of leases that a command that
works, and each unproved migration, has its pause in the directory *and* on disk
(`OwnPause`), and that a pause nobody publishes is on disk (`Settled`). So a
power loss never takes it away, and the second look of a writer sees it.

*Migration.* `MigrationInv` adds to `JournalTruthful` what the checkpoints say of
home and destination (`ForwardValid`, `RecoveryValid`), where the instances are
outside the pause (`Unpaused`), and what each step of a command finds
(`CommandOrder`). A push happens under the pause, to a workspace that the journal
does not name, whose state is the one captured before. So it keeps the revision
(`WritesKept`) and makes no journal entry false. The refinement hides the layout
under the pause; its only visible steps are the publication of the pause, the
saved phase `verified` or `restored-verified`, and the removal of the pause,
where the invariant says that everything is at its destination or at home.

*Mutation.* What OpenTofu is given is decided many steps before it starts.
`MutationInv` carries it there: the records of a scope stay as long as the Set is
held or OpenTofu runs (`ScopeBacked`), a command past the rotation has the lock
of the credential host in its scope (`CredentialGuarded`), the reviewed plan is
the private one, has owners, and its hosts are in the scope once it is copied
(`PlanKept`), a plan that is not yet recorded was made from the source that was
looked at, or the source has changed since (`SourceKept`), and a record names the
source of its plan (`RecordTrue`). One lemma for each part says that a command
keeps its own part, `OtherRunStep` that it keeps the parts of the others: it
takes no lock that names another one, rotates only as owner of the credential
host, and does not write the saved plan of the one plan command. Two applies on
one host would both be named by its lock, which gives the refinement.

*LockGuard.* `OneInside` needs that every script uses the guard of this boot
(`GuardOfBoot`), else a sweep would take a guard away. Then nobody else changes the
record between a decision and its write (`DecisionStands`), and the write is the
step of `LockRecord`. `record.expiry <= now` only becomes more true with time.

*MigrationSession.* Each step of `SessionSpec` is a step of `MigrationPause` or
leaves it alone (lemma `SessionRefinesPause`), so that its theorems hold here.
This needs that two commands never serve one migration and that a lease belongs to
the command that works (`LeaseOwned`). `OperationsCovered` says why `close` is
enough: an operation that is under way when a session closes is the one it waits
for. `CredentialStands` uses the pause: while a command holds the exclusive lease
no writer is in, so nobody else rotates, and no other migration publishes.
`CredentialsHold` is about the derivation alone: the first binding of an account
exists by induction over positions, stated with a least element.

*GateRun.* One writer at a time (`OneWriter`) follows from what a call that still
writes implies about its unit. `PenInTmp` says what each open file points at, which
makes every rename publish the whole record that its writer encoded.
`OutcomeStays` then needs only that `fail` runs where no command has run. A record
carries the masked request from its creation on, and a call keeps the first error it
met, so that a text which quotes an argument belongs to a call that never asked for
a unit: this gives `SecretsHold`. It does not say that the quoted text is masked.

`FollowerSawAll` is about one call and one run, many steps apart. `FollowInv` says
that all a follower copied is shown, that one which looks at a record with an end,
or has stopped, has copied the run log up to what came `late` (`CaughtUp`), and that
a run has one run log, none before its unit. An end, once recorded, stays
(`EndedStays`). A second run log of one run is excluded (`MaxFiles <= 1`), because a
follower keeps its offset when it opens another file; this is an assumption, listed
in section 4 with `runlog.go:76`.

*RunGroup.* `GroupReaped` needs to know what a scan has read: `Reaped` says that a
member alive before a scan is unread or found, which without forks makes the end of
a scan that found none of ours the end of those in the group. `GroupSafe` follows
the copier from one redactor to the next (`Accounted`, `Flow`); it says nothing of
group, result or drain. The three theorems about output except an abandoned copy:
after it `RunGroup` may report success with output unread (`output_unix.go:173`).

`StreamsRedacted` and `OutputArrivesWhole` rest on what the automaton computes for
every set of secrets and every stream. No induction theorem of the library can be
used, so each recursive function is treated by a least counterexample: `Recursion`
shows that a recursive definition along a rank has a solution and that solutions
agree, `Iteration` the same along a sequence. From there:

1. `FailureLongest`, `StepToLongest`, `ReachedIs`: the node reached after a prefix of
   the data is its longest end with which a secret may begin. `EndsIs` and
   `SpansAreOccurrences`: the spans are exactly the occurrences of the secrets, and
   `HoldIs`: what is held back is `Beginning`.
2. `SortedIs`, `SweepStep`, `MergedIs`: merging the sorted spans leaves regions that
   do not touch inside, cover exactly the bytes of secrets and begin where `First`
   says; `LabelIs` gives each its label.
3. `EmitEndIs`: the cut lies in no region. With `PrefixAlike` and `SuffixAlike`, what was passed
   on looks the same whatever bytes follow, and the rest looks the same without it.
4. `PieceIs`, `FlattenConcat`: a rendering is byte by byte the reference `Redacted`,
   and renderings of adjacent parts join.

`Passing(d)` carries this through the steps of a redactor: what a destination has
is the reference rendering of a prefix of the stream that ends at a clean cut, plus,
after a refused write, a beginning of the next emission. Nothing of a secret is in
it, and when all was taken and closed it is the whole of `Redacted(stream)`.

*Providers.* A target is linked only from a candidate that was synced and that came
from an archive whose digest is pinned (`PackagesWhole`). `ReportedIsPinned` carries
this over rows, where no other row gives the archive another digest. Staging stays
because a sweep removes only directories of ids that nobody has (`StagingStays`).

Model-checked only is all liveness (`LossIsNoticed`, `SetSettles`, `Recoverable`,
`LossEnds`, `CommandsEnd`, `FollowerEnds`, `OutcomeRecorded`, `GroupReturns`),
because liveness under fairness is beyond the provers, and the expected
violation of `DurablePause`. Every safety property of a passing run has a theorem.

## 6. Not modelled, and the plan

What could follow, in this order:

1. A push that lands after its executor was killed, in `Migration`.
2. State commands that write a backend without a plan, and destroy, in `Mutation`.
3. The refusal of an engine that differs from that of its session
   (`sameSessionEngine`), in `MigrationSession`.
4. The decision of `internal/tofulock` as an operator on plans, against its
   definition; `Mutation` takes the set of hosts as given.
5. The redaction of the whole process in `main.go`: two drains that share a lock,
   and the restore that waits for their write ends.

Left out on purpose: `ReleaseAllChecked`, which has no caller; unequal clock speeds;
run ids that two processes of one gate run share (`runid.go:32`): the commands nest
within one process tree, and the models have one Set for each run id; an empty
lock file after a power loss, which every operation refuses.

Out of scope: vault and token clients, guests and restricted transports, file
digests, argument parsing, settings, linting, HCL sources and reporting. They are
sequential code around external services, and their tests reach what can go
wrong. The comparison of native plans is taken as a verdict.
