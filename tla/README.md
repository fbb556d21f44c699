# Skynex: formal model

TLA+ specifications of the parts of Skynex that keep state on disk or in a
session, or that judge the same data in several places, with the TLC
configurations that check them on small instances and the TLAPS proofs that
establish the main properties for every instance. The reference is the source;
`PROJECT.json` maps every definition to the lines it translates.

## 1. The system

Skynex is a CLI (`skynex`) and a set of OpenCode plugins.

| Part | State | Operations | Hard because |
| --- | --- | --- | --- |
| Task domain and service (`packages/tasks`) | the task document: steps, statuses, revision, reviews, checkpoint | create, start, block, done, add, checkpoint set/show, reviews set, status, next | completion spreads between hosts and children; derived fields; several validators of one document |
| Task command line (`apps/cli/src/task-command.ts`) | none | tokenise, resolve, check, run, exit code | ten commands, one error path; retries by agents |
| Task store (`packages/tasks-node`) | `task.json`, `instructions/step-NNN.md`, `.task.lock`, one directory per task | create, exists, read, readInstruction, save, list | concurrent CLI processes, crashes between writes, locks left behind |
| Task roots and install sites (`tasks-node/src/roots.ts`, `apps/cli/src/index.ts`) | markers in directories; two configurations per site | resolve, override, choose | what one command creates changes where another looks |
| Installer transaction (`packages/installer/src/transaction.ts`) | managed files, `lock.json`, `.installer.lock`, `backups/<id>/` | executeTransaction | failure at any step, rollback that fails, crashes, edits by people, contenders |
| Install planning (`installer/src/index.ts`, `uninstall.ts`, `backup-service.ts`, `state-store.ts`) | installed and pending digests in the lock | plan, resolve collisions, prepare update, apply, uninstall, restore | a three-way decision whose record the next command relies on |
| Catalog, compiler, adapter (`packages/catalog`, `compiler`, `targets/opencode/src`) | none | load a release, compile it, merge and unmerge the configuration | identities pass from one release to the next |
| Task sidebar plugin (`targets/opencode/.../skynex-tasks`) | a snapshot per session in storage; `refreshed`, `inFlight`, `mutations` | skynex_task_update, execute.before/after hooks, getSessionTask, 4 s polling, projection and view | awaits between a check and the write that relies on it; its own reading of shell lines and of the task |
| Review gate, runtime classifier (plugins) | one call each | block a security subagent, classify a prompt | timeouts that race an answer; failing open |
| Sky agents profiles (`packages/sky-agents`) | profile files, OpenCode configuration, confirmations in memory, a lease | preview, authorize, apply; list, save, update, remove | one-shot tokens, re-reads before writing, a lease of its own |

Processes interact through files only: there is no server. Mutual exclusion is a
file created with `O_EXCL`; publication is a `rename`; detection of concurrent
change is a revision or a digest read again under the lock. Nothing waits:
whoever finds a lock fails. Locks of dead processes are removed by people.

## 2. Modules

```
TaskDomain ── TaskAtomic ──┐                        what a command makes of a document
     │   └─ TaskProjection ┤                        what the sidebar makes of it
TaskInput, TaskCommand ────┴─ TaskCli ─ MCTaskCli   from an argument line to an exit code
     └──── TaskStore ────── MCTaskStore             concurrent processes; refines TaskAtomic
TaskCreation ── TaskListing ── MCTaskListing        races for a task id; the walk over all tasks
InstallTransaction ─────────── MCInstallTransaction executeTransaction and its surroundings
InstallPlanner ── InstallLifecycle ─┐
Places ─────────────────────────────┼ MCInstallLifecycle   installations over time
Catalog ────────────────────────────┘
TaskSidebar ────────────────── MCTaskSidebar        the snapshot of a session's task in the plugin
SidebarController, Classifier ─ MCPlugins           the two plugins with timers
Profiles ── ProfileApply ───── MCProfileApply       model profiles and their application
```

The theorems stand in modules of their own: `TaskDomainProofs` (lemmas),
`TaskCliProofs` (`TaskAtomic`, `TaskCommand`, `TaskProjection`, `TaskCli`), `TaskStoreProofs`,
`TaskCreationProofs` (`TaskCreation`, `TaskListing`), `InstallTransactionProofs`,
`InstallLifecycleProofs` (`InstallLifecycle`, `Places`, `Catalog`), `PluginsProofs`
(`TaskSidebar`, `SidebarController`, `Classifier`) and `ProfileApplyProofs`.

### TaskDomain, TaskAtomic

`TaskDomain` has no variables. For each command it defines when the service has a
new document to save (`AcceptsTransition`, `AcceptsDone`, `AcceptsAdd`,
`AcceptsCheckpoint`, `AcceptsReviews`) and which (`TransitionResult`,
`DoneResult`, ...), plus the functions they call (`DeriveTaskStatus`,
`ComputeNextStepId`, `ParentRelation`, `ToComplete`, `MarkDone`) and the
conditions `parseTask` imposes on the structure of a document read back
(`StructureParses`; what it imposes on the texts of a step is `StepReads` of `TaskCli`). Abstractions:
a step id is its position, because both sources of ids number by position and
nothing removes a step; title, scope, criteria and instruction are one value,
`body`; a time is the revision whose save stamped it; an absent `reviews` object
is `auto`. `TaskAtomic` is the abstract specification: one variable, the
document; one action per command; each command whole.

### TaskInput, TaskCommand, TaskCli, TaskProjection

The command line around the same document. `TaskInput` is what the service
demands of texts, checkpoints and instruction files, and what `parseStep` demands
of the same texts later: a text is its raw and its trimmed length, a checkpoint
the record of what `parseCheckpoint` tells apart. `TaskCommand` reads a line of
words twice, as `tokenize` and `resolveCommand` do and as the sidebar's lexer
(`mutatesTask`) does. `TaskCli` is `runTaskCommand`: for each command the checks
in their order, the refusal they give, the request they make; `Verdict` is
the answer, `Saved` the document it leaves, `ExitCode` its number, `CliNext` one
command on the document. The
commands that save are `TaskAtomic`'s: this module adds those that are refused or
find nothing to change. `TaskProjection` follows a document to the screen:
`createTaskStatusView`, `readTask` of the gate, `projection` of the RPC, and the
rows and counters of the view. `InOrder` is what both take from: the elements of a
list at some of its places.

### TaskStore

One task directory under concurrent processes: `index` (task.json),
`instructions`, `lock`, and for every process `pc` and `work` (the request, the
document read, the document to save, whether it was saved). `Load` is
`store.read` with the service's checks; `Acquire`/`FindLocked` the exclusive open;
`Compare` the second read under the lock; `WriteDocument` and `WriteIndex` the two
renames in their order; `FailSave` any error under the lock; `Unlock` the
`finally` block, whose failure to remove the lock is ignored as in the code.
`LoadForReading`/`ReadDocument` are `readStepInstruction`. `Crash` takes a process
at any point; `RemoveStaleLock` is the person the LOCKED message addresses, who
removes the lock "only once no other process is writing". `ImplementsAtomic`
states that, seen through `task.json`, this refines `TaskAtomic`.

### TaskCreation, TaskListing

`createTask` of several processes: the candidate ids of a slug as a constant
sequence (`slugify`, `withCollisionSuffix`), the probe that reserves nothing, the
staging directory filled file by file, the rename that replaces nothing.
`TaskListing` adds saves of published tasks and the walk of `list`: the names of
one moment (`StartWalk`), each `task.json` inspected and then opened
(`readFileSafe`), refused if a rename came between. What an entry holds is its
revision, and what stands in the root and is no task is listed by its format.

### InstallTransaction

`files`, `lock` (lock.json), `lease` (.installer.lock), `backups` and one record
`tx[p]` per process, its local variables. A process runs one transaction and
stands for its id. Planning, asking and entering the apply are steps of their own,
because each reads the files or lock.json again: `PlanInstall` is `createInstallPlan`
with every answer about files in the way; `PrepareUpdate` turns it into an update and
keeps the lock.json it read as the one the commit will demand; `Recheck` is the
comparison with which `applyInstallPlan` starts; `PlanUninstall` reads lock.json and
asks, `ReadConfig` reads the configuration after the answer and takes the parts out
that *that* lock names; `Enter` reads lock.json once more, refuses, or computes the
lock to leave (`Listed`, `NewLock`). Only an update demands the lock of its plan here;
an install and an uninstall take the one they find when their apply begins.
`PlanRestore` is `restoreBackup`. What is decided about source and pending digests is
left open here and is in `InstallPlanner`.
The rest follows the executor line by line: lease, comparison of the lock, check
of each file, snapshots and manifest, the ordered changes, verification, the lock,
the completion record, the release; and the catch block: each file undone in
reverse or recorded as unreconciled, the lock, the recovery record, the lease kept
unless all is reconciled. `Fail` may strike at any step. `Crash` kills the
process. `Edit` is a person who changes a managed file; `Reconcile` is the person
who follows `docs/security-model.md` behind a transaction that left its lease.
`tx[p].stale` is a history variable (files edited after they were checked), used
only to say what the properties except.

### InstallPlanner, InstallLifecycle

`InstallPlanner` has no variables: the artifacts a release wants, merged with the
person's configuration (`Merged`, `Unmerged`); `CreatePlan` with the kind of each
operation; `Resolved` collisions; the three-way `PreparedForUpdate` with installed
and pending digests, `Converged` files and kept edits; what the lock records
(`ResourcesAfter`). A content stands for its digest. `InstallLifecycle` runs
install, update and uninstall of changing releases, one after the other, with
`--yes` and with every answer a person can give, while a person edits and deletes
files. A command is one step here: what happens inside one is `InstallTransaction`.

### Places

Where a command works. `roots` are the task roots, `gits` and project
installations are markers, `parts[site]` the configurations that hold Skynex's
part, `locks[site]` what a lock says of it. `TaskInit` is `skynex task init` from
any directory, with or without `--tasks-root`; `RunInstaller` chooses a site and a
configuration as `roots` and `run` of the CLI do and brings or removes the part;
a person makes repositories, writes and deletes configurations.

### Catalog

From a manifest to ownership: `ValidManifest`, `Loads` (the tree beside it),
`Compiled`, `DesiredArtifacts`, and `owned`, the ids and paths lock.json records
over installs, updates and uninstalls of releases that may exchange paths or ids.
`LockReads` is what `readInstallLockSnapshot` demands of it. `InstallPlanner`
takes a path for the identity of a resource; this module is about what happens
when the two differ, and leaves contents out.

### TaskSidebar

The server half of the plugin for one session key (keys share nothing). `stored`
is the key's entry in `ctx.storage`; `inFlight`, `mutations` and `refreshed` are
the plugin's Maps and Set; `call[c]` is the coroutine of one handler with the
locals it keeps across its awaits, and each await ends an action. `refresh` is
`Adopt` or `StartRead`, then `CliReads`, `Check` or `Discard`, `Store`, each
followed by the `finally` of the entry (`EndRead`); `ReadFails` is its `catch`.
`Update`, `Lookup`, `Publish`, `Clear` are skynex_task_update; `ShellMutates`,
`NothingBound`, `Line`, `RefreshAfterMutation` the execute.after hook with
`refreshMutation`; the gate of execute.before looks the binding up, reads the
switch and ends in `Judge`; `Poll`, `AnswerFromStorage`, `RefreshForPoll`,
`AnswerAfterRefresh` are getSessionTask; `Refuse` is a call that throws. `Restart`
loses the Maps and keeps the storage. The CLI is external: a task is a counter,
its version, and a status read returns the version of some moment of the read;
the review is off in the versions of `Off`. The storage performs one operation at
a time and answers in that order. `MutateElsewhere` is a change no hook sees.

History variables serve the properties only: `wanted` and `bindings` (what the
agent asked for, and how often it changed), `overtaken` (a refresh stored its
answer though the binding had changed or another read had replaced its own since it
began), `missed` (a read failed, or a change had no hook).

### SidebarController, Classifier

`createSessionTaskController`: the token that disowns earlier requests, the timer,
the requests under way in any number, answered in any order or never.
`Classifier` is one call of `skynex_classify`: whether setup offers the tool, the
credential from the integration or the environment, the request, the timer that
aborts it until the whole body is read, the bound on the body, and `Proper`, which
turns the provider's scores into choices or into "unavailable".

### Profiles, ProfileApply

`Profiles` is the profile store with its editors: every operation looks and then
acts, so two editors can come between each other's steps; a listing validates
every file; reading renames the legacy agent and lets scout inherit. `ProfileApply`
adds the OpenCode configuration, the lease, the backups and one call per service
process: preview, authorize, apply with its token, the latest read, the build, the
backup, the second read, the write and its rollback. People edit the configuration,
a process dies anywhere, a write fails before or after its rename, time passes.
The configuration is text: blocks, entries and models may be repeated, and an entry
has comments. `Agents` is what `parse` makes of it, the last of repeated members;
`Moved` and `Built` are the edits of `modify`, which changes the first of them, writes
the legacy entry again from what was parsed and deletes one range; `Verified` is the
check of the built text (`verifyManagedModels`), by which `BuildRefuses` where the two
disagree.

## 3. Runs

| Run | Instance | Shows |
| --- | --- | --- |
| `cli` | 3 steps, revisions to 4, 282 argument lines | what is saved reads back but for a padded step title, hosts and children agree, `next` and `status` agree, done is final, the sidebar shows the task, the lexer misses no save in a call it can read, retries are harmless, exit codes are true |
| `store` | 2 processes, at most 2 steps, two bodies | no dangling or foreign instruction, reader consistency, fences of callers, refinement of `TaskAtomic` |
| `creation` | 2 processes, ids `plan` and `plan-2`, 2 saves each, one foreign directory | whole, owned; every creation ends; no deadlock; a faithful listing |
| `install` | 2 transactions, 3 paths, 2 releases and a partial selection, one edit | recoverability, all or nothing, registration order, stale plans stop, commits fenced |
| `lifecycle` | 3 releases, 2 resources and the configuration, 2 edits; 4 directories, 4 steps; 7 manifests | edits survive updates, the lock knows the files, registrations follow files; tasks stay found, one registration; ownership reads back |
| `sidebar` | 3 calls, 2 tasks of 2 versions, one restart | a hook sees its own change; the binding is the agent's; quiet means current; no circular wait; the gate reads afresh |
| `profile` | 2 services, 1 editor, 3 agents, 1 profile, 5 configurations, 1 edit, 2 tokens | applied as confirmed to the service and as shown, previews foresee but for repeated members, nothing lost, true outcomes |
| `plugins` | 2 sessions, tokens to 6; 2 questions, 1 chunk | the screen shows its session; a verdict is the provider's; a request that left ends |
| `install_upgrade`, `install_completion`, `cli_title`, `lifecycle_uninstall` | as above | violated: see Findings |

Why the bounds suffice. Three steps give a host with two children, two hosts, and
a flat list; two bodies are what it takes to tell the orphan of one attempt from
the document of the next; two processes are all that a lock, a comparison and a
rename can confuse (exclusion among more is proved); `plan`/`plan-2` is the overlap
of candidate lists titles really have; one edit in a run of two transactions reaches
every point of both. In `cli` a title of three characters and a field of four stand
for 200 and 2000, so that each text has a length below, at and above its limit,
raw and trimmed; two blockers for twenty. `lifecycle` puts three models side by
side in one run: a behaviour lives in one of them. Its three releases change a
resource, drop one and change a plugin, and two edits are one before and one after
an update kept it; three directories in one another and a fourth beside them give
every relation between a root, a marker and the caller; seven manifests agree,
exchange paths, reassign one, or do not load. Three calls of the sidebar make a
race between two of them with a third that observes it; races of four are of the
kind the properties except. In `profile` two services contend for one file with a
person between, and each token can be used in time, late and twice. It starts from any
of five configurations: the old identity, both at once, and the old entry, a model and
the block of agents repeated, with comments in every entry; what a person saves
meanwhile (`Saved`) is the first of them, so an apply may also find the text it was
planned from after another one came between.

`MaxRevision`, `MaxEdits`, `MaxSaves`, `Calls`, `MaxVersion`, `MaxRestarts`,
`MaxToken`, `MaxTokens`, `MaxTime` and the `MaxSteps` of `Places` bound what the
code leaves open. That they are used up, and that an installer process runs one
transaction, is why most runs say `CHECK_DEADLOCK FALSE`; `creation` and `profile`
check deadlock.

Every property of a passing run has a mutant in `PROJECT.json`: a definition next
to the one it replaces, marked "Faulty", under which the property fails.

Fairness. `creation` assumes weak fairness of each live process's own steps: Node
executes the continuation of an awaited operation once it has settled, and the
file operations here do not block. `plugins` assumes only that the classifier's
timer fires. Nobody is assumed to start a command, to answer, to crash, to edit,
to remove a lock, or to reconcile.

## 4. Theorems

Proved by TLAPS for every value of the constants that satisfies the modules'
`ASSUME`s (which TLC evaluates in the runs).

* `TaskCliProofs`, of `TaskAtomic`: type, `StructureParsesBack`,
  `HostDoneWithChildren`, `NextStepFindsWork`, `AnnotationsMatchStatus`,
  `DoneIsFinal`. The structure and the agreement of hosts are inductive only together
  with the type and the one-level nesting of parents, so the invariant conjoins them;
  lemmas about the operators (what `ToComplete` closes, that `Append` keeps relations,
  what the smallest open step is) are in `TaskDomainProofs`.
* `TaskCliProofs`, of `TaskCli`: the same under `CliSpec`, that is under any set
  of argument lines, because every line that saves saves what `TaskAtomic` allows
  (`SaveStep`); `SavesReadBack`, where each text a line brings in was admitted by the
  measure it is later read by, or is a title that only trimming made short enough
  (`PaddedTitle`); and `ExitTellsTheTruth`, `SavesAreRecognised` and `RetryIsHarmless`. What a line asks for
  is found by way of `FirstRefusal` (no refusal means that each demand was met) and of
  the sequences `At` collects (`RequestAsked`). The exit code is true because a verdict
  of OK meets the fence and finds the step, and each result holds what was asked
  (`AcceptedHolds`, `NothingToDoHolds`). The lexer misses no save because a line that
  reaches its command has no help flag where the lexer takes one for help
  (`NoHelpAt`), and cutting the line out of a shell call gives its words back
  (`CallMutates`). A retry is harmless because two lines of one sense are `Alike`, word
  by word, which the tokeniser, the flags and every option read the same (`AskedAlike`),
  and because what holds already is neither saved nor refused (`SavedOnce`). Assumed
  (`CliAssumption`): a word that spells a checkpoint, JSON, is no flag, id, number or
  word of a command.
  `SidebarTellsTheTask`: the heading is true because a host agrees with its children,
  so nothing is open when no top-level step is (`HeadingOfSound`); each step has its row
  because counting up to the places of a list numbers them (`NthCovers`), a block is a
  step and what is under it, and joining blocks that share nothing loses and repeats
  nothing (`FlattenedOnce`, by the least prefix for which that would fail).
  Assumed (`ProjectionAssumption`): a projection may carry at least one blocker.
* `TaskStoreProofs`: all properties of `store`, exclusion and fencing. The
  invariant adds, for each process, what it knows at each `pc`: that the document it
  will save is the `Result` of an accepted request on the one it read; that a base
  with the revision of the index *is* the index (revisions identify documents among
  those in flight); that an instruction written under the lock belongs to the step
  about to be published. The refinement maps `WriteIndex` to a command and every
  other step to a stutter.
* `TaskCreationProofs`: type, wholeness, ownership, no replacement; that the walk
  and the saves leave creation undisturbed (`ListingSpec => Spec`); and
  `ListingIsFaithful`. Its invariant says that each entry listed is true of its own
  name (the revision shown lies between the one the walk began with and today's), that
  there is one entry for each name behind the walk, and that no name ahead of it has
  one.
* `InstallTransactionProofs`: type, exclusion, `Recoverable`, `CommitIsFenced`,
  `StalePlansStop`, `AllOrNothing`. The invariant has three parts: the lease
  excludes; each transaction record is ordered (what is applied is among the
  changes and was checked, what is to undo is a prefix of what was applied, the
  lock was changed only after it was captured); and, for the lease holder, what
  stands in each trusted file as a function of `applied` and `todo`, in the lock,
  and in the backup.
  `CommitIsFenced` says which lock a commit replaces: of an update the one it was
  prepared from, of a restore the one its backup left, of an install and an uninstall
  the one read when the apply began; what an install does not plan it carries over
  (`CarriedOver`).
  `RegisteredFilesExist` holds under `SteadyCatalog`, a hypothesis of the theorem:
  every release ships what any other installs; a selection with plugins has the
  configuration, which registers files of its own release; what people write registers
  none; an uninstall takes out all registrations when the lock's components list the
  plugins, and adds none when not. The property itself excepts what follows a lock.json
  that lists plugins outside its components (`EverNarrowed`): see Findings.
  The hypothesis is true of the catalogs of `install`, false of
  those of `install_upgrade`, both evaluated by TLC). Its invariant (`HistoryInv`)
  needs the past: there are files `F[p]` that belong to the `lock.json` of each process
  `p` and were settled when `p` wrote its manifest. `lock.json` tells which of them are
  there, a backup leads from one of them to another, and no transaction both brings
  files and takes some away, so that half way, in the order of `applyOrder`, the
  configuration names only files of the side it is on or of both (`Between`). Before its
  apply, a plan is `Outlined`: an install or an update only brings files, and an
  uninstall, which only takes them, unregisters what it takes. Because `F` is a bound
  variable, no history is added to the specification.
* `InstallLifecycleProofs`, of `InstallLifecycle`: `LockKnowsTheFile`,
  `EditsSurviveUpdates` and `RegistrationsFollowFiles`, for any number of releases,
  paths, edits and commands. The
  invariant is type, "who lists a plugin lists the configuration" and
  `LockKnowsTheFile`. The argument follows a plan: each of its operations is drawn
  from the lock, the file and the release (`Drawn`: the three-way decision, the
  collision, the convergence), an operation applied leaves a file its new entry is
  true of (`Done`), and a command is its operations (`Result`), so every case of the
  planner is looked at once, per path. Assumed (`LifecycleAssumption`): what a person
  writes is what no release ships, and every release ships the plugins that its
  configuration registers, as `MANAGED_PLUGINS` does.
* `InstallLifecycleProofs`, of `Places`: `TasksStayFound` and `RegisteredOnce` for any
  tree of directories (`PathAssumption`: the directories over one are ordered, and
  every set of them has a lowest). The first is a step property under the invariant
  that a `.skynex/tasks` holding tasks stands in a `.skynex` (`RootsMarked`): a root
  found is the lowest marker, it keeps its own, and a new marker between it and the
  caller is one a person names, because whoever creates one unnamed found none above.
  The second follows from `PartsListed`: at a site that is not stranded, the only
  configuration with the part is the one the lock names.
* `InstallLifecycleProofs`, of `Catalog`: `OwnershipReadsBack`, under `AsPublished`:
  versions the lock admits, and no commands. The code checks neither, so this is what
  a publisher has to keep to. The invariant is the property itself; the work is in the
  step of an install, where entries kept and entries recorded must not meet.
* `PluginsProofs`, of `TaskSidebar`: type and all five invariants of the run. What each
  call knows at each await (`CallOK`), and that the Maps and the calls waited for are
  at a place that goes with it (`Links`), are inductive with the type. On top stand:
  a read under way while a hook waits for it began after that hook's command, or the
  hook will start one of its own (`LateReads`, `AdoptedReads`: `MutationIsSeen`); a
  read that passed its check was for the binding of that moment (`CheckedForWanted`:
  `BindingKept`); as long as nothing was overtaken or missed, the snapshot is current
  or a call that will make it so is on its way (`Currency`: `SettledIsCurrent`).
  `NoCircularWait` is its own invariant, with `Links`: a call waits only for one that
  stood in the line before it.
* `PluginsProofs`, of the other two plugins: the last request is for the session shown,
  so `ShowsThisSession`; what is proper among scores is a highest one, so
  `VerdictIsTheProviders`.
* `ProfileApplyProofs`: all five properties of `profile` about applying. `IInv` says
  that every confirmation a service honours was given to it (`agreed` records which),
  of a plan a preview accepted, that a token is honoured by one service, and is neither
  spent nor in the hands of a call; and that the plan of a call under the lease is one
  confirmed to that service. That such a plan can be built (`PreviewForesees`) is an
  argument about text: where nothing the preview read is repeated, the first member is
  the last, so `modify` edits what `parse` reads. `WorkInv` adds that
  the lease excludes, and what its holder knows at each place of the configuration and
  of the backups (`Known`, `Secured`), with what a person did between two reads
  excepted: `OutcomeIsTrue` and `NothingLost` follow. `PlansShown` adds that a plan
  holds the models its preview found, which `ChangesAsShown` compares with the result,
  entry by entry. Assumed (`ApplyAssumption`): a configuration that parses is a record
  of blocks of agents, the last of which is an object.

Only model-checked: the two liveness properties, `CreationEnds` and
`RequestIsBounded` (fairness is out of the prover's reach). The editors of `Profiles`
run with `ProfileApply` and have no property of their own.

## 5. Findings

1. `install_upgrade`. A plan that removes anything puts the configuration first
   (`transaction.ts:58-63`), also when it creates the plugin file which the new
   configuration registers. The comment above it, and the test of
   `verify-installer-transactions.mjs:30`, want registrations published after their
   files.
2. `install_completion`. `completion.json` says `committed` before the lease is
   closed and removed; an error there rolls everything back and leaves the record.
3. `cli_title`. `assertStepDraft` measures a step's title trimmed (`task.ts:214`),
   `buildPendingStep` stores it as given (`service.ts:460`), `parseStep` measures it
   raw (`schema.ts:177`). After `next add` with a title padded past the limit every
   command on the task fails. `SavesReadBack` excepts exactly these titles
   (`PaddedTitle`): nothing else that a line saves fails to read back.
4. `lifecycle_uninstall`. An update that leaves a local edit in place records the
   digest of the edit as the installed one (`installer/src/index.ts:145`, `157`);
   `uninstall` compares with exactly that digest and deletes the edited file without
   a question, and so does an update to a release that drops the resource.
   `installer-execution-plan.md:259` asks for an explicit decision.

What the properties except, and other behaviour met while modelling, each with the
definition that shows it:

* An update put off with the file as shipped keeps, as the installed digest, that of an
  edit a person has taken back since (`index.ts:147-150`), so `uninstall` refuses an
  untouched file; `installer-execution-plan.md:225` wants the actual digest recorded.
  `LockKnowsTheFile` excepts these entries by their pending digest.
* After `install --components agents` the lock's components no longer cover the
  plugins, and uninstall removes the files and leaves their registrations
  (`apps/cli/src/index.ts:242-245`; `Narrowed` of `InstallLifecycle` and of
  `InstallTransaction`, `stranded`). The
  uninstall of a newer CLI leaves an older release's agent policy (`Unmerged`).
* `uninstall` shows what one lock.json lists, and after the answer demands only that the
  one it finds then stays (`uninstall.ts:33-38`). What was installed in between is
  forgotten by the lock and its files stay (`Listed`).
* A managed file that was deleted stops install, update and uninstall alike
  (`MissingResource`, `UninstallRefuses`). An interactive update with anything to
  review leaves upstream changes of plugins and configuration pending, and
  `update --yes` then refuses (`UpdateAsking`, `UpdateYes`).
* `update` after `uninstall` finds an emptied lock, takes it for an installation and
  creates everything again; with a global and a project lock it prefers the global
  one under `--yes` (`Chosen`).
* `install --project <dir>` and `--tasks-root <dir>/.skynex/tasks` create the marker
  that makes `<dir>` a task root, which hides tasks found from there before:
  `TasksStayFound` excepts directories a person names so.
* A manifest admits versions with capitals that the lock refuses, and the trusted
  catalog leaves out commands (`AsPublished`). A release that gives an id another path
  can neither be installed over the old one nor be used to uninstall it; one that
  gives a path another id cannot be installed while the file stands (`Blocked`).
* `refresh` checks the stored binding and stores its snapshot in two operations
  (`skynex-tasks/index.ts:107-108`); a `task:null` between them is undone. A hook that
  waited may register a read of the task it had looked up over the new binding's, and
  the next poll then starts a CLI read (`index.ts:101`, `193`), which L4 of the
  security-review design excludes; the same replacement lets an older answer
  overwrite a newer one. `BindingKept` and `SettledIsCurrent` except these by
  `~overtaken` and would not catch them; they show that nothing else goes wrong.
* The controller shows no answer slower than the four seconds between polls. A title
  made of invisible characters only, or one that keeps nothing visible in its first
  120, is refused by the RPC and blanks the sidebar; texts in `cli` have none.
* The lexer of the sidebar gives up on a call that redirects or expands anything, or is
  longer than 32768 characters (`skynex-tasks/index.ts:37`, `46`, `55`), so after
  `skynex task next done s1 2>&1` the snapshot is not refreshed, though L2 of the design
  (`docs/specs/security-review-enforcement/design-tree.md:17`) wants a refresh after any
  shell call that contains `skynex task`. `SavesAreRecognised` is about calls all of
  whose characters the lexer reads: `Call`, and not `Redirected`.
* A bare `--` is dropped by the CLI's entry point and not by the plugin's lexer
  (`TaskCommand` assumes lines without it).
* Profiles: two saves of one name both succeed and an update can bring back a removed
  profile (`LookToSave`, `LookToUpdate`, `Write`); one profile beyond the limit makes
  every listing fail (`Listed`); concurrent first saves can meet in `mkdir`. A lease
  that stays behind blocks every apply until a person removes it (`RemoveStaleLease`).
  The plugin's preview always asks for `opencode.jsonc`.
* A configuration that repeats a member, `agents`, an agent or its model, is shown by
  the last one and edited in the first (`profile-apply.ts:97-104`): unless the last
  already is as desired, the apply is refused by `verifyManagedModels` (`:105`) after
  the confirmation, with nothing written (`PreviewForesees` excepts what `Repeats`). A repeated legacy entry loses its first
  occurrence only; the others stay under the old name, and the next preview reports both
  identities (`Drop`, `BothIdentities`).
* The move of the legacy entry writes the parsed value and deletes the text of the old
  entry up to its neighbour (`profile-apply.ts:97-98`): a person's comments inside it
  are lost (`Rendered`), and so are those between it and the member before it, or after
  it when it is the first. `ChangesAsShown` says that the comments of every other entry
  stay; comments between entries are not modelled.
* Classifier: nothing bounds the wait for the credential, and a request of many escaped
  characters can exceed the body limit, which throws rather than answers "unavailable".

## 6. Not modelled, and why

* Text: slugs character by character, Markdown rendering, the layout of JSONC and the
  comments between its members, wording of output, help, `doctor` and `backup list`. Represented by constants where
  a property depends on the result.
* Permission bits, ownership and the characters of paths (`path-policy.ts`,
  `fs-safe.ts`, `validateAncestors`): a rejection is a step that fails.
* Temporary and staging files: exclusive, random names, never read by anybody.
* Power loss: `fsync` is not modelled, a crash is the death of a process; the
  documents make no further promise.
* The hooks of the runtime plugin that only add text to a prompt; markup of the views.
* Durations, where the code relates none: how long a sidebar request takes against the
  four seconds between polls.
* `src/scripts`: the repository's tests, read for what they expect.
* Copies: `plugins/sky-agents/core` repeats `packages/sky-agents/src`; `vendor` is a
  library.

## 7. Plan

Nothing of the plan is left. `InstallTransaction` and `InstallPlanner` stay apart: the
first has the moments at which a command reads, the second the digests it reads.
