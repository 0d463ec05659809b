# TLA+ models of bosun

bosun (`src/bosun-client`) is an agent that brings a node to the state that a
bundle describes. A timer starts `bosun apply`; each run evaluates the
bundle's Starlark manifest into resources, orders them, plans and applies them
one by one, and carries out restarts and reloads of services through a journal
of deferred actions on disk, so that a later run can finish what this one could
not. Nobody watches the agent: what it does after a kill, with an unreachable
init system, or next to a second invocation, has to be right without anybody
noticing.

The modules here model that core and the parts it is made of, from the
evaluation of a manifest to the child processes and the clients of the init
systems. TLC checks them on small instances, and TLAPS proves nearly all
safety properties, of the core and of the parts, for every value of the constants.
`PROJECT.json` is the index: components, runs, the lines each definition
models, the hazards behind the properties, the findings and the theorems.

Paths below are relative to `src/bosun-client/crates/`.

## 1. Inventory

### Parts of the system

| Part | Source | State it keeps | Operations |
|---|---|---|---|
| One run of `bosun apply` | `bosun-cli/src/run.rs`, `bootstrap.rs`, `metric.rs`, `exit_code.rs` | lock file, node-exporter metric file | take the lock, bundle and version, journal, pre-replay, evaluate, plan or apply, post-replay, count, metric, exit |
| Defer journal | `bosun-core/src/defers/{journal,format,priority,action}.rs` | a directory of `.deferred` and `.manual_clear` files | enqueue with dedup, list, remove, bump_attempt, move_to_manual_clear |
| Replay | `bosun-core/src/defers/replay.rs`, `bosun-primitives/src/dispatch.rs` | the snapshot it works on | dispatch, health check, remove / bump / promote |
| `bosun status` | `bosun-cli/src/status.rs` | none | list, `--clear <id>`, `--clear-all-manual`, without the lock |
| Registry | `bosun-core/src/registry.rs`, `resource.rs` | resources and their links | add, topological_order |
| Orchestrator, pacer | `bosun-core/src/orchestrator.rs`, `pacer.rs`, `primitive.rs` | changed_resources, failed_or_interrupted, abort flag, report | plan_only, apply |
| `file.content`, `file.delete`, `file.symlink`, `cert.tls` | `bosun-primitives/src/{file_content,file_delete,file_symlink,cert_tls}` | files, backups | plan, write to a temporary file, validate, back up, rename |
| `systemd.service`, `runr.service` | `bosun-primitives/src/{systemd_service,runr_service}` | once-per-run daemon_reload flag | daemon_reload, decide, start, stop, enqueue restart or reload, verify, health check |
| timers, cgroup, `process.signal`, `sysctl.reload` | `bosun-primitives/src/{systemd_timer,runr_timer,runr_cgroup,process_signal,sysctl_reload}` | none | enable, start, triggered commands |
| apt | `bosun-primitives/src/{apt_package,apt_key,apt_update_cache}` | dpkg's own state, a key file, the age of the cache | lock probe, install, recover, update |
| users, groups, SQL | `bosun-primitives/src/{users_user,users_group,pg_sql_exec,pg_sql_query}` | system databases, published facts | useradd and friends, SQL |
| Facts | `bosun-facts`, `bosun-core/src/facts.rs` | cache of Known, Unknown and Stale values | collect, invalidate, publish |
| Clients | `bosun-runr-client`, `bosun-systemd-client` | connection | calls with timeouts, wait for a job, verify a restart |
| Health checks, validate | `bosun-primitives/src/health_check`, `bosun-core/src/{health_check,validate}.rs` | none | run a command with retries, timeout and cancellation |
| Evaluation | `bosun-core/src/{bundle,inventory,evaluator,sensitive,call_args,path_safety}.rs`, `starlark_glue`, `bosun-primitives/src/template` | the registry under construction, the sensitive store | load, call, merge, render, evaluate |

### How they interact

`run` takes an exclusive `flock` and owns everything else for its lifetime. It
opens the journal, replays it, and only then evaluates the manifest; evaluation
calls `Registry::add`. The orchestrator asks the registry for the order and
calls `plan` and `apply` of each resource's primitive. Primitives share an
`ApplyCtx`: a resource that changed is recorded in `changed_resources`, and the
services that list it in `reload_on` or `restart_on` look it up when their turn
comes. A service does not restart or reload anything itself: it enqueues an
entry, and the second replay, or the first one of the next run, dispatches it
to the init system. SIGTERM and SIGINT set a cancellation token from another
thread. `bosun status --clear` and an invocation that finds the lock taken act
on the journal and on the metric file without the lock.

### What is hard

* **Kills.** Everything that spans two file operations can be cut in the
  middle: the replacement of a journal entry by a stronger one, the attempt
  counter, the write of a file and the entry that tells its service.
* **Stale state.** Replay works on a snapshot while `status --clear` unlinks
  files; `daemon_reload` is remembered as done for the whole run; changes are
  known in the run that made them only.
* **Partial failure.** A rename that succeeded followed by an fsync that did
  not; one resource of many failing; an error that leaves the replay loop.
* **Concurrency.** Two invocations, a signal at any step, a service that dies
  between decision and action.
* **Waiting.** Child processes that hang, fill their pipes or leave heirs; a
  systemd job that ends before anybody listens; a runr that only acknowledges.
* **Two descriptions of one thing.** A payload is written by one table and read
  by another; overlays are merged by path and by key; an error passes through
  every module that loaded the one it is in.
* **Liveness.** The loops must end, entries must not stay for ever, and the
  node must converge once the disturbances stop.

### What makes each part correct

| Part | Properties |
|---|---|
| Journal and replay | accepted actions are kept until executed; no redundant pairs; retries bounded; every entry settled; the whole is an atomic queue |
| Registry | complete topological order, or exactly the set of resources that cannot be ordered; termination |
| Orchestrator | nothing is applied on top of something that is not there; subscribers see exactly what changed; skips are justified; nothing is touched after a fatal failure; a signal ends the run; every resource gets a verdict |
| File primitives | a success means the file is as wanted, but for bits that chown clears; a complete backup first; backups bounded; only validated files installed; nothing destroyed that was not given away; key and certificate belong together |
| Services and files | between runs, stale configuration has an entry that makes up for it unless a run dropped it; convergence of the rest |
| One run | one replay at a time; dry runs leave the journal alone; the metric file tells the truth |
| One visit of a service | what is reported is what happened to the unit; the unit is started from the file on disk; what the init system refused is not put off as unreachable |
| `bosun status` | no entry slips through a listing beside an apply; the clearing takes what it was asked to take |
| apt | what is reported as changed is installed; an interrupted dpkg and empty lists are recovered; convergence |
| Accounts | fields that the bundle does not name survive; convergence |
| Timers, signals | convergence, with triggers that are not in the journal |
| SQL | a statement with a check takes effect at most once per node, and once more for each connection lost over a statement under way; convergence |
| Facts | no value from before an apply passes for a known one; the collectors compute what is asked for |
| Child processes | every call returns unless an heir keeps the pipe; a killed command leaves nothing of its group; the verdict of a health check is the last attempt's |
| Clients | a success is that of this job and of this start; every call returns unless systemd does not answer |
| Evaluation | the first error is reported; a resource is registered once and whole; a payload is what the call says and what the plan takes; merges are overlays; a template is that of the module of the call, or of where its templates directory is linked to |

## 2. Modules

| Module | Models | Role |
|---|---|---|
| `DeferQueue` | what the journal promises | abstract specification: an atomic, deduplicated queue |
| `DeferJournal` | journal, replay, the frame of a run, `status --clear` | detailed specification, implements `DeferQueue` |
| `Registry` | `add`, `topological_order` | one action per step of Kahn's loop |
| `Orchestrator` | `apply`, `plan_only`, pacer | one action per outcome of a plan or an apply |
| `Convergence` | runs, files, services, init system | composes `DeferQueue` (INSTANCE) with the primitives |
| `BosunRun` | overlapping invocations, lock, exit codes, metric file | composes whole runs over one journal |
| `FileOps` | `file.content`, `file.symlink`, `file.delete`, `cert.tls` | one action per file operation |
| `AptOps` | `apt.package`, `apt.key`, `apt.update_cache` | one action per command |
| `Accounts` | `users.user`, `users.group` | a run over both, one action per lookup and tool |
| `Triggers` | timers, `runr.cgroup`, `process.signal`, `sysctl.reload` | one action per call |
| `Services` | one visit to a `systemd.service` or `runr.service`, the context of a run | one action per call to the init system; opens the visit of `Convergence` |
| `PgSql` | `pg_sql.exec`, `pg_sql.query` | several nodes, one action per connection and statement |
| `Commands` | the five runners of child processes, health checks, dispatch | one action per poll, read and retry, and per act of the child |
| `Clients` | the systemd D-Bus client, the runr HTTP client | one action per call, event and poll |
| `Facts` | the collectors, the cache, published facts | the collectors are operators, the cache is a state machine |
| `Manifest` | bundle, loads, calls, errors, sensitive store, `bundle validate` | one action per statement |
| `Payloads` | constructors, `build_payload` and Spec of the 18 primitives | tables, and the way of one call through them |
| `Inventory` | merge, keyed merge, lookup | recursive operators against a definition by path and by key |
| `Templates` | lookup and context of a template | one action per phase |
| `Status` | `bosun status` beside an apply | one action per file operation |
| `MCNodeOps` | the thirteen modules above | a behaviour picks one of them |
| `MC*` | | instances for TLC |
| `*Proofs` | | theorems about the core, one module per specification |
| `PrimitiveProofs` | | theorems about `AptOps`, `Accounts`, `Services`, `PgSql` and `Triggers` |
| `RuntimeProofs` | | theorems about `Manifest`, `Payloads`, `Templates`, `Facts`, `Commands`, `Clients` and `Status` |

The levels fit together as follows. `DeferJournal` and `Convergence` have one
process at a time; `BosunRun` shows that the lock provides just that.
`Convergence` uses the journal through `DeferQueue`; `DeferJournal` implements
`DeferQueue`. `Orchestrator` takes any acyclic graph and any order that
respects it; `Registry` shows that this is what `topological_order` returns.
`Convergence` and `Orchestrator` take a file resource as one step with an
outcome; `FileOps` opens that step, and `Services` opens the visit to a
service. Where these call something that waits, `Commands` and `Clients` have
the waiting. What evaluation hands to the registry comes from `Manifest`, and
the payloads in it from `Payloads`.

### DeferJournal

`deferred` and `manual` are the files by name, the name being determined by
action and unit; `attempts` is the counter in the file. `phase` and `step` say
where the process stands; `cur`, `todo`, `snap`, `olds` and `gone` are the
local variables of replay and enqueue, lost in a kill. `owed` and `failures`
are history variables that only properties read. Each file operation is an
action: `Unlink` and `Write` of an enqueue, `Remove`, `Bump` and `Promote` of a
replay. `ReplayIoError` and `EnqueueIoError` fail an operation with or without
its effect (the fsync of the directory comes after the rename). `Bump` writes
the snapshot's entry back even if its file has been cleared meanwhile, as
`bump_attempt` does, and `PromoteMissing` is the rename that finds no file.

`"crash"` and `"io"` are kept apart from `"replace"`: the same disturbances in
the window of `enqueue` between the first unlink and the write. Outside that
window at-least-once holds and is proved; inside it it does not hold (section
3, disagreements).

### Registry

An edge carries the field it comes from, so that a handle listed in two fields
counts twice, as in the code. A handle listed twice in one field, two edges in
the code as well, is one in the model: two fields stand for it. The order of a `HashMap`'s vertices and of the
successors of a vertex is left open.

### Orchestrator

The order is any one that respects the edges: a resource is taken when the
sources it is ordered after have a verdict. The answers of `plan` and
`apply` are nondeterministic, which also stands for a primitive that panics.
`seen` records which sources a resource found changed when it was applied;
`early` whether a signal arrived before the last pause.

### Convergence

A file is abstracted to `drift` (differs from the bundle), a process to the
set `stale[s]` of files it has not taken up. `order` is the order of the visits,
one that Kahn's queue can give (`TopologicalOrder`): since the queue is first in,
first out, all resources without dependencies come before the others. The actions are the steps of a
run: `FileWritten`, `DaemonReload` (once per run), `Decide` (the decide
tables of the two service primitives), `StartService`, `StopService`,
`Enqueue`, then `Dispatch`, `CheckPasses`, `Remove` or `Refused` for each entry
of a replay. Disturbances strike between any two of them. The init system and
the process of a service are external: `Spawn`, `Reread` and `Halt` say what
the code relies on (a fresh process reads what is on disk; a unit is started
from the definition the init system has loaded). A reload is taken to make the
process read its `reload_on` files and not its `restart_on` files.
`lost` is a history variable: the changes that a run made and whose service it
never reached (it was killed or cut short, something failed, or the init system
was out of reach). `NotifyKept` and `Converges` exempt them: such a service stays
on its old configuration until something else restarts it, which is what
`ReloadSurvives` counts against the code.

### BosunRun

Each invocation goes through the phases of `run` with its own position,
snapshot, exit code and dry-run flag; `lock`, `journal` and `metric` are
shared. A kill releases the lock, as the kernel does. `clean` is a history
variable: since the lock was last taken, no skipped invocation, no operator, no
kill and no failed write got in the way of the metric file.

### FileOps

One path with what is at it (nothing, a file, a link, a directory that is
empty or not), the `.new` file beside it, its backups by name, and one pair of
certificate and key. A resource of any of the four kinds is applied (`Begin`),
decides on what it finds (`decide_content`, `decide_action_symlink`,
`decide_action_delete`, `decide_action_cert`) and goes through its operations;
`pc` is the next one. `result` is what the apply returned, and is forgotten as
soon as somebody else changes something.

A body stands for the content and the mode of a file, an owner for user and
group. A temporary file that is written, given its mode and owner and renamed
is one step, because nobody sees it before the rename; what a kill leaves of it
(a file with a random name) is left out. The step keeps the order of the code:
chmod comes first, and a chown to another owner than bosun's own clears
set-user-ID and set-group-ID (`Made`, `WithoutSetId`). `links` are the ones of
certificate and key that are links or no regular files, which `cert.tls` refuses
when both are there. Names of backups are numbers in the
order in which `rotate` sorts them; those outside `Stamp` belong to another
file whose name begins like this one's, since `rotate` takes every name with
the prefix. `Clock` may also set the time back. `CutShort` ends an apply at any
operation, by an error or by a kill, and leaves a copy or a `remove_dir_all`
half done. `checked` and `torn` are history variables: the file at the path
came through a validator; an apply ended between key and certificate.

Plan and apply take the same decision; the model takes it once, at the start
of apply, because others act between two applies only.

### The parts of a node and of a bundle

Each of the thirteen modules has variables, names and a specification of its
own, so that one MC module can hold them side by side.

* **AptOps.** `dpkg` is the status and version that dpkg has, `lists` whether
  the package lists are there, `held` whether somebody has the lock, `keyring`
  and `served` the key on disk and the one the server sends. `aptPc` is the next
  command of an apply; `ran` which recoveries and retries it has had. apt, dpkg,
  gpg and the key server are external, by the answers the code tells apart.
* **Accounts.** `passwd` and `grp` are the entries as everybody edits them;
  between the lookup and the tool they may change. Names are sequences of
  character classes, which is what the name rules look at.
* **Triggers.** `unit` is a timer; `file`, `lastRead` and `reader` stand for the
  configuration and the process that is to read it again; `queued` for the
  deferred signal.
* **Services.** `svcUnit` is the unit with its state, invocation and whether its
  file was read, `ctx` the part of `ApplyCtx` that a visit uses. `svcDid` and
  `svcFault` are history: what was done, and the first call that failed.
* **PgSql.** `stage` and `session` say what each node is doing and whether its
  connection runs a statement; `effects` counts how often a node's statement
  took effect. The timeout that the code sets does not reach the statement
  (`SET LOCAL` outside a transaction), so the server's default applies. When a
  connection is lost the code drops its side only; a statement that the server has
  already may go on, wait for its lock and take effect after the next run has
  looked (`orphans`, `OrphanEnds`). `abandoned` counts them, as history.
* **Commands.** `child` and `heir` are the processes, `pipe` what is in the
  pipe; a child blocks when it is full. Only `exec` drains while it waits and
  kills the group.
* **Clients.** `job` is the systemd job, `jobEvents` the signals under way, lost
  when they come before `subscribed`. `svc` is the service that both daemons
  look after and that others restart. `clMute` says that the bus, or systemd, does
  not answer; it may change at any time.
* **Facts.** `node` is what the collector of one fact reads, `cache`,
  `published` and `reading` are the entry, the overlay and what a plan was
  given. `since` and `known` are history.
* **Manifest.** The program is written while it runs: a statement that is
  reached for the first time is any statement. Frames of loads are a stack;
  `cause` is the first error and whether the glue recorded it; what Starlark, a
  tag, the inventory or the conversion of arguments raises it does not.
* **Payloads.** A value is its type, whether it is a word that the enumerations
  know, and its range. `build_payload` and the Spec of each primitive are two
  tables, translated separately.
* **Inventory.** JSON documents of depth two with two keys and lists of keyed
  items. `MergeDeep` and the others are recursive, as in the code.
* **Templates.** A small directory with links of every kind, modules of a role,
  of a library and the entry point, and modules whose `templates` is itself a link,
  to another module's or out of the bundle, or is missing (`CanonicalRoot`).
* **Status.** `stFiles` are the files by id and extension. The directory is read
  as names; each file is read, renamed or removed on its own, while an apply
  parks, writes and removes. `stHeld`, `stOld` and `stRemoved` are history.

## 3. Runs

All passing runs explore their whole state space.

| Run | Shows | Size |
|---|---|---|
| `DeferJournal` | `AtLeastOnce`, `NoSubsumedPair`, `BoundedRetries` | 1.2M states |
| `DeferJournalQueue` | `ImplementsQueue`, `EntrySettles` | 39k |
| `Registry` | `OrderIsTopological`, `CycleIsReal`, `SortTerminates` | 55k |
| `Orchestrator` | `DependenciesHold`, `NotifyExact`, `StopsAtFailure`, `RunCompletes` | 1.7M |
| `Convergence` | `NotifyKept` | 2.2M |
| `ConvergenceLive` | `Converges` | 110k |
| `ConvergenceCrash` | violates `ReloadSurvives` | |
| `ConvergenceUnitFile` | violates `UnitFileTakesEffect` | |
| `BosunRun` | `SnapshotFresh`, `MetricHonest`, `DryRunReadOnly` | 2.3M |
| `FileOps` | `ResultHonest`, `BackupFirst`, `BackupsBounded`, `CheckedOnly`, `PairKept`, `Preserved` | 5.3M |
| `FileOpsPair` | violates `PairMatches` | |
| `NodeOps` | the thirteen modules of `MCNodeOps`, below | 542k |

What `NodeOps` shows, part by part:

| Property | Part | Says |
|---|---|---|
| `AptChangedHolds` | `AptOps` | an apply that reports a change of a package, or of a key with a fingerprint, left it as declared, through recovery and retries |
| `AccountFieldsKept` | `Accounts` | a run gives a field only a declared value, and takes away only what is declared absent |
| `NodeConverges` | `AptOps`, `Accounts`, `Triggers`, `PgSql` | once failures and foreign changes stop, runs bring the node to what is declared and then change nothing |
| `NothingLeftBehind` | `Commands` | a cancelled command leaves no process of its group |
| `HealthVerdict` | `Commands` | the verdict of a health check is that of the last of all its attempts |
| `CallsReturn` | `Commands`, `Clients` | every call returns, unless a process keeps the pipe or systemd does not answer |
| `ClientVerdict` | `Clients` | a success is that of this job; after a restart through runr another process runs than before |
| `FactsHonest`, `FactsRight` | `Facts` | no old value passes for a known one; the collectors are right |
| `PgEffectsOnce` | `PgSql` | at most one effect per node, and one more for each statement whose connection was lost before it took effect; a reported change was made |
| `PayloadFaithful` | `Payloads` | the call is what the plan works with |
| `RootCause`, `ManifestWhole` | `Manifest` | the first error comes out; each resource once and whole |
| `MergeOverlays` | `Inventory` | a merge is an overlay, by path and by key |
| `ServiceVerdict` | `Services` | the report of a visit is what happened to the unit |
| `TemplateRight` | `Templates` | the text comes from the module of the call, or from where its templates directory is linked to |
| `StatusHonest` | `Status` | nothing slips through a listing or a clearing |

### Bounds

* `DeferJournal`: two units, so that an error leaves part of a snapshot
  unvisited; restart and reload; one unit with a health check and one without;
  `max_attempts` 2, so that an entry can fail, be retried and be promoted; two
  disturbances of any kind, enough for a clear in the middle of a replay
  followed by a failed write. `DeferJournalQueue` has one unit and the three
  actions that subsume each other, so that one enqueue replaces two entries.
  Clearing during a run is left out there: a cleared entry that replay writes
  back is not a step of the atomic queue. What remains true with it
  (`AtLeastOnce`, `NoSubsumedPair`, `BoundedRetries`) is in the other run.
* `Registry`: three resources, two fields, at most two handles each: self
  loops, cycles of length two and three, double edges, unknown handles.
* `Orchestrator`: three resources, which is enough for a chain through a
  skipped resource and a source that is not a dependency; all options.
* `Convergence`: two services that share a file and have one of their own; three
  events on top of the first bundle, enough for another bundle, a failure and a
  kill in one behaviour; its view (`StateView` of `MCConvergence`) leaves out
  what no later step reads, so that 2.2 million states stand for 6.4 million.
  `ConvergenceLive` has one of these services with its two
  files and five events, enough for an old entry that restarts a service which a
  later bundle no longer wants, with faults before and after. `ConvergenceCrash`
  has two events, and `ConvergenceUnitFile` one, which is all it takes; in the
  latter the second unit file depends on the first service, so that the queue of
  `topological_order` puts it after that service.
* `BosunRun`: two invocations at a time and three in all, two entries.
* `FileOps`: three applies and two events, enough for a file to be installed,
  disturbed, half replaced and looked at again; three contents, one of which the
  validator rejects, and one with a set-user-ID mode; one kept backup out of two possible time stamps and a name
  of another file that sorts after them.

* `NodeOps`: one resource, call or fact at a time. `AptOps` has two versions and
  two faults, enough for an install that fails, is recovered and fails again;
  `Accounts` two fields, one of which is the group of the other resource;
  `Commands` a pipe of two units and children that write up to three, retry
  counts 0, 2 and the default; `Clients` three invocations and two jobs of
  others; `PgSql` two nodes, a timeout of 2 and two faults, hence up to three
  effects (`PgMaxEffects`); `Manifest` three
  statements and loads of depth two; `Status` two entries, every set of their
  files and one act of the apply at any point.

Deadlock is not checked in `Registry`, `Orchestrator`, `BosunRun`, `FileOps`
and `NodeOps`, which describe something that ends or stop at a bound. The journal and the node have no last state.

### Fairness

* `Registry`, `Orchestrator`: weak fairness of the loop, a single thread that
  nothing blocks. A primitive that never returns is excluded: each has its own
  timeouts, but for a call to a systemd that does not answer and a process that
  keeps a pipe, which hold the whole run (see `CallsReturn`).
* `DeferJournal`: weak fairness of the run's own steps (the timer starts the
  next run, the process goes on), and strong fairness of "the client answers"
  for each entry. A client that is never there again leaves the entry pending
  for ever, by design: only answers are counted as attempts.
* `Convergence`: the same, with an init system that answers or cannot be reached
  but does not stay silent, and an entry that is replayed again and again
  either passes or is set aside, which is what `EntrySettles` and
  `BoundedRetries` say of the journal. Faults and bundles are never fair.
* `MCNodeOps`: weak fairness of bosun's own steps in each part with a liveness
  property (the timer starts the next run, a loop polls), of the clock, of the
  replay that sends a deferred signal, of a child that still has something to
  write and room for it, and of whoever holds the dpkg lock or a lock of the
  database releasing it. A child owes nobody an end, an event of systemd may be
  lost, and runr may never act: the timeouts have to do. There is none on the
  method calls to systemd (`manager.rs:68-143`, `:220-265`, `facade.rs:68-133`),
  only on the wait for the event of a job. A bus or a systemd that does not
  answer (`BusGoesMute`, which nothing obliges to end) therefore holds a call for
  as long as it lasts, and `CallsReturn` exempts exactly the behaviours in which
  a call keeps meeting it.

### Where code and documents disagree

Each has a run with a counterexample and an entry under `findings`.

1. *Kill between file and service.* The entry is made when the service is
   visited. A kill after the file is written and before that leaves nothing
   that remembers the change; `bundle-authoring.md` says the journal covers it.
   With `Faults = {"unavailable"}` in place of `{"crash"}` the same property
   fails for a service whose init system cannot be reached in the run that
   changed its file: the next run has no trigger.
2. *Unit files.* `daemon_reload` happens once per run, at the first service that
   needs it. A unit file that is written after that, because it depends on a
   service (or on something that does), is not loaded, and the restart uses the
   old definition. Unit files without dependencies are all written before any
   service is visited and are not concerned.
3. *Certificate and key.* `cert.tls` renames the key and then the certificate,
   and decides by the certificate's name and expiry alone. A key that was lost,
   and a kill between the two renames, leave a new key beside the old
   certificate, and from then on every run finds nothing to do. A comment in
   `cert_tls/plan.rs` says that both are generated to prevent just that.

Met while modelling, without a run of their own. The journal, a run and files:

* `enqueue` unlinks the subsumed entries (`journal.rs:286-302`) and then writes
  the new one (`:304`). A kill in between loses an accepted action;
  `operator-runbook.md:373` promises at-least-once. `AtLeastOnce` fails when
  `"replace"` is added to `Faults` of the run `DeferJournal`.
* `args.rs:174-177` says that `--clear` looks for `*.deferred` first; `clear_one`
  takes the order of the directory. A corrupt `.manual_clear` is not listed, so
  that the exit code is 0 (`status.rs:6-7` says 1). A file that goes away between
  the lookup and the removal makes `--clear` exit with 4.
* The copy of `file.content` and its rename leave a window in which an edit by
  the operator is in no backup (`file_content/apply.rs:256`). chown comes after
  chmod and clears set-user-ID and set-group-ID (`:313`/`:336`, `:417`/`:449`):
  apply reports a change, the file lacks the bits, and every run writes it again.
  `ResultHonest` has this as its one exception. Applies that fail after the backup fill
  the rotation with copies of one version (`:133`).
* `topological_order` makes edges of `reload_on` and `restart_on` too
  (`registry.rs:68`), whereas `bundle-authoring.md:210` and `:230` say they do
  not influence the order; two resources that notify each other are refused as
  a cycle.
* The pacer's pause looks at the cancellation token only, and the loop never
  at the deadline; `pacer.rs:12` and `README.md:206` say the deadline ends a run.
* An invocation that finds the lock taken, and every early return, writes
  `bosun_defers_pending 0` over the last result; `README.md:249` says it is the
  number of entries in the journal now. `MetricHonest` names the exceptions.
* A run writes its start time as the time of the last attempt, so that a long
  run can set `bosun_last_attempt_timestamp_seconds` back.
* `rotate` keeps five backups of a file, whereas `operator-runbook.md:278` says
  that old backups are not removed; and it counts the backups of other files
  whose names begin alike. `bundle-authoring.md:405` mentions an `fsync` of the
  directory after the rename that the code does not make.

Services, processes and clients:

* The fact `init_system` never says `runr` or `mixed-systemd-runr`
  (`bosun-facts/src/init_system.rs:16-25`), so that `service.unit` fails on runr
  nodes and no runr client is built without `--init-system`, against
  `bundle-authoring.md:632`, `:721` and `args.rs:152-158`.
* A start of a systemd unit that is activating or reloading keeps its
  InvocationID and is reported as an error (`systemd_service/apply.rs:344`); a
  start that times out is put off although the unit may be up, and a health check
  that failed after a start is not repeated by the next run, which finds the unit
  active. An `Io` error of runr's daemon_reload is `Apply` in one place and
  `RunrUnavailable` in another.
* `exec.rs` joins the threads that drain the pipes, which takes as long as any
  process holds one, also after the kill. The other four runners do not drain
  stderr while they wait, and kill the child only.
* Excerpts are cut at a byte (`apt_update_cache/apply.rs:74`,
  `sysctl_reload/apply.rs:55`, `health_check/url.rs:79`), which panics inside a
  character.
* `systemd.timer` decides by `active` alone, `runr.timer` by `enabled` alone;
  `bundle-authoring.md:734` gives `runr.timer` an `enable` that the code lacks.
  `process_signal/plan.rs:3-7` says that an entry that exists makes no change; the
  code always reports deferred.

Packages, SQL and facts:

* `apt.package` drops `state` in `build_payload` (`apt_package/mod.rs:108`,
  `bundle-authoring.md:649`), and the defaults of `allow_downgrade` and
  `allow_change_held` are the opposite of the documented ones. `run_remove` has
  no recovery for an interrupted dpkg (`bundle-authoring.md:653-655`). A keyring
  that cannot be read is never replaced, and a wrong key is written before it is
  verified. The pauses of `apt-get update` do not look at the cancellation, and
  the third is never used.
* `SET LOCAL` outside a transaction has no effect (`pg_sql_common/backend.rs:138`),
  so that the timeout of a resource is not applied. Integers and floats narrower
  than 64 bits are published as `<decode-error>`. Two nodes can both pass the
  re-check and both execute. One node can execute twice: a statement whose
  connection is lost while it waits for a lock goes on in the server
  (`backend.rs:88-99` drops the client's side only), and the next run finds nothing
  yet.
* With an unknown priority or a version that does not parse, the candidate of a
  package depends on the order of a directory. `apt.update_cache` is not a trigger
  of `installed_packages`. A Stale fact is not tried again until it is dirty.

Manifests, inventory and templates:

* A load cycle recurses without bound; `LoadCycle` is never raised. Errors of
  `inventory.read` and of a private symbol in a loaded module come out as `Eval`.
  Keyword arguments that a constructor does not know are ignored, except in
  `service.unit`; an empty list is of the wrong type. Words and paths are checked
  by the plan, on the node.
* `inventory.rs:92-93` says that null deletes under every strategy; `Replace` and
  nulls under new keys keep it. Integers beyond 32 bits reach Starlark as strings.
* `globals.rs:581-584` says that the arguments of `template` become variables of
  that name; they are under `inv` (`run.rs:178-186`). With an `inv` that is not an
  object the facts are missing. An Unknown fact renders as null. A nested role can
  be loaded and has no templates. A `templates` directory that is a link is followed
  before anything is checked (`bundle.rs:227-230`, `path_safety.rs:67`): what is
  rendered is then a file of another module, or from outside of the bundle.

## 4. Proofs

Every theorem is an invariant or an action property of the specification, or
says what one of its operators computes, for all values of the constants that
satisfy the named assumptions: no bound on units, resources, services, nodes,
entries, invocations or disturbances. Three theorems about ends assume that there
are finitely many resources, files and services, or entries. Type invariants, `SkipJustified`
(every skip has its reason), `SignalInterrupts` (a signal ends the run),
`AptOneRecovery` (one recovery per apply), the measures of the theorems about ends
and the action properties about what stays settled are proved and not part of the
runs.

| Module | Theorems | Inductive invariant |
|---|---|---|
| `DeferJournalProofs` | `JournalTypes`, `JournalDedup`, `JournalAtLeastOnce`, `JournalBoundedRetries`, `JournalImplementsQueue` | `LocalInv`, `ReplaceInv`, `PairInv`, `RemoveInv`, `SnapInv`, `CountInv` |
| `RegistryProofs` | `RegistryTypes`, `RegistryOrders`, `RegistryCycles` | `DegreeInv`, `ArrivalInv`, `EdgesInv` |
| | `RegistryDescends` | the same, with the measure `Work` |
| `OrchestratorProofs` | `OrchestratorTypes`, `OrchestratorDependencies`, `OrchestratorNotify`, `OrchestratorSkips`, `OrchestratorSignal`, `OrchestratorStops` | the parts named in `Orchestrator` |
| | `OrchestratorGoesOn`, `OrchestratorDescends` | `TypeOK`, with the measure `StepsLeft` |
| `ConvergenceProofs` | `ConvergenceTypes`, `ConvergenceNotify` | `VisitInv`, `DecisionInv`, `ReplayInv`, `NotifyInv` |
| | `ConvergenceRunEnds` | `VisitInv`, with the measure `RunWork` |
| `FileOpsProofs` | `FileTypes`, `FileResultHonest`, `FileBackupFirst`, `FileBackupsBounded`, `FileCheckedOnly`, `FilePairKept`, `FilePreserved` | `ContentInv`, `BackupInv`, `LinkInv`, `PairInv` |
| `BosunRunProofs` | `BosunTypes`, `BosunExclusive`, `BosunMetric`, `BosunDryRun` | `LockInv`, `SnapInv`, `MetricInv` |
| `PrimitiveProofs` | `AptTypes`, `AptChangeHolds`, `AptStaysSettled` | `AptPhases` |
| | `AptRecoversOnce` | `AptBudget` |
| | `AccountsKept`, `AccountsStaySettled` | `AccShape`, `CommandDeclared` |
| | `ServiceVisitHonest` | `SvcOpen`, `SvcNamed`, `SvcPhase`, `SvcInvocation`, `SvcRead` |
| | `ServiceVisitEnds` | the same, with the measure `CallsLeft` |
| | `PgOnce` | `PgKinds`, `PgSessions`, `EffectSeen` |
| | `PgStaysSettled` | the same, with `PgReadsFresh`, `PgFoundStays`, `PgLimits` |
| | `TriggersStaySettled` | `TrgPhases` |
| `RuntimeProofs` | `RootCauseReported` | `CauseInv` |
| | `ManifestIsWhole` | `LinksKnown`, `EntriesWhole`, `StackInv` |
| | `PayloadIsFaithful` | `PayInv`, `PayloadBuilt`, with `TablesAgree` for each primitive |
| | `TemplateIsRight` | `TplInv` |
| | `FactsAreHonest` | `CacheHonest`, `FactOrder`, `ReadHonest`, `NodeCounted` |
| | `FactsAreRight` | `FactNode` |
| | `CpuCountRoundsUp`, `MemoryRoundsDown`, `NewestIsCurrent`, `BestIsCandidate` | none: about the collectors as operators |
| | `CommandLeavesNothing`, `HealthCheckHonest` | `ExecInv`, `HealthInv` |
| | `CommandTypes` | `CmdShape`, `CmdOutcome`, `AttemptsLeft` |
| | `CommandDescends` | `AttemptsLeft`, with the measure `CommandWork` |
| | `ClientCallsHonest` | `ClShape`, `ClJob`, `ClGen` |
| | `StatusWhole` | `ExitInv`, `ListInv`, `ClearInv` |
| | `StatusEnds` | `StNamesInv`, with the measure `NamesLeft` |

* **Journal.** `NoSubsumedPair` is not inductive: replay writes entries of its
  snapshot back. `PairInv` extends it to the snapshot, and `ReplaceInv` says
  why the file that `Write` creates is redundant with none. `AtLeastOnce`
  needs that an entry is removed only when nothing is owed for it
  (`RemoveInv`), that what enqueue unlinks is covered by what it is about to
  write, and that `Covers` is transitive. It is proved under the assumption
  that no disturbance falls into the replace window (`"replace" \notin
  Faults`). The refinement additionally assumes that nobody clears entries
  during a run. `BoundedRetries` rests on `SnapInv` and `CountInv`, which
  follow the counter from the file to the snapshot and back.
* **Registry.** `in_degree` counts the edges that are not relaxed yet
  (`DegreeInv`), hence the vertices that have reached the queue are those with
  nothing left to relax (`ArrivalInv`). When the queue is empty and the order
  incomplete, each remaining vertex has a remaining predecessor; a set of
  vertices that wait for each other can never have entered the queue. Each
  vertex enters the order once and each edge is relaxed once, so `Work` goes down.
* **Orchestrator.** Verdicts are final (`VerdictsFinal`); a resource is
  visited after its sources, so what it saw of them is what the report says.
  Among the resources without a verdict one has all its sources behind it,
  because the graph is acyclic, and each visit takes at most three steps.
* **Convergence.** For each stale file of a running service: it is asked for
  by an entry, or it was dropped, or the service is still to be visited in the
  run that changed it (`NotifyInv`). `VisitInv` orders the visits,
  `DecisionInv` and `ReplayInv` carry the facts from the decision to the
  enqueue and from the execution to the removal. A run goes through the replay,
  the resources and the replay again; what a part may still enqueue or load is
  counted before that part begins (`RunWork`).
* **One run.** The lock is held exactly by the invocation past `try_flock`
  (`LockInv`); only it has a snapshot.
* **Files.** What a step may do rests on what the decision saw and on nothing
  having changed since: `ContentInv` and `LinkInv` carry that from the decision
  to the rename, the link and the removal, and say that `.new` is the file of
  this apply. `BackupInv` extends `BackupFirst` over the rotation: when the
  oldest of more than `Keep` names is the backup just made, all the others are
  later. `PairInv` says that a key and a certificate that are both there belong
  together unless an apply ended in between.
* **Packages and keys.** Each command belongs to one kind of resource and one
  declared state (`AptPhases`), so a step that reports a change knows what was
  asked for; what it leaves on the node is then read off the step itself, be it
  the first installation, the retry after a recovery, a removal or the
  verification of a key. `AptBudget` counts what an apply has run at each of its
  commands: the retry is not followed by another recovery. An installed package of
  the declared version is left alone, and one that is installed again, because its
  version was not known, gets a version that is declared: `AptStaysSettled`.
* **Accounts.** Between the lookup and the tool the databases belong to
  everybody, so nothing about the entry survives. What does is the command:
  it says only what is declared (`CommandDeclared`). useradd and groupadd refuse
  an entry that has appeared, the other tools one that has gone, and usermod
  writes declared values over whatever it finds. For that reason a command that
  was decided on an old entry does not spoil one that is as declared
  (`AccountsStaySettled`). The assumption on `NoEntry` says that it is no account.
* **Triggers.** `TrgPhases` ties each call to the kind of the resource: a timer is
  only switched to its declared state, and a process that has read its
  configuration can only read it again.
* **Services.** The report is right because each phase knows what the decision
  was made on (`SvcPhase`), because invocations only grow (`SvcInvocation`:
  past the comparison the one that runs is another), because the file was read
  before the first start (`SvcRead`) and because nothing is called before the
  name was looked at (`SvcNamed`). A visit has no loop: its calls have one order,
  and what others do to the unit leaves it where it is (`CallsLeft`).
* **SQL.** An object stays once it is made, and a node comes to execute only
  after a re-check of its own that found none (`EffectSeen`); a plan has a
  connection only for a check (`PgSessions`), and only `pg_sql.query` reports a
  change without an effect (`PgKinds`). Effects and statements that are still to
  come without a connection are counted together, against one and the number of
  such statements ever left behind. A node that has found the object is not on
  its way to the statement (`PgFoundStays`), and a statement waits for locks only
  when it is executed, so the server's timeout does not hit a check (`PgReadsFresh`).
* **Status.** An entry that has a file throughout is shown, still to be read, or
  parked where the second pass will find it (`ListInv`): parked files are only
  taken by status itself, and the pending ones are listed first. `ClearInv` says
  the same of the files that the clearing still has to visit. Each pass takes its
  names when it begins, so what an apply adds later does not prolong it (`NamesLeft`).
* **Evaluation.** While an error unwinds, either the glue recorded it first of
  all, or a load it passed recorded `Eval`, or it has met no load yet
  (`CauseInv`). That a module is evaluated once is not inductive, because a
  module is in the cache only when its evaluation has ended, and one that loads
  itself is evaluated again and again. `StackRepeats` says why such a manifest
  never evaluates: every module below the top of the stack stands at the load
  of the next one, a module that is on the stack twice runs the same statements,
  so the later evaluation cannot get past the load where the earlier one stands.
  Hence a module that ends was on the stack once. For the registry,
  `EntriesWhole` holds as long as nothing was raised, and `LinksKnown` says that
  a statement's link was registered when the statement was written, so that it
  is there when it runs.
* **Payloads.** The two tables of each of the 18 primitives are compared field by
  field (`TablesAgree`): what a reader can make, its default and its null
  included, the field of the Spec takes. From there the argument is one for all
  primitives and for calls with any number of changed arguments.
* **Facts.** A known or stale value in the cache is the one last seen on the
  node, dated when it was seen, and a clean known one was seen since the last
  apply of a trigger (`CacheHonest`). A refresh gives such a value because the
  node as it is always counts as seen (`NodeCounted`), unless rows were
  published; then the cache is not asked. Nothing read before an apply is still
  in use during it (`FactOrder`). What the CPU and memory collectors compute is
  proved for every quota, period and limit, not only for those of the run. The
  newest installed version and the best candidate are folds over the sections of
  a file. The folds are shown to exist by induction over the sets of indices
  (`SetInduction`, `FoldExists`), and each result by induction over the number of
  sections. `FactsAreRight` puts the four together, because the node always has
  one of the shapes of `FactNode`. `TokenAssumption` says that `NoToken` is no
  version.
* **Templates.** The paths and the tree of the model are all there is (the module
  has no constants): `TplInv` says that what is rendered is what resolution found,
  and the lemmas before it go through the paths and the entries they lead to.
* **Commands.** An exec that gives up has killed the group before it waits for
  its threads, and a group that is gone stays gone (`ExecInv`). A health check
  that tries again has attempts left, and keeps what the last one said
  (`HealthInv`). Attempts are counted where they start (`AttemptsLeft`), so the
  phases of an attempt below the attempts that are left give a measure.
* **Clients.** An event of this call's job tells how that job ended and none is
  there before the handle subscribes (`ClJob`); every restart that the counter
  of runr shows has given the service another process since the snapshot
  (`ClGen`).

Only model-checked: the liveness properties `EntrySettles`, `SortTerminates`,
`RunCompletes`, `Converges`, `NodeConverges` and `CallsReturn`, since the prover
has no fairness or ENABLED, and `MergeOverlays`, whose operators are recursive. Of
the liveness properties the parts without fairness are proved:
`RegistryDescends`, `OrchestratorDescends` with `OrchestratorGoesOn`,
`ConvergenceRunEnds`, `CommandDescends`, `ServiceVisitEnds` and `StatusEnds` say that
no loop goes on forever by itself, and `AptStaysSettled`, `AccountsStaySettled`,
`TriggersStaySettled` and `PgStaysSettled` that what has been reached is kept. That the
next step is taken is the fairness.

## 5. Not modelled

* Text: the syntax of Starlark, Jinja, YAML and JSON, the layout of the output
  of `status` and of the metrics, percent-encoding, redaction of messages,
  arguments and logging.
* Directory hardening in `Journal::open` and in `bootstrap`, the modes and
  owners of its files; the parent directories that `file.content` creates.
* What the init systems, dpkg, gpg and PostgreSQL do beyond the answers that the
  code tells apart.
* What others do to a managed file while it is being applied.
* Timestamps, counters and tags of the metric files; the report of `bundle
  validate`.

## 6. Plan

Done: the journal and its refinement, the registry, the orchestrator, runs with
files and services, overlapping invocations, the file primitives; the other
primitives, facts, processes, clients, evaluation and `bosun status`.

What would come next:

1. `Convergence` with the triggers that are not in the journal (`Triggers`) as
   further resources of a run, and with `Facts` between two of them.
2. Type invariants of the remaining parts of a node as theorems of their own.
3. `BosunRun` with the timestamps of the metric file.
