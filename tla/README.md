# Verification of SunamAI

SunamAI is a browser workspace in which an agent works in a WebContainer: a
React shell over a root agent run that may delegate to child runs, a runtime
that talks to a host inside the container through files, and IndexedDB
persistence. Everything runs on one JavaScript event loop, so there are no data
races, but almost every operation awaits something (a transaction, a file, a
prompt of the model) and other handlers run in between. That, the rejection of
an awaited call, and a reload of the page are what these models explore.

Paths are relative to the repository root; source files without a directory are
under `src/`.

## Inventory

| Component | State | Operations | Hard behaviour | Correct when |
|---|---|---|---|---|
| Subagent coordinator `piSubagentCoordinator.ts`, `tools/subagentTools.ts` | children, queue, active count, notifications, prune promise | spawn, wait, message, stop, stopAll, root signal | every operation awaits a save between its check and its effect; a child may ask its parent and be resumed | slots add up; each child is reported once blocked at most and once settled; nobody is forgotten |
| Container mutation lease `mutationLease.ts` | map of promise tails | run | a finishing call drops the map entry while others queue | exclusive and in call order per container |
| Pi session storage `indexedDbSessionStorage.ts` | mutation log on disk, replayed state in memory, tail queue | open, create, lanes, entries, records, facts, fork, delete | reload between put and apply; rejected puts; non-atomic fork | memory is the replay of the log; what was acknowledged survives |
| Pi session and event bridge `piSession.ts` | transcript, pending persistence, run phase | prompt, steer, abort, compaction, end | abort windows around each await of prompt; trailing writes; two sessions on one log | one settlement per run; the log replays; the model is shown the session |
| Tools and completion `piToolAdapter.ts`, `completion.ts`, `processTools.ts` | task contract, revision, evidence | tool batches, verification, complete_task | children, processes and the user change what was checked | what ends a gated run was checked |
| Agent hook and deletion `useAgentV2.ts`, `eventStore.ts`, `deletionCoordinator.ts` | executions, events, runs | launch, stop, resume, recover, delete, page | launch during deletion; late writes; failed marks; paged history | no deleted record written back; no run active after a reload; no gap in the history |
| Capability registry `CapabilityContext.tsx`, `registry.ts` | switches, stored configuration, modules | toggle, register, resolve | two copies of the configuration; close during a run | what is shown is what a run is given |
| Succinix file RPC `succinixClient.ts` | command chain, request number, files | run, spawn, kill, ps, setCwd, ping | time-outs with late answers; one directory for all | each answer reaches its request; context and command are one step |
| User terminal `userTerminalSession.ts` | line, busy, queue | boot, input, dispose | input while busy; dispose during boot | lines run in order, one at a time |
| Snapshot scheduler and coordinator `snapshotScheduler.ts`, `snapshotCoordinator.ts` | timers, running writes, queued retries | schedule, flush, flushAll | one write in flight and one queued; failure; close during a write | no change is forgotten; a flush that answers has saved |
| Succinix file snapshot `succinixFileSnapshot.ts` | listing gate, signature, save in flight | snapshot, flush, restore | forced save behind a save in flight; two filters | a forced save sees what preceded it |
| Runtime singleton and availability `runtimeSingleton.ts`, `containerAvailability.ts`, `webcontainer.ts` | instances, promises, availability | boot, close, restart, retry | overlapping boot, close and restart | one live instance; nothing released unsaved |
| Service registry `serviceRegistry.ts` | ports, launches, timers | port events, launch, stop | orphan timer against registration; stop against exit | a transient port is watched; tables come back to the truth |
| Process registry and agent runtime `processRegistry.ts`, `WebContainerAgentRuntime.ts`, `workspaceFileSystem.ts` | processes, shims, revision, updates in progress | run, stop, monitor, apply | three readers of one end; rollback against other writers | one end is counted once; an update is all or nothing |
| Workspace store and v3 persistence `entities/` | object stores, write queues, error latch | save, load, delete | deletions between queued saves; failure | what the user left is what a reload shows |
| Resources, settings, chat stream, scroll, file panel, agent terminal | one store or hook each | see the modules | stale reads across awaits, reordered events | see the modules |
| Other user interface | rendering | | nothing that keeps state of its own | |

Interaction: the hook launches a driver, the driver owns a Pi session, the
session owns a coordinator, and the coordinator creates Pi sessions for its
children. Sessions write to the session storage and to the event store; tools
call the agent runtime, which uses the file RPC, the registries and the
snapshots. Cancellation is an abort signal handed down; completion is a promise
handed up.

`PROJECT.json` lists what is modelled of each component, and every hazard at
its line.

## Modules

| Module | Models |
|---|---|
| `SubagentCoordinator` | the coordinator, one action per segment between two awaits |
| `DelegationContract` | what the coordinator promises the root: the observable life of a child |
| `MutationLease` | `ContainerMutationLease` |
| `SessionStorage` | the session storage and its repository, for one writer |
| `WorkspaceSnapshots` | snapshot scheduler and coordinator, over the runtimes of the container |
| `PiRuns` | the runs of a session: hook, driver, Pi session and bridge, without what they write |
| `RunRecords` | the event store and its three write queues |
| `SessionRecords` | `PiRuns` with `RunRecords`: recovery and deletion |
| `SessionLog` | `PiRuns` with the log of the conversation, several instances at once |
| `AgentTurns`, `ModelContext` | tool turns and the completion gate; transcript, entries and compaction |
| `RuntimeLifecycle` | boot, close, restart and retry over three layers of state |
| `SuccinixRpc`, `UserTerminal` | the file RPC with its host; the terminals that use it |
| `ShellProcesses`, `ServicePorts` | processes of the tools and their table; launches and ports on top of them |
| `SystemFiles`, `FileUpdates`, `ProcessTable` | the system snapshot; updates of several files; the table with the stop button |
| `WorkspaceStore`, `Settings`, `Capabilities`, `EventHistory`, `ResourceLedger`, `TerminalHistory` | what the page keeps over the database |
| `ChatStream`, `ChatScroll`, `FileBrowser` | reader of streamed answers; scroll position; file panel |
| `Subsequences` | the filter of a list, as a recursive function that can be proved about |
| `WorkspaceSnapshotsProofs`, `UserTerminalProofs` | theorems about the module of that name |
| `SubagentCoordinatorProofs` | theorems about the module of that name and `Capabilities` |
| `SessionRecordsProofs` | theorems about the module of that name and `ResourceLedger` |
| `SessionLogProofs` | theorems about the module of that name, `EventHistory` and `TerminalHistory` |
| `RuntimeProofs` | theorems about `MutationLease`, `FileUpdates`, `SystemFiles`, `ShellProcesses`, `ServicePorts`, `ProcessTable`, `FileBrowser` |
| `MachinesProofs` | theorems about `AgentTurns`, `ChatScroll`, `RuntimeLifecycle` |
| `StoresProofs` | theorems about `SessionStorage`, `WorkspaceStore`, `Settings`, `ModelContext`, `ChatStream` |
| `MCSubagent`, `MCStorage`, `MCTerminal`, `MCServices` | instances for TLC |
| `MCStores`, `MCMachines` | bundles: several machines that share no state |

Definitions whose comment begins with *Mutant* are plausible wrong versions of
the definition that follows them. No specification uses them; they show that a
property fails when the code is changed in that way.

A property that the code keeps except in a known case says so: its comment names
the case, and a history variable marks a behaviour in which it occurred. The
same comment, or a definition next to it, states the strong form; that form is
listed under *Disagreements*.

### SubagentCoordinator

`stage[c]` is the await at which the work on child `c` is suspended; the
module's head lists the stages with the code they stand for. `status[c]` is
`child.task.status`, `phase[c]` the phase of its run, `queue` and `activeCount`
the fields of the same name. `leaving` holds the executions whose promise has
settled and whose `finally` (give the slot back, pump) has not run: the
microtasks between the two let other handlers in. `resumed` are the children
that `resumeBlockedChild` took over, `spawnSaving` the spawn calls that await
the first save, `published` and `taken` the notifications, `prune` the shared
`cleanupPromise`, and `msg` the calls of `message`.

`Pump` computes all that one call of `pump` starts, because its loop has no
await. `EndExecution`, `EnterFailure`, `Publish` and `Settle` are the shared
tails of the fibers. A rejected save is a separate action guarded by
`StoreFails`; where the code catches it the fiber goes on (`FailureSaved`),
where nobody does the fiber ends (`stuck`).

A wait of the root is alone in its batch because `wait_subagents` is not
concurrency-safe, while spawn and message run in parallel batches: hence
`rootCalls` and the guards of `StartWait`. The user can stop the root at any
time (`AbortRoot`).

External: the model, behind `session.prompt`, ends in any terminal phase or
asks its parent (`PromptEnds`), or rejects (`PromptThrows`); it settles as
cancelled only if its signal is aborted.

### DelegationContract

A child is absent, waiting, running, asking, guided, done or lost, and its
reports grow only with the steps that may speak. At most `MaxConcurrent`
children are in their first run. `ImplementsContract` is refinement under
`observed`: queueing, cancellation, saves, failures and the finally of `start`
all become stutters or single steps.

### MutationLease

`queues[k]` is the call whose promise the map holds, `prev[o]` the call whose
promise `o` awaits. `arrival` and `clock` are history: they number the calls so
that the order can be stated.

### SessionStorage

`log[s]` is the mutation store of session `s`, `mem[s]` the in-memory state,
`tail[s]` the calls queued on the instance and `pend[s]` the put it awaits.
`Execute` validates the front call and starts its put, `Land` is the completed
transaction, `Apply` the continuation. `PutFails` is an aborted transaction,
`ReloadStorage` a reload of the page: everything in memory is gone and a put
that had landed stays. `Replay` applies `applyMutation`, with all its checks,
along the log; `walkToRoot` follows the parents of an entry. Both are recursive
functions over the numbers of the log. `Fork` reads the source as the disk has it, then `CopyNext`, `Land` and
`Apply` write the copy one mutation at a time.

The header of the source restricts the module to one writer; so does the model
(`OpenOrCreate` needs that no instance is live, `DeleteSession` too). `acked` and
`origin` are history.

### WorkspaceSnapshots

A runtime is one boot of the container. `timer[r][c]`, `work[r][c]` and
`queued[r][c]` are the scheduler's `timers`, `running` and `queued`;
`restored`, `revisions` the coordinator's maps; `writes` the queue
`snapshotWrite` of the repository. A tree is the set of the changes made to it
and a revision the set of the changes it counts: of the number it matters only
whether it is ahead of a tree or behind.

`Flush` is one call of `flush` up to its first await. `Settle` is all that runs
when the work of a container ends: the owner removes it and flushes again where
the container is queued, then the calls that awaited it find the follow-up or
return. These continuations were registered in that order on one promise and
run before any other event, so they are one step. `call[f][c]` says which
await a call stands at. `Export` is the moment the container reads its files,
`SaveSnapshot` the continuation that reads the revision and queues the write,
`SnapshotLands` and `SnapshotFails` the end of the transaction. `Discard` is
the close of a runtime, in which a snapshot under way goes on; `Reload` loses
everything but the disk. `Write` is external: a process or a terminal changes a
file, and the watch reports it later.

`since[f]` is history: what the revision counted of the tree when call `f` was
made, hence what its caller may rely on. `landed` and `spoilt` say what a
runtime last saved and whether its last attempt failed.

### PiRuns, RunRecords, SessionRecords, SessionLog

`stage[r]` of `PiRuns` is the await of `useAgentV2` or of `PiSession.prompt` at
which run `r` stands; its head lists them. `phase[r]` is the phase the bridge
shows, `aborted` the abort signal, `told` whether `agent.abort` found a loop to
stop, `steered` the steering queue. The loop of the pi agent is external: a
turn answers, calls tools, ends or breaks.

The module only knows what runs do, and two modules add what they write, each
joining its own step to each step of `PiRuns`. `RunRecords` is the event store:
`runQ`, `events` and `checkQ` are writes handed to IndexedDB, one queue per
kind. `SessionRecords` composes them with the recovery (`load`, `toMark`: the
loading of the session and the runs still to be marked interrupted), the
deletion (`del`, `delWait`) and a reload. `early` is history: runs whose prompt
returned before `pendingPersist`.

`SessionLog` gives each run the memory of a log instance (`mem`: length and
leaf) over one log on disk. `Put` writes under the number that follows the
memory, over what stands there: with two instances, an entry of the other. A
log that was crossed on an earlier page does not open any more. `overlap` is
history.

### AgentTurns, ModelContext

`AgentTurns` has the task contract of one run as its tools keep it, and the
workspace as a fact beside the revision that the program sees of it:
`revision` moves when a command ends, a resource is written or the watch
reports, which is later than the change. Commands, verification and
`complete_task` are tools of one batch; children, processes and the user change
the workspace in between. `excused` is history: it records the known ways in
which a change after the check is missed (`late`, `lag`, `reused`,
`swallowed`). `ModelContext` has `agentMessages`, what the agent holds, and
`entries`, what is stored, with compaction before a prompt and between turns.

### RuntimeLifecycle

`single` is the five module variables of `webcontainer.ts` and
`runtimeSingleton.ts`, `booting` the outcome that the controller keeps. Each
operation of the user is a call whose `at` is its await, and each call keeps
what it captured. `Outcomes` are the external steps: a boot, a host, a save.
`hasty` and `restarted` are history. The detail of saving is in
`WorkspaceSnapshots`; here `disk` is the set of saved changes.

The continuations of one settled promise run in the order of the microtask
queue, and before anything else happens. `resetDue`, `runtimeDue`, `bootDue`
and `releaseDue` say which of them are due, in the order of the turns they take:
a reset awaits the boot itself, a runtime what `getWebContainer` returns, a
retry the end of its release, and a release the end of a chain on the runtime.
An external step needs `~due`, a later continuation that the earlier ones are
done (`settled`). Without this order TLC finds, with four boots and six calls,
an installed runtime on a dead container that the program cannot reach.

### SuccinixRpc, UserTerminal

`job` is the chain of calls of the client, `cmdFile`, `results` and `envFile`
the files, `host` the external process: it reads the command file now and then,
ignores an id it has seen, and may answer after the deadline, or die. In
`UserTerminal` each container has a session (`term`) that makes its pings,
probes and lines through this chain, together with the agent. `started` is
history: for each command that the host starts, the call, the directory, the
environment, and whether the call had been given up by then (`late`). A call
whose removal of the command file failed (`doExec` swallows that,
`succinixClient.ts:248`) may be started that late, with the environment that
the next call wrote; `OwnContext` excepts exactly that.

### ShellProcesses, ServicePorts, ProcessTable

A process has four records: `life` at the host, `pid` as the page knows it,
`shim` (the promise that polls the host) and `entry` in the registry. The
monitor and the shim read the same table of the host, a stop kills by pid.
`ServicePorts` joins to each of these steps what the service registry does in
the same turn: `launch`, `port`, the orphan `timer`, the `recent` window, the
`fallback` of a stop and the `calls` of `stopPort`. `ProcessTable` is the panel
of a container: its check of ownership and its kill are two requests, and the
host's table moves in between.

### SystemFiles, FileUpdates

`SystemFiles`: `work` is the save under way, `saveGate` the listing and
collection that a timed save may reuse, `lastSaved` the signature that lets it
skip the write, `flush` the forced save. `FileUpdates`: `checked` the files
read, `written` the begun writes, latest first, which the rollback undoes
unless the file is no longer as written; others write the same files at any
time (`foreignWrites`).

### Stores of the page

`WorkspaceStore`: `space` in memory, `record` on disk, a chain of saves and
deletions. `Settings`: providers, personas and bindings, and the request made
from them. `Capabilities`: the two copies of the configuration, and the
modules a run is launched with. `EventHistory`: stored events, the copy in
memory, the list of the page and the window that is drawn; pages of the root
and of a child are loaded into one memory. `ResourceLedger`: resources, their
origins and references under deletions. `TerminalHistory`: buffer, timer,
record and screen of each session.

### Readers of the page

`ChatStream`: the text cut anywhere into pieces, the unfinished line, the frame
that shows the message. `ChatScroll`: position, height and mode, with scroll
events and observations that are delivered later. `FileBrowser`: the listings
on their way, the watch, and the container that is switched meanwhile.

## Runs

| Run | Shows | Bounds |
|---|---|---|
| `subagent_safety` | `PoolSound`, `ReportsSound`, `SettledIsFinal`, and that the coordinator implements `DelegationContract` | 2 children, 1 slot, 2 messages, any save may be rejected; symmetry |
| `subagent_liveness` | `WorkConserving`; `ChildrenSettle`: each child reports, a stopped one settles or is blocked, wait returns | 2 children, 1 slot, cap 1, 1 message, the store answers |
| `storage` | `StorageSound`: memory against disk, replay, durability; `LogsAreFaithful`: forks keep what they copy; `EveryCallAnswered` | 2 sessions, 2 ids, 2 lanes, 3 calls or forks, any put may be rejected, 1 reload |
| `snapshots` | `SnapshotsSound`: no change forgotten; `FlushesSave`; `RequestsServed` | 1 container, 1 change, 2 calls, 2 boots, 1 failure, reloads |
| `session_records` | `RecordsSound`: what the disk says of runs after prompt, recovery and deletion; `SettledOnce`; `DeletionEnds` | a run and an old one, 1 failed write or reload |
| `session_log` | `LogSound`: the log replays and only grows | 2 runs and an old one, 1 guidance, 3 entries, 1 fault; 2.4 million states |
| `runtime_lifecycle` | `RuntimesSound`: installed is live, nothing leaks; `ReleasedIsSaved`; `CallsEnd` | 3 calls, 1 change, 2 boots, 1 failure |
| `terminal_rpc` | `CommandsIsolated`, `LinesInOrder`, `EverythingDrains` | 2 containers, 1 terminal, 5 calls, 2 lines, 1 agent call, 1 failure |
| `service_ports` | `PortsAreWatched`, `TablesSettle` | 2 launches, 1 port, 1 caller, 1 failure |
| `stores` | one property per store: `StoreSound`, `SettingsSound`, `CapabilitiesSound`, `HistorySound`, `LedgerSound`, `TerminalSound` | `Stores.cfg`: 2 sessions, 1 or 2 containers, 2 providers, 2 personas, pages of 1 event, 2 resources |
| `machines` | one property per machine: `GatedIsChecked`, `ContextSound`, `BrowserSound`, `UpdateSound`, `SystemFilesSound`, `ShellSound`, `KillsAreOwn`, `StreamSound`, `ScrollSound`, `LeaseSound` | `Machines.cfg`; every bound is named in its module |
| `context_rounds` | violation: `RoundsAreWhole`, see below | 6 messages, 2 summaries, 1 upset |

A property that is a conjunction names its parts in its definition, each with
its own comment. In `stores` and `machines` the machines share no state, and a
behaviour moves one of them (variable `part`): the run is as strong as one run
for each and saves nothing but configuration.

Why the bounds are enough. Pool and queue interact through one slot being free
or taken and the queue being empty or not, which two children and one slot
already exercise; two messages reach a child that blocked, was resumed and
settled, and race each other's saves. Children and messages are
interchangeable, so the safety run uses symmetry; the liveness run uses none.
With cap 1 the second spawn is refused, unless it is made while the first still
awaits the prune, in which case both register.
In the storage, three calls suffice for each pair of dependent mutations and a
fork of their result, or for a failed, a repeated and a queued put; the calls
that are tried are listed in `MCTried`. Containers do not interact in the
scheduler except in the write queue, and a second call behind a running
snapshot already makes a waiter and a follow-up.
Records of different runs are independent, so one run of this page and one of
an earlier one meet every step of recovery and deletion; the log needs a second
run of the page, because two instances are what can harm it. Of the lifecycle,
three calls put a boot, a close and a restart into each other's awaits, and two
boots are an instance and its successor. Five calls of the file RPC are a
terminal with a probe and two lines, an agent call, and a late answer left
behind for the next. Two launches claim one port or one each. In the bundles
two of each thing make one and another; `FileUpdates` has two files, which is a
written one and one that fails; `ShellProcesses` has a background, a system and
a foreground process.

`CHECK_DEADLOCK FALSE` is set in all runs: each system really may stop, when
all calls are made and answered.

### Fairness

It is fairness of what the event loop and the platform do, weak but for one
case; no call of the user or the root is fair, and no failure.

- Coordinator: the continuation of every settled promise runs, IndexedDB
  answers, and a prompt ends. Its liveness is checked without store failures,
  because with them a child may really be lost (`stuck`); the contract says where.
- Storage, snapshots: IndexedDB answers a put; the container answers an export,
  the watch reports and a timer fires.
- `SessionRecords`: awaited calls of a run answer (the container, the driver,
  the model, the tools), IndexedDB completes what it was given, and the
  recovery and the deletion go on.
- `RuntimeLifecycle`: a boot, a host and a save answer one way or the other
  (the code has time-outs for the first two), and what awaits goes on. This one
  is strong fairness: an answer that has come stays in the event queue while
  continuations run, so it is taken although it can be taken only between them.
  No promise answers twice, so that fairness to all answers and continuations
  together is fairness to each.
- `UserTerminal`: the client goes on, a host that lives answers, and otherwise
  the deadline passes.
- `ServicePorts`: timers fire, events are told, requests are answered or fail,
  and the two readers of the process table keep looking.

The bundles are checked for safety only.

### Disagreements

One has a run, because it shows in every long conversation:

- **Compaction between turns separates calls from their results**
  (`RoundsAreWhole`; `.trellis/spec/frontend/agent/model-context-and-messages.md:38`).
  The context is rebuilt from the session, and `persistEvent` stores neither
  tool results nor guidance.

The others are known exceptions of the properties above, or definitions that
TLC refutes when they are given as INVARIANT or PROPERTY of the component's run.

*Delegation and snapshots.* More than three lifecycles run at a time, as a
resumed child takes no slot (`AtMostMaxConcurrentRun`;
`docs/agent-v2-design.md:197`). Cancelling the parent does not settle a blocked
child (`CancelSettlesChildren`; same file `:205`), and `stopAll` waits for it
for ever. A delivered message may be lost between the end of the prompt and the
saved status (`KeptHasSessionToCome`; `subagentTools.ts:56`). An abort during a
spawn misses its child (`AbortReachesChildren`; `piSubagentCoordinator.ts:99`).
A failed snapshot is invisible to flushAll (`FlushAllMeansSaved`;
`docs/FEATURES.md:46`). A stored revision may be ahead of its tree
(`RevisionNamesTree`; `docs/refactor-acceptance.md:60`). The lease is correct
and unused: `piSession.ts` hands it to the tool context and no tool calls `run`
(`docs/agent-v2-design.md:202-203`).

*Runs.* A deleted session is written back by a prompt that returned early, by a
run that was being created, or by a late recovery
(`docs/refactor-acceptance.md:55`, `docs/agent-v2-design.md:261`). Two
`PiSession`s open on one log overwrite each other's entries, and the log does
not open again (`LogReplays`; `docs/agent-v2-design.md:119-122`). The run that
`append` saves after `run_started` may follow a later, settled save
(`eventStore.ts:21-22`). A rejected prompt leaves its run `preparing`
(`useAgentV2.ts:313-314`). An abort while the user message is stored reaches no
agent, which then runs to its end (`piSession.ts:905`). Guidance accepted before the loop starts
or after its last turn is not answered (`piSession.ts:1148`).
`markInterruptedRuns` changes the memory before a save that may fail
(`eventStore.ts:105`), and is skipped for a session with a run under way.

*Tools and context.* A change is not marked when a command that proves nothing
is run after it: the task takes over its revision (`DriftIsMarked`;
`.trellis/spec/frontend/agent/revision-verification-and-completion.md:32`). A
plain answer is not gated (`PlainIsGated`; same file `:34`), and a tool behind
`complete_task` in its batch still runs. `docs/architecture.md:95` and
`docs/FEATURES.md:94` say that there is no fallback for images; there is one.
`emitCompacted` emits the event that `docs/agent-v2-design.md:152-153` says is
not emitted.

*Container.* Closing before the restoration has ended saves the system files it
found (`SavedStays`; `docs/refactor-acceptance.md:186`). A flush that throws in
`disposeWorkspaceRuntime` leaves a container running that nobody can reach
(`WorkspaceRuntimeProvider.tsx:129-130`). A restart under way together with
another call may leave a runtime installed that is disposed or whose container
is not the one handed out (`InstalledIsLive` without its exception). The answer of setCwd is not checked; a
spawn that timed out may start later, without a pid; the rest of a pasted text
is dropped after its first line (`userTerminalSession.ts:120-127`).

*Processes and ports.* `ps()` answers an empty table when it fails, so the
check before a kill refuses nothing (`NothingKilledBlindly`;
`succinixProcesses.ts:48-49`) and shims settle for processes that live. When the
monitor marks an entry exited before its shim settles, the end does not advance
the revision (`EndsAdvanceRevision`;
`revision-verification-and-completion.md:30`). A shim without a pid never ends.
A refused stop leaves its launch `stopping`, and `waitForPortClose` writes an
old record back (`serviceRegistry.ts:391-397`).

*Files.* Structural changes may be missed when a file changes between listing
and collection (`StructureIsSaved`; `succinixFileSnapshot.ts:155-156`), and a
restoration that fails midway is overwritten by the next save. A rollback may
overwrite newer content written between its read and its write
(`NewerIsKept`). The file panel loads for ever after a container switch
during an operation.

*Stores.* A clean-up queued behind a deletion brings the item back
(`sessionStore.ts:31`), and a frozen store still deletes. A child's transcript
moves the root's cursor (`RootCursorKept`;
`.trellis/spec/frontend/state/derived-and-paged-state.md:12`), and a window may
be blank (`WindowNotBlank`). An image that was only looked at is deleted with
another container (`SharedSurvives`; `docs/refactor-acceptance.md:56`). A
terminal record comes back after its deletion (`ErasedStaysErased`). Closing
the container is possible during a run (`CloseSparesRuns`;
`ConfiguredPage.tsx:58-60`). A late listing of models activates a provider that
was deleted.

*View.* A view does not return to where it was left (`PlaceIsKept`;
`Workspace.tsx:87`), and a stale scroll event near the live edge attaches a
reader again.

## Theorems

For all sets and all bounds; the first theorem of a row is about an inductive
invariant where there is one of that name, the others are about properties of
the runs and listed in `PROJECT.json`.

| Module | Theorems | About | Assumption |
|---|---|---|---|
| `SubagentCoordinatorProofs` | `CoordinatorInvariant`; `PoolIsSound`, `ReportsAreSound`, `SettledStaysSettled`, `NoSlotIsWasted`, `CoordinatorRefinesContract` | `SubagentCoordinator`, `DelegationContract` | the limits are positive, `Child` is finite; no slot is wasted as long as the store rejects nothing (`~StoreFails`) |
| | `CapabilitiesStaySound` | `Capabilities` | that of the module |
| `WorkspaceSnapshotsProofs` | `SnapshotInvariant`, `KeptInvariant`; `SchedulerIsSound`, `FlushesAreDurable` | `WorkspaceSnapshots` | the bounds are numbers, there is a container, `Nobody` is no call |
| `SessionRecordsProofs` | `RecordsAreSound`, `SettledIsFinal` | `SessionRecords` with `PiRuns`, `RunRecords` | `Run` is finite, `Old` are runs, the bounds are numbers |
| | `LedgerStaysSound` | `ResourceLedger` | that of the module |
| `SessionLogProofs` | `LogIsSound` | `SessionLog` with `PiRuns` | `Run` is finite, `Old` are runs, the bounds are numbers |
| | `HistoryStaysSound`; `TerminalStaysSound` | `EventHistory`; `TerminalHistory` | those of the modules |
| `UserTerminalProofs` | `TerminalInvariant`; `CommandsAreIsolated`, `LinesAreInOrder` | `UserTerminal` with `SuccinixRpc` | `ProbesAssumption`, `RpcAssumption` |
| `RuntimeProofs` | `LeaseInvariant`; `LeaseIsSound`, `LeaseMapDrains` | `MutationLease` | each call names a container |
| | `UpdatesAreSound` | `FileUpdates` | `UpdateAssumption` |
| | `SystemFilesAreSound` | `SystemFiles` | `FilesAssumption` |
| | `PortsInvariant`; `ShellIsSound`, `ShellStaysSound`, `PortsStayWatched` | `ShellProcesses`, alone and in `ServicePorts` | `ProcessesAssumption`, `PortsAssumption` |
| | `KillsStayOwn`; `BrowserStaysSound` | `ProcessTable`; `FileBrowser` | those of the modules |
| `MachinesProofs` | `GatedStaysChecked`; `ScrollStaysSound` | `AgentTurns`; `ChatScroll` | `TurnsAssumption`; `ScrollAssumption` |
| | `RuntimesStaySound`, `ReleasedStaysSaved` | `RuntimeLifecycle` | `LifecycleAssumption` |
| `StoresProofs` | `StorageIsSound`, `LogsStayFaithful` | `SessionStorage` | `Null` is no id and no lane, `main` is not among the other lanes, the calls that are tried are calls |
| | `StoreIsSound`; `SettingsAreSound`; `ContextIsSound`; `StreamIsSound` | `WorkspaceStore`; `Settings`; `ModelContext`; `ChatStream` | those of the modules |

Each inductive invariant was first given to TLC as an INVARIANT of the
component's run, but for `StorageInvariant`, which speaks of all logs and all
states they replay to.

*Coordinator.* The accounting is not inductive: that a release finds its slot
depends on which fibers can be where (`FiberShape`: a resumed child has left
`executeChild`; an execution whose finally is due has blocked, settled or was
resumed), and that pump starts only waiting children depends on `QueueSound`.
The reports depend on what the last save can find in the status
(`StatusShape`). The proof splits `Next` into the steps that do not touch the
pool and those that end in `pump`; the former are shown to keep each part, the
latter first do their own change and then pump: `PumpEffect` says what `Pump`
does to a duplicate-free queue of waiting children, and `HeadCount` counts the
children it starts. The refinement goes action by action: each step of the
coordinator is shown to be one action of the contract or to leave `observed`
unchanged, with `pump` as the step that starts waiting children.

*Lease.* Mutual exclusion follows from the order: at most one active call of a
container has a resolved predecessor, and it is the earliest (`FrontIsFirst`),
because predecessors are immediate (`PrevIsPredecessor`) and the map holds the
last pending call (`TailIsLast`). When a call finishes, its successor becomes
the front; the entry is dropped only if there is none.

*Snapshots.* `UnsavedIsPending` is not inductive: while the last snapshot is
spoilt it says nothing, and the next success must still find the change.
`BehindIsPending` says what is due whether or not it is spoilt, and also that a
tree already exported is behind the files only with an event, a timer or a
queue entry left. That a restoration may replace what the scheduler knows needs
`IdleUntilRestored`, and that a boot meets nothing old needs `BootedBefore`.
`CallersAreServed` carries what a caller counts on from the files into the
exported tree. The proof reduces the steps to what `Flush` and `Settle` do to
each container (`FlushEffect`, `SettleEffect`). For flushAll, which passes over
a container without a timer, a work or a queue entry, `KeptInv` adds that all a
revision counts of such a container is saved (`CountedIsPending`), as no revision
advances but in a step that starts the timer or flushes, and that what a call
counted on is in every later tree (`SeenStays`, `AllKept`). A revision restored
from the disk counts nothing that is yet to be made (`RevisionsMade`).

*Records.* Nearly every step is of one run and leaves the others alone
(`OneRun`). A run is shown as planning until it settles, so neither the disk
nor a save on its way settles it before, and no later step changes how it did
(`DiskFits`); a deletion may go on without a run that has returned, because the
only saves it can still have under way are the recovery's (`StoredFits`).
`RecoveryFits` says how far the recovery is with each old run, and
`RecordsSound` alone is not inductive without it: that an old run is no longer
active when the session is shown follows from the saves that were waited for.

*Log.* As long as no two instances were open at once there is at most one
writer, and its memory is the length and the leaf of the log, so that its put
appends an entry naming the one before (`PutAppends`). Only `Opens` makes a
writer, and a run leaves the writers when all its answers are put.

*Updates.* The begun writes are the first of the checked changes, latest first
(`WrittenIsPrefix`), so what is untouched is the rest; no two changes are of
one file (`CheckedAsAsked`), so neither a write nor a restore disturbs another.

*System files.* A forced save passes both filters, so what it writes was
collected after the call (`ForcedIsFresh`), and all that follows is younger
(`AnsweredIsFresh`). A timed save may reuse the gate's collection, which fits
when its listing is that of the tree (`PuttingFits`), or write nothing, which
is right as the signature it compares is that of the record (`SignedIsStored`).

*Processes.* One process is looked at at a time (`OneAtATime`). The revision is
counted only by the step that ends the entry (`Counted`); a settled shim means
that the process is not alive, unless a request failed (`Tracked`).

*Ports.* The two readers of the process table keep `ShellInv`, whatever the
service registry adds to their steps. A port that is stopping has a call that
waits for it or a fallback that was armed, an identifying one its timer, a
managed one a launch. The hand-over is delicate: a call that sent its kill arms
the stop timer of the launch before it waits, so every port of the launch stays
watched when the call has returned (`StoppingIsWatched`).

*Table.* Processes are numbered by the host as they start (`Numbered`), so that
what the panel, the check and the kill knew of a pid can be compared with what
has it now. A kill that hits another process does so because the pid was given
away, or because the check found nobody (`StopsFit`).

*File panel.* The listings under way are told apart by their number
(`ListingsFit`). As long as no operation crossed a switch of the container, the
latest one is of the directory last asked for, and a directory that changed
after it was read, while it is shown, has set the alarm (`Uncrossed`).

*Requests and terminal.* The chain is at one call at a time; where that call
stands fixes what the command file, the result files and the host's context may
hold (`RpcInv`): the ids grow along the chain, the file holds the last request
that was sent, and a result is of a request that the host has read, under its
id. The terminal only
adds calls to the chain, so each of its steps is a step of `RpcNext` or leaves
the requests alone; `TermInv` says that what is queued and what was sent make up
what was typed.

*Completion gate.* The property speaks of the end of a run, its invariant of
every moment before it: as long as nothing was excused, what is neither checked
nor as the run found it blocks the gate (`UncheckedIsBlocked`), and what the
task knows of the revision is not ahead of it (`RevisionsKnown`).

*Scroll position.* Between an event of the browser and its handler the mode is
not true yet; the invariant says which delivery is due in that case
(`ScrollModes`).

*Container.* `RuntimesSound` is far from inductive: that a container is up
which nobody can reach is prevented by the order in which continuations run.
The invariant (`LifeInv` in `MachinesProofs`) says who holds what while it is
made, handed out and released. A container that boots is the one whose promise
is kept, for a runtime that is made (`BootsHold`); a reset that awaits a boot is
the only one to tear it down (`ResetsHold`), and the runtimes made on it find it
gone or torn down behind them (`PendingHold`, `UniqueHolds`). Once the earlier
continuations have run, the container and the runtime that are handed out
belong together (`ReadyHolds`), and this is what a retry, a restart or the
provider finds, because it comes later (`WaitsHold`). What is released is not
handed out any more (`SavesHold`), so a container that is up is handed out or a
release under way will tear it down (`UpsHeld`). Saving needs one more fact:
unless something was hasty, the runtimes that are alive share one container, and
all that earlier ones had is saved and restored there (`FilesSaved`).

*Resources.* A file is looked up before it is referred to, so the reference
resolves because the work on a stored run keeps the run (`WorkIsStored`) and
origins are root runs (`OriginsAreRoots`).

*Agent terminal.* Buffer, record and screen are ends of one output
(`SessionHolds`, with suffixes stated by positions); a record that lags has a
timer or a write under way. `ScreenFollows` says what the terminal still gets.

*Capabilities.* The two copies of the configuration agree on what is registered
and on what is not (`CopiesAgree`), unless one of the recorded cases occurred;
the closure of a set of tools under its dependencies is the smallest one, which
is all the proof uses of it. A tool that depends on one that is not registered
is not resolved, whatever depends on it.

*History.* What the memory has is closed upward in the stored events
(`Upward`), and so is each page on its way to it; the window is a position among
the messages, and the proof's lemmas say where a number stands in a larger set.

*Filters.* The stores filter lists. `Subsequences` defines the filter by a
recursive function, and the first section of `StoresProofs` proves what it
yields for every sequence: induction is stated of a set (`EveryNumber`,
`EverySequence`: what holds at first and is kept by every step holds of all),
not of a predicate, so that it can be cited; `StepByStep` gives a recursion its
function. From there `only` has the order, the elements and the neighbours one
expects (`OnlyRange`, `OnlySame`, `OnlyTwice`, `OnlyConcat`).

*Session storage.* `StorageInvariant` says the same of every session
(`KeptAs`), whoever else moves: the log without the put whose continuation has
not run is numbered from one and replays to the memory (`settledOf`,
`ReplayMore`: one more mutation is one more step of the replay), and the put
that is awaited has the next number and will be accepted, with one operation open
on a lane at most (`PutFits`, `NotRefused`). So landing, failing, applying and
losing it all leave a log that replays. A fork adds that what is left to copy is
the rest of a copy some state allows (`CopyGoesOn`): the copy so far is a part of
the source's tree, closed under parents, because each entry comes behind its
parent (`Chained`); hence every next mutation is accepted (`CopyAccepted`), and
the walk from an entry ends and is the same in the part as in the whole
(`WalkEnds`, `PathOfPart`, `AllCopied`).

*Workspace store.* A write stores what the memory was when its turn came, so
neither the record nor the head of the chain need agree with the memory: the
last entry of the chain does, and with an empty chain the record (`LastStores`,
where `Agree` leaves out what the memory no longer lists). That nothing deleted
comes back is a statement about everything on its way to the record, and about
the order of the chain: no clean-up behind a deletion, and none that would write
what an earlier one removes (`NoReturn`).

*Settings.* What is chosen is of the active provider, and that one is listed;
what a persona is bound to is listed too (`ModelFits`, `BoundListed`), as long
as none of the recorded operations paired them otherwise. That a read may add a
provider is harmless only because it does so in a browser without the key
(`KeysFit`), where nothing is bound yet.

*Context.* That the agent follows the session (`AgentFollows`) is not inductive
by itself: a write that fails takes a message out of the filter, which is right
only if no summary and no other message stands for its number. `Apart` says so:
what is stored, what is being written and what was lost have no message in
common. A compaction replaces the transcript by a summary and a tail of the
session as it was read, which is the session as it is because answers are
written before (`answersWritten`). A summary covers what it replaced
(`Remembers`).

*Streamed answers.* A text is split symbol by symbol (`split`), so the pieces of
two texts put together are the finished pieces of the first and the pieces of
what its last one becomes with the second (`PiecesConcat`); and lines are read
one after another, so what two lists of lines make of a message is what they
make at once (`ConsumedConcat`). Hence the reader has at every moment the message
of the finished lines of what it has read, and its last piece (`ReadingIsTrue`),
which at the end is the message of the whole. A message that is not shown has
deltas that came since (`ConsumedCounts`), and a timer that runs ends with its
frame (`TimerWaits`).

Only model-checked: all liveness (`ChildrenSettle`, `EveryCallAnswered`,
`RequestsServed`, `DeletionEnds`, `CallsEnd`, `EverythingDrains`, `TablesSettle`).
The prover handles neither fairness nor ENABLED.

Induction over data is done with sets (*Filters* above); the induction theorems
of the library take an operator as a parameter and cannot be cited.

## Not modelled

`PROJECT.json` gives the reason per component. In the modelled ones: texts,
evidence, usage figures and timestamps; the filters of the queries of the
session storage; the time-outs of the tools (`timeoutMs` of `wait_subagents` is
declared and never applied to wait); the retry of a prompt that is too long;
the record of dormant services, `killPid` and `stopLaunch` of the service
registry, `stopRun` and `stopOwned` of the process registry, which nothing
calls; validation of stored records and the migration of the database; the
compensation of the scroll position when an older page is put above
(`Workspace.tsx:101-105`); the drivers for Claude Code and Codex, which refuse
to run in the browser; and React components that only render.

## Plan

1. Composition of `RuntimeLifecycle` with `WorkspaceSnapshots` and
   `SystemFiles`, in place of its set of saved changes.
2. Paging of messages together with the scroll position.
