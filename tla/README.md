# SecondBox: verification project

TLA+ models of the parts of SecondBox where correctness depends on the order of
steps taken by several processes, on crashes and repetition, or on messages that
are lost, and the properties that make those parts correct. TLC checks the
properties on small instances. TLAPS proves safety properties of five of the six
components, for every value of their constants.

Source paths are relative to the repository root. `PROJECT.json` lists the
components, the runs, the source lines behind every definition, the findings, the
hazards and the theorems.

## 1. The system

SecondBox gives clients durable Sandboxes. A **Sandbox** is a row in PostgreSQL
with a desired state (running, stopped, deleted), an observed state and a
generation. Its files live in a **Workspace**: one image on the disk of one *home*
Runner. Compute for one generation is an **Instance**, given to the home Runner by
one **Assignment**. A **Snapshot** is a local clone of a stopped Workspace image.
An **operation** (an Exec or a File request) is admitted as a *session* row and
executed by the Runner inside the guest.

| Part | State it owns | Operations | Interacts with |
|---|---|---|---|
| Control plane store (`internal/store`) | sandboxes, workspaces (with one *mutation slot*), operations, snapshots, leases, sessions | create, lifecycle intents, Snapshot and restore requests, relocation requests | workers through rows and schedules |
| Lifecycle worker (`internal/lifecycle`) | a claim on a due Sandbox (owner, expiry, revision) | claim, `Decide`, apply a decision or execute an effect: start, stop, delete | rows; `runner_commands`, `lifecycle_effects` |
| Scheduler (`internal/scheduler`) | Assignments, Instances, reserved capacity | place a start on the home Runner | rows, commands |
| Assignment reconciler (`internal/reconcile`) | Assignment state and retries | mark Runners expired, fence, retry, fail, advance a fenced generation | rows, commands |
| Runner control, server side (`internal/runnercontrol`) | connections, command delivery, ordered evidence, live routes | open/close connection, deliver commands, record events, local Workspace results, reports, transfer relay, sessions | Runner over one gRPC stream |
| Runner control, Runner side (`runner/internal/runnercontrol`) | active Assignments, starts in flight, operations, transfers | handle assignment, fence, local Workspace commands, frames; direct connections | backend, store |
| WorkspaceStore (`runner/internal/workspacestore`) | files: manifest, images, staged restores, rollbacks, Snapshots, receipts, lock | create, clone, advance generation, Snapshot create/delete, restore prepare/swap/finalize/abort, relocation export/import/abort, delete, open, reconcile | the Runner that calls it |
| Public data plane (`internal/api`, `internal/runnercontrol/data_plane*.go`) | request handlers, broker routes | admit, wait, attach, start, send, receive, complete, cancel, sweep | sessions; Runner by route or direct connection |
| Guest agent, execution images, network policy, egress | inside or around one guest | – | Runner |
| API validation, quotas, subject cleanup, notification, installer, CLI, SDKs | requests and configuration | – | the store |

What makes it hard:

- a claim, a start plan or a decision is read in one transaction and used in
  another, while intents, Runner evidence and other workers change the row;
- commands are delivered again after a reconnect, results are lost with the
  connection, and a late result may answer an effect that was retried, exhausted
  or superseded;
- the Runner starts compute off its receive loop, and a fence proof must not be
  overtaken by a start it had accepted;
- the local generation and the database generation advance at different times, in
  different stores, and must never disagree except by the one advance in flight;
- a Sandbox with nothing to do is *parked* with no deadline, so an event that
  forgets to schedule it is lost for ever;
- handlers of connections that were superseded go on reading frames and committing
  transactions, perhaps in another replica;
- every file step of the store can be the last one before a crash, and the same
  operation then runs again from its first step;
- a public request, the sweep, the Runner and a second request for the same
  operation all write its end.

What correctness means, in the words of `docs/design`: one writer per generation;
a generation is retired only by a fence proof and a local receipt; the database is
never ahead of the manifest; accepted deletion dominates; replays converge on
receipts; Runner loss neither relocates nor advances anything by itself; messages
are recorded in order and once; an operation runs once and its outcome is final;
intents settle once the Runner is back.

## 2. Modules

| Module | Models |
|---|---|
| `WorkspaceStore`, `MCWorkspaceStore` | one Workspace on disk, at the granularity of file operations |
| `WorkspaceStoreProofs` | its inductive invariant and theorems |
| `SandboxLifecycle`, `MCSandboxLifecycle` | one Sandbox: rows, workers, Assignment reconciler, connection, home Runner |
| `SandboxLifecycleSteps`, `SandboxLifecycleInvariant`, `SandboxLifecycleProofs` | what each action does, its inductive invariant, and the theorems |
| `SnapshotControl`, `MCSnapshotControl` | Snapshots and in-place restore of one stopped Sandbox: rows, durable effects, commands, reconciliation reports, composed with `WorkspaceStore` |
| `RunnerSession`, `MCRunnerSession` | the control connection frame by frame: dialling, opening, numbering, duplicate window, batches, command claims and leases |
| `EventLog` | what the recorded messages promise: a log of sessions, each in order and once |
| `RunnerSessionProofs`, `EventLogProofs` | that `RunnerSession` implements `EventLog`, and the theorems about both |
| `Relocation`, `MCRelocation` | a Workspace that moves between two Runners: rows, commands, the relayed transfer, both stores |
| `RelocationProofs` | its inductive invariant and theorems |
| `DataPlane`, `MCDataPlane` | Exec and File operations from admission to their recorded end |
| `DataPlaneProofs` | its inductive invariant and theorems |

Each `MC` module instantiates its component for TLC; the `.cfg` files give the
constants.

### WorkspaceStore

State: every file the store keeps for a Workspace (`layout`, `manifest`,
`versions`, `stagedImage`, `stagedManifest`, `rollback`, `snapDir`, `snapImage`,
`snapManifest`, `receipts`) and the writer lock with the mutation that holds it and
its next file step (`holder`, `op`, `pc`, `out`). `request` fixes what each
operation identity asks for, as the control plane does; `removing` is a history
variable.

`mutate` is the entry of every mutation: it takes the lock and either replays the
receipt or goes on to the mutation's first step. Each mutation is then a chain of
actions, one per durable step (`SwapRestoreVersion`, `SwapRestoreRollback`,
`SwapRestorePublish`), and `recordReceipt` ends it. `Interrupt` is a crash, a
failing file operation or an early error return at any of them: files stay, the
lock is free. `Open`, `GuestWrite` and `Close` are compute attached to the current
image; the relocation actions are `SealRelocationExport`, `OpenRelocationExport`,
`AbortRelocation` and the import with its abort.

Abstractions: image bytes are an element of `Data`; a file is written by rename, so
it has its old or its new content; digests, fsync and permissions are left out. A
receipt holds the operation, its kind and the generations it reports.

### SandboxLifecycle

State: the Sandbox row (`sb`: desired, observed, generation, has an Instance, claim
owner, due, failure class), the Workspace state and its mutation slot (`ws`,
`slot`), the Assignment and the guest liveness of the current generation (`asg`,
`live`), the stop effects (`stop`: the ordinary one and the Runner-loss one), the
create and delete effects (`fx`), pending Operations (`ops`), live commands
(`cmds`), what each worker remembers between its transactions (`work`), the
connection with both directions in flight (`link`), and the Runner (`rn`: compute,
the start in flight, the recorded Assignment, an unreported exit, the manifest
generation and advance receipts).

Every action is one transaction of the control plane, one step of the Runner, or
one fault, and carries the name of the function it models. A revision is
abstracted to the question it answers: whether it moved since the claim
(`work[w].fresh`). A deadline is a choice; one that passes while the Runner is
connected counts as a fault, so that retries and answers race but not for ever.
`Refuse` models evidence the rows contradict: the event is not recorded and the
connection ends, as `RecordEvents` does. The Runner's store is reduced to what the
lifecycle sees of it, the manifest's generation and the receipts of advances; the
guards of `handleAdvance` and `handleDelete` are those of `WorkspaceStore`'s
`AdvanceGeneration` and `DeleteWorkspace`.

The result of a command that failed on the Runner carries no evidence: generation and
capacity are 0 (`NoEvidence`). For a create and a delete the rows contradict that, so a
failure is refused, ends the connection and the command is delivered again; only an
advance is recorded as failed. One create is recorded as failed all the same: when it
succeeded and the release of its storage reservation fails, the result is a failure that
carries the receipt. `resumeWorkspaceDeleteEffect` keeps its case for a failed delete,
which the rows cannot reach.

Left out of this module: Snapshots, restores and relocation (they take the same
slot on a stopped Sandbox; see the other modules), reconciliation reports, sequence
numbers (`RunnerSession`), capacity and the choice of a Runner, Leases and sessions
(an input of `Decide`), and image preparation.

### SnapshotControl

State: the variables of `WorkspaceStore`, instantiated under the same names, and the
control plane above it: `db` (generation, failure class, mutation slot, Snapshot and
restore rows, effects, Operations, live commands), the connection (`link`, `rec`, the
reconcile command of this connection) and what it carries each way (`inbox`,
`outbox`).

A transaction is a function from `db` to the next `db`, or `Refused`: it rolls back,
and `RecordEvent` then ends the connection. That lets a reconciliation report, which
runs many of them in one transaction, be the fold of the same functions
(`replayReconciledWorkspaceReceipt` over the receipts, then `Compare`). Receipts are
reported in the order of random identities, hence `Orders`. The Runner serves one
command at a time: `Begin` is `WorkspaceStore`'s `mutate` with the command's inputs,
`FileStep` any of its Snapshot and restore steps, `Finish` its `recordReceipt` plus
the result, `Refuse` the early error return of a command none of whose steps
applies, `Fail` a file operation that fails, `Crash` the end of the process.

Init is a Workspace at generation 3 with one Snapshot of generation 2: a creation, a
stop, a Snapshot and a stop are behind it, with their receipts on disk.

Left out: compute, and the lifecycle operations that compete for the slot
(`SandboxLifecycle` has those); clones, quotas, idempotency keys; capacity (its
mismatches coincide with the generation ones); the other Workspaces of a report.

### RunnerSession and EventLog

A connection is numbered when the Runner dials it. Handlers of several connections
run at once: that of a connection the Runner gave up may still be reading frames, or
may not have opened it yet, when the next one starts. State: the Runner's loop
(`rconn`, `sequence`, the commands it accepted), the frames on each connection
(`up`, `down`, `wire` for what was sent), each handler's phase, batch and duplicate
window, the `runner_connections` rows with their last recorded sequence, the Runner
row, the durable commands with their claims, and the log of recorded messages.

`EventLog` is the promise: opening a connection ends the one before it for ever;
while a connection is current its messages are recorded in the order of their
sending, each at most once. `RecordsALog` is `EventLog!Spec` under the mapping
`current <- {c \in Conns : Active(c)}`, `last <- lastSeq`, checked by TLC and proved.

Left out: what an event does to the rows (the other modules), authentication,
heartbeat contents, flow control inside gRPC. The Runner row has other writers, which are
not modelled: the reconciler that finds a Runner lost, a drain, and the heartbeats of a
draining Runner. `CurrentStaysReady` is about the opening and closing of connections.

### Relocation

All relocation commands go to the source; the target sees only the transfer the
control plane forwards. `db` holds the Workspace's home, the relocation's state and
its commands; each Runner has its connection, receive loop, exporter, importer and
store (image, seal, receipts). A transaction is an operator from `db` to the set of
its outcomes, empty when the code returns an error; the connection whose frame caused
it then ends. The steps are the request, export command, seal, chunks with credit,
publication on the target, home change, source deletion, abort and restart, with
broken connections, a superseded handler that still routes, crashes of a Runner
(also between a file change and its receipt), store and transfer failures and late
frames. A failing store operation, like a crash, may have taken effect without its
receipt (`SealedOnly`, `UnsealedOnly`, `RemovedOnly`), and an export may fail after its
receipt, when the sealed image cannot be locked, validated or opened.

Simplifications: opening a connection is one step and a handler records one event at
a time (`RunnerSession` has both in detail); at most one superseded handler per
Runner; two slots for Workspace creation. A second export that finds the Workspace's lock
taken is in the model and in the proofs, but beyond the bounds of the runs: it needs two
relocations, a broken connection and a failure. `FailWorkspaceTransfer` has no caller but a
test and is not modelled.

### DataPlane

State: the session rows with their deadline clock, the Assignment, the Lease and the
durable Open and cancellation commands (`rows`); the HTTP handlers of one
control-plane process, the broker's routes and the sweep's selection (`plane`); the
control connection (`wire`); and the Runner's fence, operations, direct connections
and a count of how often guest work was started (`runner`).

A session is buffered (`exec`), streaming (`stream`) or an upload (`file`), proxied
or direct. A handler is a program counter over admission, waiting, attaching,
starting, sending, receiving, cancelling, recording and leaving; each transaction and
each call between two of them is a step. `setup` and `budget` hold the operations of
a behaviour and the faults it may still have: clients that leave or cancel, streams
that break, the control plane crashing, a stop of the Sandbox, the end of the Lease.

Simplifications: output frames and credit are left out; the Runner's retained
terminals are never evicted (fewer than 256 in a behaviour) and its limit of 1024
operations is not reached; one Runner, one Sandbox generation and one Lease; opening
and registering a connection is one step; the Runner does not restart; retention
deletes nothing; a direct session is claimed by one connection at a time. A fence is
modelled by its proof, which ends the Assignment; the two other writers that fail the
sessions of a fenced generation (`internal/reconcile/postgres.go:786-803`, and
`internal/runnercontrol/postgres.go:3100-3117` for a restore) are left out, and
`OutcomeSettled` does not speak of them.

## 3. Runs

Deadlock is not checked where the system may really stop: after a deletion, for a
Sandbox that is parked or waits for an operator, and when all requests are answered.

| Run | Instance | Shows |
|---|---|---|
| `Store` | 4 operations on a Workspace that stays, or 3 on one that is cloned or moves; 1 Snapshot, 3 generations | `CurrentImageNeverLost`, `OneRestorePending`, `ReceiptsNotAhead`, `DeleteLeavesNothing`, `SealedBytesStable` |
| `Lifecycle` | 2 workers, 3 generations, 3 Operations, 2 faults | `GenerationNotAhead`, `OneWriter`, `EffectsAwaited`, `NoLostWakeup`, `RetiredByReceipt`, `DeleteDominates` |
| `LifecycleLiveness` | 1 worker, 2 generations, 2 Operations, 2 faults | `IntentsSettle` |
| `Snapshots` | 3 new operations, 2 Snapshots, 5 generations, 2 faults | `RestoreAllOrNothing`, `GenerationsAgree`, `OfferedSnapshotsExist`, `WaitsForCommand`; and `StoreContract`: what `WorkspaceStore` assumes of its caller holds of this one |
| `SnapshotsLiveness` | 2 restores, 2 faults | `OperationsSettle`, for restore Operations |
| `SnapshotConflict` | 3 restores, 1 fault | section 6 |
| `Session` | 3 connections; a fault, 2 terminal events and a repeated frame, or 2 commands | `CurrentStaysReady`, `CommandsAcceptable`, `RecordsALog`, `CommandsSettle` |
| `Relocation` | 2 Runners, 2 chunks, 1 credit; five mixes of relocations and faults | `HomeHoldsImage`, `SealedWhileMoving` |
| `RelocationLiveness` | a broken connection; a crash and a failure; a crash inside the store and a failure; two failures | `RelocationSettles` |
| `RelocationReturn` | a move and the move back, 2 broken connections, 1 chunk | section 6 |
| `DataPlane` | 1 session of each kind and transport, 2 requests, 1–2 faults | `RunsOnce`, `EndedMeansStopped`, `NothingOutlivesItsHandler`, `OutcomeSettled`, `SessionsSettle` |
| `DataPlaneReattach` | a streaming session, a crash, a second request | section 6 |

Each safety run also checks `TypeOK` of its module.

Bounds. Two faults suffice for a retry that is itself interrupted, for a
connection lost in the middle of a recovery, and for retry exhaustion, since each
retry limit is 1. Three generations give a start, its retirement, a second start
and its retirement. Three Operations give creation and two intents, the second one
arriving at any point of the first; `ShortHistories` keeps the two workers together
to the first two Operations. In the store four operations give creation, a
Snapshot, and two that meet each other. Operation identities, and workers, are
interchangeable, so their permutations are symmetries; the liveness runs use none.
Three new operations of `Snapshots` give two restores in a row and a Snapshot created
or deleted between or after them. Generation 5 admits both restores from
generation 3. Three connections give a handler that is late by two; a window of 2
and batches of 2 put their limits inside the runs. Two chunks with a credit of one
make an exporter wait in the middle of an image. Where TLAPS proves a property the
bound does not matter.

Fairness of `SandboxLifecycle` (`LiveSpec`): weak fairness of each worker, of the
reconciler, of recording events, opening a connection, delivering commands and of
the Runner's handlers, because each of them runs in a loop that only shutdown ends;
strong fairness of the claim that finds no drain session, because the drain deadline
ends every barrier. Faults, intents, guest exits and heartbeats are not fair. The
Runner is assumed to come back; without that `docs/design` promises no progress.

Fairness of `SnapshotControl` (`FairSpec`): weak fairness of claiming commands,
recording events, reconnecting and of the Runner's serving loop, for the same reason.
The run has restores only: a Snapshot creation that fails is never settled (section
6), and an interrupted deletion can end all reports.

Fairness of `RunnerSession` (`LiveSpec`): weak fairness of the Runner's loop and its
work, and of each handler's reader and pump. Of `Relocation` (`LiveSpec`): weak
fairness of delivery, handlers, the superseded handler, reconnecting, the receive
loop, the exporter and the end of a session; strong fairness of serving a delete or
an abort and of recording a result, because the two races that recur with every
reconnect are not lost every time. Of `DataPlane` (`FairSpec`): weak fairness of one disjunction,
`Progress`: handlers, the sweep, both ends of the connection and the clock do not all
stop at once. It asks least of the code: everything it names is bounded, so some step
of it being taken for ever is enough. Clients, faults and operators are never fair.

Liveness is weaker than one would like exactly by what section 6 describes:
`IntentsSettle` lets a delete end in a failure class and a start stay behind a fenced
Assignment that keeps the slot (`FencedStart`), and `RelocationSettles` excepts a
restarted export (`RestartOutstanding`), a receive loop that waits for itself (`Stuck`)
and a source deletion that was torn before its receipt (`TornDeletion`). In those states
the code does not settle, so no property covers the hazards that name them.

## 4. Proofs

TLAPS checks every theorem for every value of the constants that satisfies the
module's `ASSUME`. Nothing is assumed about finiteness of the sets, and the bounds on
generations, Operations, faults, retries, connections, sessions and requests are
arbitrary.

| Module | Theorem | States, as a property of the run |
|---|---|---|
| `WorkspaceStoreProofs` | `TypeCorrect`, `ImageNeverLost`, `SingleRestore`, `ReceiptAfterEffect`, `DeleteComplete`, `SealedBytes` | `TypeOK`, `CurrentImageNeverLost`, `OneRestorePending`, `ReceiptsNotAhead`, `DeleteLeavesNothing`, `SealedBytesStable` |
| `SandboxLifecycleProofs` | `LifecycleTypes`, `GenerationCommitted`, `SingleWriter`, `CommandsOutlive`, `WakeupsKept`, `RetirementByReceipt`, `DeletionDominates` | `TypeOK`, `GenerationNotAhead`, `OneWriter`, `EffectsAwaited`, `NoLostWakeup`, `RetiredByReceipt`, `DeleteDominates` |
| `EventLogProofs` | `LogInOrder` | the log of `EventLog` is in order and without repetition |
| `RunnerSessionProofs` | `Implements`, `MessagesInOrder`, `StaysReady`, `SessionTypes`, `Acceptance` | `RecordsALog` (the refinement), what `LogInOrder` says of `runner_messages`, `CurrentStaysReady`, `TypeOK`, `CommandsAcceptable` |
| `RelocationProofs` | `TypesHold`, `HomeKeepsImage` | `TypeOK`, `HomeHoldsImage` |
| `DataPlaneProofs` | `DataPlaneTypes`, `GuestWorkOnce`, `EndIsFinal`, `RoutesReleased`, `OutcomesStand` | `TypeOK`, `RunsOnce`, `EndedMeansStopped`, `NothingOutlivesItsHandler`, `OutcomeSettled` |

**WorkspaceStore.** None of the invariants is inductive. The image of a manifest about
to be published is safe only because of what the mutation did in its earlier steps,
and each mutation can be entered again over the files of an interrupted one. `IInv`
therefore adds, per mutation, what is established when its next file step is due
(`CreateSteps`, `SnapshotSteps`, `RestoreSteps`, `ImportSteps`, `RemoveSteps`,
`DeleteSteps`), and what the files say about each other with no mutation running
(`SnapshotsBesideManifest`, `ResultNotAhead`, nothing on disk without the layout).
Each conjunct is a lemma with one step per action. `SealedBytesStable` is an action
property that follows from it.

**SandboxLifecycle.** `OneWriter` holds because of facts about commands and evidence in
flight, none of which is visible in the rows. `LifecycleInv` has, besides types:

- `GenInv`, `CurrentInv`, `OrderInv`: no command or evidence is of a later generation;
  one of the current generation implies an Instance; on the wire no assignment follows
  a fence of its generation;
- `InstanceInv`, `WorkspaceInv`, `PlanInv`, `StartInv`: how the Instance, the Assignment,
  the Workspace, the slot and a worker's plan belong together; while a start is
  undecided its mutation holds the slot and nobody asked for a fence;
- `RunInv`, `QuietInv`: compute is of the current generation over a manifest of that
  generation; once the Assignment is gone, fenced or released, or a fence proof is on
  its way, nothing runs, starts or can be asked to start;
- `AdvanceInv`, `ReceiptInv`, `EffectInv`: an advance belongs to a stop effect that waits
  for it, its receipt is on the Runner before its evidence is on the wire, and the
  manifest is at the committed generation or one past it with a receipt;
- `DeletedInv`: a fresh claim of a deleted Sandbox does not exist.

`SandboxLifecycleSteps` says, once per variable, which actions change it and how
(frame lemmas). `SandboxLifecycleInvariant` and `SandboxLifecycleProofs` prove each
conjunct from those deltas, with one case per action that can disturb it. `NoLostWakeup` needs a second layer, `WakeInv`,
relative to `LifecycleInv`: what a fresh claim has decided is still what the row asks
for, and an unscheduled Sandbox rests or is owed evidence.

**RunnerSession.** `SessionInv` (a connection is dialled, opened once, and one at most is
active; nothing on its way is newer than the last message sent on it) gives the
refinement step by step: recording a batch is `EventLog`'s `Record`, opening a connection
is its `Open`, everything else stutters. `CommandInv` adds what is claimed for a
connection, in which order its frames travel and what the Runner accepted, and gives
`CommandsAcceptable`.

**Relocation.** The home's image can be removed by a deletion that reaches the wrong Runner,
and by an import that starts over where a published image is. `RelocationInv` has, besides
types:

- `RowInv`: a free slot means an ended relocation; one that deletes its source has moved
  the home to the target; a delete command is queued once, for that source;
- `OpsInv`: no frame, route or exporter is of a relocation that was not asked for yet, so a
  new relocation's number is on no wire;
- `DelInv`: a deletion is in one place only: queued, on its way to the source, or answered
  and not recorded; when the relocation ends it is in none;
- `ImportInv`: an import in progress has no image beside it, and a receipt of an import
  means that its image is there and is the last one made;
- `BackInv`: a success of the current relocation on its way from the target, on its
  connection or on a superseded one, rests on the target's import receipt;
- `HomeInv`: the home has an image, its first one or one with an import receipt.

`BackInv` carries the home change: the commit is taken only on a success, so the new home
is one whose import left a receipt, and an import that finds its receipt writes nothing.
`DelInv` carries the deletion: the source differs from the home for as long as one is
anywhere. Lemmas about a queue say what taking, adding and renaming frames keep; each
action then has one lemma for the whole invariant.

**DataPlane.** `DataPlaneInv` has, besides types:

- `RouteInv`: a route or a direct connection is held by a handler of its session that
  is past attaching, a route only while the connection is bound;
- `OnceInv`: an operation not yet run has no start counted, and none has two;
- `ProofInv`: a terminal on the wire, in a handler or on a direct connection is of an
  operation that is over on the Runner;
- `FenceInv`: the Assignment ends only after the fence took effect;
- `BeginInv`: a session that is not admitted or is pending, and one that ended before it
  ran, has nothing that could begin its work: no operation, no served connection, no Open
  and no admission on the wire, no handler about to send one.

Each variable has one lemma that bounds what any step does to it (`RowMoves`, `OpMoves`,
`UpMoves`, `DownMoves`, `TcpMoves`, `RequestMoves`, `OwnerMoves`); the conjuncts follow
from those without returning to the actions. `OutcomeSettled` is read off `RowMoves`.

The provers do induction over behaviours but not over data, and neither `ENABLED` nor
fairness. Only model-checked, therefore:

- liveness: `IntentsSettle`, `OperationsSettle`, `CommandsSettle`, `RelocationSettles`,
  `SessionsSettle`;
- everything about `SnapshotControl`: a report is a fold over a sequence of receipts and
  the Runner's `Refuse` is stated with `ENABLED`. `StoreContract` connects it to the
  proved part: the theorems about `WorkspaceStore` assume its `Calls`, and the run shows
  that the Snapshot and restore commands keep to it;
- `SealedWhileMoving` of `Relocation`: besides what `RelocationInv` says of deletions it
  needs to know where an export and an abort of each relocation, ended ones included, may
  still be on their way. It excepts a home at which an export of an earlier relocation is
  outstanding (`StaleExport`, section 6).

## 5. Hazards

`PROJECT.json` lists what is hard to test in this code, at the line where it
bites, and the properties that would catch it. Those without a property belong to
parts that are not modelled, or to behaviour no document promises (a lost
`InstanceTerminal` is not sent again).

## 6. Findings

Each is a run that TLC refutes; the finding in `PROJECT.json` quotes the line that
says otherwise.

- `SnapshotConflict` (`NoConflict`): a restore whose prepare command was lost with the
  connection is failed by the next report, with its Workspace, instead of being sent
  again, and nothing recovers the Workspace.
- `DataPlaneReattach` (`NoReorderedFrame`): after a control-plane restart a second
  WebSocket of a streaming session sends its Open again as sequence 1; the Runner has
  moved past it and ends its whole connection.
- `RelocationReturn` (`SealedOnlyInSlot`): the result of a restarted export is dropped
  without acknowledging the command. After a move and the move back, with no start between,
  the next connection delivers it to the Runner that is home again, whose export receipt
  the deletion removed; the home is sealed while no relocation holds the slot, and stays so.

More consequences of the code are visible in the models and stated by no run.

Store and lifecycle:

- a finalize interrupted between two unlinks lets a generation advance through and can
  then never complete (`store.go:1028`; `docs/design/workspace-durability.md:66`);
- an accepted delete loses its Operation, and can never run, when the stop it needs runs
  out of retries while the Runner is away
  (`docs/design/recovery-and-reconciliation.md:118-119`); a delete accepted during
  creation is scheduled but not claimable once the creation fails;
- after a transient start failure the mutation names the acknowledged first command, and
  a fence of the retried start is never followed by the generation advance
  (`internal/reconcile/postgres.go:618-639`); a start accepted after a late fence proof
  keeps both `AdvanceFencedGeneration` and `queueStop` from retiring the generation;
- a stop of a failed Sandbox without Instance is parked with its Operation pending.

Snapshots and reports:

- a Snapshot deletion interrupted after its manifest is gone and then repeated leaves a
  receipt without generation, and the control plane refuses every later report, and so
  every connection, of that Runner (`recovery-and-reconciliation.md:60-61`);
- a Snapshot creation that fails after making its directory leaves a Workspace that
  `DeleteWorkspace` cannot remove; its result carries no generation, so
  `recordLocalSnapshotResult` refuses it and the command is repeated over new
  connections;
- the commit of a second restore fails a finalize of the first that is still queued,
  whose row then stays `database_committed` although the files are clean.

Relocation:

- a restarted export is never acknowledged
  (`internal/runnercontrol/postgres_relocations.go:63`;
  `docs/design/runner-protocol.md:96`), and a reconnect of the target queues an export
  whose correlation names the target, which ends the source's session
  (`RestartOutstanding`);
- a delete that is pumped between the commit of a transfer's result and its forwarding
  makes the source's receive loop wait for itself, without any fault (`Stuck`);
- a crash between the seal and its receipt makes the next report conflict: the Sandbox is
  failed while its relocation goes on; while an abort is pending a report replays the
  export's receipt under the abort's effect, and the connection ends until the abort was
  executed;
- a source deletion that is torn between the removal and its receipt, by a crash or a
  failing write, finds no image when it is repeated; its receipt has no capacity and every
  result is refused, so the relocation never leaves `deleting_source` (`TornDeletion`),
  although `recovery-and-reconciliation.md:73-76` has reconnect recovery replay it;
- after an aborted relocation the target may keep a published, unsealed copy, and a later
  relocation there is refused.

Data plane:

- a session recorded as lost may still be started by a second request that read it
  running (`EndedMeansStopped` excepts `LOST`);
- a row may stay `cancelling` when the Runner's only confirmation is taken by the route of
  a handler that is leaving, until a reconnect or the end of the Assignment
  (`runner-protocol.md:123`).

## 7. Not modelled

Placement arithmetic and the choice between Runners; Leases and activity sessions beyond
the barrier they are for a decision; terminals and port tunnels, which share the routes
and the cancellation of the data plane; the guest agent; the gVisor and Microsandbox
backends, behind the same interface as the modelled one; execution images, network
policy and egress; subject cleanup, quotas and notification; installer, CLI and SDKs.
They are pure computation, I/O or configuration around the modelled protocols.
`PROJECT.json` gives the reason for each.
