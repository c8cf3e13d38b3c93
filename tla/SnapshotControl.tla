--------------------------- MODULE SnapshotControl ---------------------------
(***************************************************************************)
(* Snapshot creation and deletion and in-place restore of one stopped      *)
(* Sandbox, from admission in PostgreSQL to the files of its home Runner   *)
(* and back: the durable effects and commands of internal/store and        *)
(* internal/runnercontrol, composed with the Runner's WorkspaceStore.      *)
(*                                                                         *)
(* The database is one record, db: the control plane changes it in         *)
(* transactions, each a function from a database to the next one or to     *)
(* Refused, which rolls back and ends the Runner's connection.  Commands   *)
(* and results cross the connection in order; when it is lost, so is what  *)
(* it carried.  The Runner serves one command at a time and its file       *)
(* operations are the steps of WorkspaceStore.  A new connection starts    *)
(* with a reconciliation: the Runner reports its generation, whether a     *)
(* restore is pending and every receipt it holds, and the control plane    *)
(* replays the receipts and compares the rest with its rows.               *)
(***************************************************************************)
EXTENDS Naturals, FiniteSets, Sequences, SequencesExt

CONSTANTS
  Ops, Snapshots, Data, Blank, Absent, Base, NoOp, MaxGeneration,
  RequestKinds,   \* the requests users and retention make here
  Past,           \* operations of the history before the initial state
  Taken,          \* the Snapshot taken in that history
  MaxFaults       \* bound on lost connections, crashes and I/O errors

VARIABLES
  request, layout, manifest, versions, stagedImage, stagedManifest, rollback,
  snapDir, snapImage, snapManifest, receipts, holder, op, pc, out, removing

Store == INSTANCE WorkspaceStore

VARIABLES
  db,       \* the rows of the Sandbox, its Workspace, Snapshots and restores
  link,     \* the Runner's control connection is active
  rec,      \* the reconcile command of this connection
  inbox,    \* commands delivered and not yet served by the Runner
  outbox,   \* results sent and not yet recorded
  faults    \* faults so far

files == <<layout, manifest, versions, stagedImage, stagedManifest, rollback,
           snapDir, snapImage, snapManifest, receipts>>
store == <<request, files, holder, op, pc, out, removing>>
wire  == <<link, rec, inbox, outbox>>
vars  == <<store, db, wire, faults>>

RestoreKinds == {"restore_prepare", "restore_swap", "restore_finalize", "restore_abort"}
LocalKinds   == {"snapshot_create", "snapshot_delete"} \cup RestoreKinds

NoAsk  == [kind |-> "none", snapshot |-> Absent, generation |-> 0]
NoSlot == [op |-> NoOp, effect |-> "none", state |-> "none"]

Refused == [refused |-> TRUE]

(* The history: the Workspace was created, ran, stopped, was snapshotted,  *)
(* ran again, was written to and stopped at generation three.              *)
PastRequest(i) ==
  CASE i = 1 -> [kind |-> "create", snapshot |-> Absent, generation |-> 1, data |-> Blank]
    [] i = 2 -> [kind |-> "stop", snapshot |-> Absent, generation |-> 1, data |-> Absent]
    [] i = 3 -> [kind |-> "snapshot_create", snapshot |-> Taken, generation |-> 2, data |-> Absent]
    [] i = 4 -> [kind |-> "stop", snapshot |-> Absent, generation |-> 2, data |-> Absent]

PastReceipt(i) ==
  CASE i = 1 -> [op |-> Past[1], kind |-> "workspace_create", previous |-> 0, generation |-> 1]
    [] i = 2 -> [op |-> Past[2], kind |-> "generation_advance", previous |-> 1, generation |-> 2]
    [] i = 3 -> [op |-> Past[3], kind |-> "snapshot_create", previous |-> 0, generation |-> 2]
    [] i = 4 -> [op |-> Past[4], kind |-> "generation_advance", previous |-> 2, generation |-> 3]

Init ==
  /\ request = [o \in Ops |-> IF \E i \in 1..4 : Past[i] = o
                                THEN PastRequest(CHOOSE i \in 1..4 : Past[i] = o)
                                ELSE Store!NoRequest]
  /\ layout = TRUE
  /\ manifest = [generation |-> 3, image |-> Base, sealed |-> FALSE]
  /\ \E d \in Data \ {Blank} :
       versions = [i \in Ops \cup {Base} |-> IF i = Base THEN d ELSE Absent]
  /\ stagedImage = [o \in Ops |-> Absent] /\ stagedManifest = {}
  /\ rollback = [o \in Ops |-> Store!NoRollback]
  /\ snapDir = {Taken}
  /\ snapImage = [s \in Snapshots |-> IF s = Taken THEN Blank ELSE Absent]
  /\ snapManifest = [s \in Snapshots |-> IF s = Taken THEN 2 ELSE 0]
  /\ receipts = { PastReceipt(i) : i \in 1..4 }
  /\ holder = "none" /\ op = NoOp /\ pc = "idle" /\ out = Store!NoResult
  /\ removing = FALSE
  /\ db = [ gen     |-> 3,
            failure |-> "none",
            slot    |-> NoSlot,
            snap    |-> [s \in Snapshots |-> IF s = Taken THEN "ready" ELSE "none"],
            restore |-> [o \in Ops |-> "none"],
            effect  |-> [o \in Ops |-> [k \in LocalKinds |-> "none"]],
            oper    |-> [o \in Ops |-> "none"],
            ask     |-> [o \in Ops |-> NoAsk],
            cmds    |-> <<>> ]
  /\ link = TRUE /\ rec = "done" /\ inbox = <<>> /\ outbox = <<>>
  /\ faults = 0

(***************************************************************************)
(* Rows.                                                                   *)
(***************************************************************************)
SnapshotOf(d, o) == d.ask[o].snapshot
Expected(d, o)   == d.ask[o].generation
Target(d, o)     == d.ask[o].generation + 1

(* restorePending of the reconciliation and of deleteSnapshot. *)
Unsettled(d) == { o \in Ops : d.restore[o] \notin {"none", "finalized", "failed"} }

Names(c, o, k) == c.op = o /\ c.kind = k

Queue(d, o, k) ==
  [d EXCEPT !.effect[o][k] = "queued",
            !.cmds = Append(@, [op |-> o, kind |-> k, sent |-> FALSE])]

(* acknowledgeRunnerCommand, and the expiry of a command. *)
Retire(d, o, k) == [d EXCEPT !.cmds = SelectSeq(@, LAMBDA c : ~ Names(c, o, k))]

FinishEffect(d, o, k, state) == Retire([d EXCEPT !.effect[o][k] = state], o, k)

FinishOperation(d, o, state) ==
  [d EXCEPT !.oper[o] = IF @ = "pending" THEN state ELSE @]

Hold(d, o, k) == [d EXCEPT !.slot = [op |-> o, effect |-> k, state |-> "queued"]]
Release(d)    == [d EXCEPT !.slot = NoSlot]

(***************************************************************************)
(* Admission: the Operation, the mutation slot, the effect and its command *)
(* are written in one transaction.  A Sandbox that a reconciliation failed *)
(* is not stopped, and its Workspace is not ready.                         *)
(***************************************************************************)
Admit(o, a, k) ==
  Queue(Hold([db EXCEPT !.ask[o] = a, !.oper[o] = "pending"], o, k), o, k)

Ask(o, kind, s) == [kind |-> kind, snapshot |-> s, generation |-> db.gen]

Fresh(o, kind) ==
  /\ kind \in RequestKinds
  /\ db.ask[o] = NoAsk /\ request[o] = Store!NoRequest
  /\ db.slot = NoSlot

CreateSnapshot(o, s) ==
  /\ Fresh(o, "snapshot_create")
  /\ db.failure = "none" /\ link
  /\ db.snap[s] = "none"
  /\ db' = [Admit(o, Ask(o, "snapshot_create", s), "snapshot_create")
              EXCEPT !.snap[s] = "creating"]
  /\ UNCHANGED <<store, wire, faults>>

(* Mutant: a Snapshot that a restore still refers to can be deleted. *)
DeleteReferenced(o, s) ==
  /\ Fresh(o, "snapshot_delete")
  /\ db.snap[s] = "ready"
  /\ db' = [Admit(o, Ask(o, "snapshot_delete", s), "snapshot_delete")
              EXCEPT !.snap[s] = "deleting"]
  /\ UNCHANGED <<store, wire, faults>>

(* DeleteSnapshot and QueueExpiredSnapshotDelete: neither the Runner nor   *)
(* the state of the Sandbox or of the Workspace is looked at.              *)
deleteSnapshot(o, s) ==
  /\ Fresh(o, "snapshot_delete")
  /\ db.snap[s] = "ready"
  /\ \A p \in Unsettled(db) : SnapshotOf(db, p) # s
  /\ db' = [Admit(o, Ask(o, "snapshot_delete", s), "snapshot_delete")
              EXCEPT !.snap[s] = "deleting"]
  /\ UNCHANGED <<store, wire, faults>>

RestoreSnapshot(o, s) ==
  /\ Fresh(o, "restore")
  /\ db.failure = "none" /\ link
  /\ db.snap[s] = "ready"
  /\ db.gen < MaxGeneration
  /\ db' = [Admit(o, Ask(o, "restore", s), "restore_prepare")
              EXCEPT !.restore[o] = "requested"]
  /\ UNCHANGED <<store, wire, faults>>

(***************************************************************************)
(* recordLocalSnapshotResult.                                              *)
(***************************************************************************)
FinishSnapshot(d, m) ==
  LET s     == SnapshotOf(d, m.op)
      state == IF m.ok THEN [row  |-> IF m.kind = "snapshot_create" THEN "ready" ELSE "deleted",
                             oper |-> "succeeded", effect |-> "succeeded"]
                       ELSE [row |-> "failed", oper |-> "failed", effect |-> "runner_failed"]
  IN  Release(FinishEffect(FinishOperation([d EXCEPT !.snap[s] = state.row], m.op, state.oper),
                           m.op, m.kind, state.effect))

SnapshotAuthority(d, m) ==
  /\ d.slot.op = m.op /\ d.slot.effect = m.kind
  /\ d.snap[SnapshotOf(d, m.op)] = IF m.kind = "snapshot_create" THEN "creating" ELSE "deleting"

Terminal == {"succeeded", "runner_failed"}

(* A creation's result must carry the Workspace's generation, whether it   *)
(* succeeded or not; a failed command carries none.                        *)
SnapshotResult(d, m) ==
  CASE ~ SnapshotAuthority(d, m) -> Refused
    [] SnapshotAuthority(d, m) /\ d.effect[m.op][m.kind] \in Terminal -> d
    [] OTHER -> IF m.kind = "snapshot_create" /\ m.generation # d.gen
                  THEN Refused
                  ELSE FinishSnapshot(d, m)

(***************************************************************************)
(* recordLocalRestoreResult.                                               *)
(***************************************************************************)
PhaseState(k) ==
  CASE k = "restore_prepare" -> "requested"
    [] k = "restore_swap" -> "prepared"
    [] k = "restore_finalize" -> "database_committed"
    [] k = "restore_abort" -> "aborting"

EffectGeneration(d, o, k) == IF k = "restore_finalize" THEN Target(d, o) ELSE Expected(d, o)

(* fenceGenerationAuthority: the queued effects of the old generation fail *)
(* and their commands expire, and every other pending Operation fails.     *)
FencedEffect(d, o, k, g) == d.effect[o][k] = "queued" /\ EffectGeneration(d, o, k) = g

Fence(d, o, g) ==
  [d EXCEPT !.effect = [p \in Ops |-> [k \in LocalKinds |->
                          IF FencedEffect(d, p, k, g) THEN "runner_failed" ELSE @[p][k]]],
            !.cmds   = SelectSeq(@, LAMBDA c : ~ FencedEffect(d, c.op, c.kind, g)),
            !.oper   = [p \in Ops |-> IF p # o /\ @[p] = "pending" THEN "failed" ELSE @[p]]]

(* Mutant: the commit does not queue the cleanup. *)
CommitWithoutFinalize(d, o) ==
  IF d.failure # "none" \/ d.gen # Expected(d, o)
    THEN Refused
    ELSE [FinishOperation(Fence(Release(d), o, Expected(d, o)), o, "succeeded")
            EXCEPT !.gen = Target(d, o), !.restore[o] = "database_committed"]

commitLocalRestore(d, o) ==
  IF d.failure # "none" \/ d.gen # Expected(d, o)
    THEN Refused
    ELSE Queue([FinishOperation(Fence(Release(d), o, Expected(d, o)), o, "succeeded")
                  EXCEPT !.gen = Target(d, o), !.restore[o] = "database_committed"],
               o, "restore_finalize")

(* Mutant: the generation is committed once the restore is staged. *)
CommitWhenPrepared(d, m) ==
  LET e == FinishEffect(d, m.op, m.kind, "succeeded") IN
  CASE m.kind = "restore_prepare" -> commitLocalRestore(e, m.op)
    [] m.kind = "restore_finalize" -> [e EXCEPT !.restore[m.op] = "finalized"]
    [] OTHER -> Release(FinishOperation([e EXCEPT !.restore[m.op] = "failed"], m.op, "failed"))

completeLocalRestorePhase(d, m) ==
  LET e == FinishEffect(d, m.op, m.kind, "succeeded") IN
  CASE m.kind = "restore_prepare" ->
         Queue(Hold([e EXCEPT !.restore[m.op] = "prepared"], m.op, "restore_swap"),
               m.op, "restore_swap")
    [] m.kind = "restore_swap" -> commitLocalRestore(e, m.op)
    [] m.kind = "restore_finalize" -> [e EXCEPT !.restore[m.op] = "finalized"]
    [] m.kind = "restore_abort" ->
         Release(FinishOperation([e EXCEPT !.restore[m.op] = "failed"], m.op, "failed"))

beginLocalRestoreAbort(d, m) ==
  Queue(Hold([FinishEffect(d, m.op, m.kind, "runner_failed")
                EXCEPT !.restore[m.op] = "aborting"], m.op, "restore_abort"),
        m.op, "restore_abort")

(* Mutant: the retried phase has no new command. *)
RetryWithoutCommand(d, m) == Retire(d, m.op, m.kind)

(* Mutant: a failed swap is aborted, though it may have been published. *)
AbortFailedSwap(d, m) ==
  IF m.kind = "restore_swap"
    THEN beginLocalRestoreAbort(d, m)
    ELSE Queue(Retire(d, m.op, m.kind), m.op, m.kind)

(* The effect stays queued under a new command, without a retry limit. *)
retryLocalRestorePhase(d, m) ==
  LET e == Queue(Retire(d, m.op, m.kind), m.op, m.kind) IN
  IF m.kind = "restore_finalize" THEN e ELSE Hold(e, m.op, m.kind)

RestoreAuthority(d, m) ==
  /\ d.effect[m.op][m.kind] = "queued"
  /\ d.restore[m.op] = PhaseState(m.kind)
  /\ IF m.kind = "restore_finalize"
       THEN d.gen = Target(d, m.op)
       ELSE d.slot.op = m.op /\ d.slot.effect = m.kind

validateLocalRestoreReceipt(d, m) ==
  \/ m.kind = "restore_abort" /\ m.previous = 0 /\ m.generation = 0
  \/ m.previous = Expected(d, m.op) /\ m.generation = Target(d, m.op)

RestoreResult(d, m) ==
  CASE d.effect[m.op][m.kind] \in Terminal -> d
    [] d.effect[m.op][m.kind] \notin Terminal ->
         IF ~ RestoreAuthority(d, m) THEN Refused
         ELSE IF m.ok
           THEN IF validateLocalRestoreReceipt(d, m)
                  THEN completeLocalRestorePhase(d, m) ELSE Refused
           ELSE IF m.kind = "restore_prepare"
                  THEN beginLocalRestoreAbort(d, m)
                  ELSE retryLocalRestorePhase(d, m)

LocalResult(d, m) ==
  IF m.kind \in RestoreKinds THEN RestoreResult(d, m) ELSE SnapshotResult(d, m)

(***************************************************************************)
(* recordLocalWorkspaceReconciliation.                                     *)
(***************************************************************************)
Success(r) == [kind |-> r.kind, op |-> r.op, ok |-> TRUE,
               previous |-> r.previous, generation |-> r.generation]

replayReconciledWorkspaceReceipt(d, r) ==
  CASE d = Refused -> d
    [] d # Refused /\ r.kind \in RestoreKinds ->
         IF d.restore[r.op] = "none" THEN d ELSE RestoreResult(d, Success(r))
    [] OTHER ->
         IF d.slot.op = r.op /\ d.slot.effect = r.kind THEN SnapshotResult(d, Success(r)) ELSE d

(* The receipts that are not absorbed: those of one Workspace come in the  *)
(* order of their random operation identities.                             *)
Replayed(d, m) == { r \in m.receipts : r.kind \in LocalKinds /\ d.effect[r.op][r.kind] \notin Terminal }

Orders(S) == { q \in [1..Cardinality(S) -> S] : \A i, j \in DOMAIN q : q[i] = q[j] => i = j }

failReconciledWorkspace(d, class) ==
  LET e == [d EXCEPT !.failure = class] IN
  IF d.slot = NoSlot THEN e
  ELSE LET o == d.slot.op
           k == d.slot.effect
           f == [FinishOperation(Retire(e, o, k), o, "failed") EXCEPT !.slot.state = "failed"]
       IN  [f EXCEPT !.effect[o][k] = IF @ = "queued" THEN "runner_failed" ELSE @]

recoverReconciledWorkspace(d) ==
  IF d.failure = "home_workspace" /\ d.slot = NoSlot
    THEN [d EXCEPT !.failure = "none"]
    ELSE d

(* validateLocalWorkspaceResult on the receipts of a report. *)
validReceipts(m) == \A r \in m.receipts : r.generation # 0 \/ r.kind = "restore_abort"

Compare(d, m) ==
  IF m.generation = d.gen /\ m.pending = (Unsettled(d) # {})
    THEN recoverReconciledWorkspace(d)
    ELSE failReconciledWorkspace(d, "home_workspace")

Reconciliation(d, m, q) ==
  IF ~ m.ok THEN failReconciledWorkspace(d, "workspace")
  ELSE LET e == FoldLeft(replayReconciledWorkspaceReceipt, d, q) IN
       IF ~ validReceipts(m) \/ e = Refused THEN Refused ELSE Compare(e, m)

Outcomes(m) ==
  IF m.kind = "reconcile"
    THEN { Reconciliation(db, m, q) : q \in Orders(Replayed(db, m)) }
    ELSE { LocalResult(db, m) }

(***************************************************************************)
(* The connection.                                                         *)
(***************************************************************************)
(* Mutant: what the lost connection carried is still served. *)
DropLink == link' = FALSE /\ rec' = "done" /\ UNCHANGED <<inbox, outbox>>

Drop == link' = FALSE /\ rec' = "done" /\ inbox' = <<>> /\ outbox' = <<>>

(* ClaimCommands: the reconciliation first, then in order of creation. *)
ClaimCommand ==
  /\ link
  /\ \/ /\ rec = "pending"
        /\ rec' = "sent"
        /\ inbox' = Append(inbox, [kind |-> "reconcile", op |-> NoOp])
        /\ UNCHANGED db
     \/ /\ rec # "pending"
        /\ \E i \in DOMAIN db.cmds :
             /\ ~ db.cmds[i].sent /\ \A j \in 1..(i - 1) : db.cmds[j].sent
             /\ inbox' = Append(inbox, [kind |-> db.cmds[i].kind, op |-> db.cmds[i].op])
             /\ db' = [db EXCEPT !.cmds[i].sent = TRUE]
        /\ UNCHANGED rec
  /\ UNCHANGED <<store, link, outbox, faults>>

RecordEvent ==
  /\ outbox # <<>>
  /\ \E d \in Outcomes(Head(outbox)) :
       \/ /\ d # Refused
          /\ db' = d
          /\ outbox' = Tail(outbox)
          /\ rec' = IF Head(outbox).kind = "reconcile" THEN "done" ELSE rec
          /\ UNCHANGED <<link, inbox>>
       \/ /\ d = Refused
          /\ Drop
          /\ UNCHANGED db
  /\ UNCHANGED <<store, faults>>

Fault == faults < MaxFaults /\ faults' = faults + 1

(* The stream breaks; the Runner finishes the command it is serving. *)
CloseConnection ==
  /\ link /\ Fault
  /\ Drop
  /\ UNCHANGED <<store, db>>

(* The Runner connects again once its last command returned. *)
OpenConnection ==
  /\ ~ link /\ holder = "none"
  /\ link' = TRUE /\ rec' = "pending"
  /\ db' = [db EXCEPT !.cmds = [i \in DOMAIN @ |-> [@[i] EXCEPT !.sent = FALSE]]]
  /\ UNCHANGED <<store, inbox, outbox, faults>>

(***************************************************************************)
(* The Runner: handleLocalWorkspace and ExecuteLocalWorkspace.             *)
(***************************************************************************)
Send(m) == outbox' = IF link THEN Append(outbox, m) ELSE outbox

Serve(k) == /\ inbox # <<>> /\ holder = "none"
            /\ k = Head(inbox).kind
            /\ inbox' = Tail(inbox)

(* Store.Reconcile; a read that fails is reported as a failed result. *)
Reconcile ==
  /\ Serve("reconcile")
  /\ \/ /\ Send([kind |-> "reconcile", ok |-> TRUE, generation |-> manifest.generation,
                 pending |-> Store!RestorePending, receipts |-> receipts])
        /\ UNCHANGED faults
     \/ /\ Fault
        /\ Send([kind |-> "reconcile", ok |-> FALSE, generation |-> 0,
                 pending |-> FALSE, receipts |-> {}])
  /\ UNCHANGED <<store, db, link, rec>>

Replay ==
  /\ \E k \in LocalKinds : Serve(k)
  /\ \E r \in receipts : Names(Head(inbox), r.op, r.kind) /\ Send(Success(r))
  /\ UNCHANGED <<store, db, link, rec, faults>>

(* Mutant: the command names the Workspace's generation of the moment. *)
RequestNow(o) ==
  LET a == db.ask[o] IN
  [kind |-> a.kind, snapshot |-> a.snapshot, data |-> Absent,
   generation |-> IF a.kind = "snapshot_delete" THEN 0 ELSE db.gen]

StoreRequest(o) ==
  LET a == db.ask[o] IN
  [kind |-> a.kind, snapshot |-> a.snapshot, data |-> Absent,
   generation |-> IF a.kind = "snapshot_delete" THEN 0 ELSE a.generation]

Begin ==
  /\ \E k \in LocalKinds : Serve(k)
  /\ LET c == Head(inbox) IN
     /\ ~ Store!HasReceipt(c.op, c.kind)
     /\ Store!Lock(c.kind, c.op, "apply")
     /\ request' = [request EXCEPT ![c.op] = StoreRequest(c.op)]
  /\ UNCHANGED <<files, removing, db, link, rec, outbox, faults>>

FileStep ==
  /\ Store!SnapshotStep \/ Store!RestoreStep
  /\ UNCHANGED <<db, wire, faults>>

Finish ==
  /\ Store!recordReceipt
  /\ Send(Success([op |-> op, kind |-> holder, previous |-> out.previous,
                   generation |-> out.generation]))
  /\ UNCHANGED <<db, link, rec, inbox, faults>>

Failure == [kind |-> holder, op |-> op, ok |-> FALSE, previous |-> 0, generation |-> 0]

(* The store refuses: none of its steps applies to the command. *)
Refuse ==
  /\ pc # "receipt"
  /\ ~ ENABLED (Store!SnapshotStep \/ Store!RestoreStep)
  /\ Store!Interrupt
  /\ Send(Failure)
  /\ UNCHANGED <<db, link, rec, inbox, faults>>

(* A file operation fails. *)
Fail ==
  /\ Fault
  /\ Store!Interrupt
  /\ Send(Failure)
  /\ UNCHANGED <<db, link, rec, inbox>>

Crash ==
  /\ Fault
  /\ Store!Interrupt
  /\ Drop
  /\ UNCHANGED db

Admission ==
  \E o \in Ops, s \in Snapshots :
    CreateSnapshot(o, s) \/ deleteSnapshot(o, s) \/ RestoreSnapshot(o, s)

Runner == Reconcile \/ Replay \/ Begin \/ FileStep \/ Finish \/ Refuse

Next == \/ Admission
        \/ ClaimCommand \/ RecordEvent \/ OpenConnection \/ Runner
        \/ Fail \/ Crash \/ CloseConnection

Spec == Init /\ [][Next]_vars

(* The command poller and the event reader of a live connection run until  *)
(* it ends, a Runner without one keeps connecting, and its serving thread  *)
(* finishes what it started.  Nothing obliges users to ask or faults to    *)
(* happen.                                                                 *)
FairSpec ==
  Spec /\ WF_vars(ClaimCommand) /\ WF_vars(RecordEvent)
       /\ WF_vars(OpenConnection) /\ WF_vars(Runner)

(***************************************************************************)
(* Properties.                                                             *)
(***************************************************************************)
Requests == [kind : {"none", "snapshot_create", "snapshot_delete", "restore"},
             snapshot : Snapshots \cup {Absent}, generation : 0..MaxGeneration]

(* The rows of the database and the messages hold what the code stores.    *)
TypeOK ==
  /\ Store!TypeOK
  /\ db.gen \in 1..MaxGeneration
  /\ db.failure \in {"none", "home_workspace", "workspace"}
  /\ db.slot \in [op : Ops \cup {NoOp}, effect : LocalKinds \cup {"none"},
                  state : {"none", "queued", "failed"}]
  /\ db.snap \in [Snapshots -> {"none", "creating", "ready", "deleting", "deleted", "failed"}]
  /\ db.restore \in [Ops -> {"none", "requested", "prepared", "database_committed",
                             "finalized", "aborting", "failed"}]
  /\ db.effect \in [Ops -> [LocalKinds -> {"none", "queued", "succeeded", "runner_failed"}]]
  /\ db.oper \in [Ops -> {"none", "pending", "succeeded", "failed"}]
  /\ db.ask \in [Ops -> Requests]
  /\ link \in BOOLEAN /\ rec \in {"pending", "sent", "done"}
  /\ ~ link => inbox = <<>> /\ outbox = <<>>
  /\ faults \in 0..MaxFaults

(* The generation PostgreSQL records is the one of the current manifest,   *)
(* or the manifest is one ahead because of the restore that holds the      *)
(* mutation slot, swapped and not yet committed.                           *)
GenerationsAgree ==
  \/ manifest.generation = db.gen
  \/ /\ manifest.generation = db.gen + 1
     /\ manifest.image = db.slot.op
     /\ db.restore[db.slot.op] = "prepared"

(* A restore happens wholly or not at all.  After its Operation succeeded, *)
(* and until the next one swaps, the current image is the one it published *)
(* and holds the Snapshot's bytes; one that ended failed never replaced    *)
(* the image and left no staged state behind.                              *)
RestoreAllOrNothing ==
  \A o \in Ops :
    /\ /\ db.restore[o] \in {"database_committed", "finalized"}
       /\ db.gen = Target(db, o) /\ manifest.generation <= db.gen
       => /\ manifest.image = o
          /\ snapImage[SnapshotOf(db, o)] \in {Absent, versions[o]}
    /\ db.restore[o] = "failed" => manifest.image # o /\ o \notin Store!PendingRestores

(* A Snapshot offered as ready, or needed by a restore not yet swapped, is *)
(* complete on the Runner's disk.                                          *)
OfferedSnapshotsExist ==
  \A s \in Snapshots :
    \/ db.snap[s] = "ready"
    \/ \E o \in Unsettled(db) : SnapshotOf(db, o) = s
    => snapImage[s] # Absent /\ snapManifest[s] # 0

(* An effect is queued exactly while a command for it is live, and the     *)
(* slot waits only for a queued effect: nothing waits for an answer that   *)
(* nobody was asked for.                                                   *)
WaitsForCommand ==
  /\ \A o \in Ops, k \in LocalKinds :
       db.effect[o][k] = "queued" <=> \E i \in DOMAIN db.cmds : Names(db.cmds[i], o, k)
  /\ db.slot.state = "queued" => db.effect[db.slot.op][db.slot.effect] = "queued"

(* The control plane keeps to what WorkspaceStore requires of its callers: *)
(* however commands are lost and repeated, each mutation the Runner starts *)
(* is one WorkspaceStore allows, with the inputs its operation began with. *)
StoreContract ==
  [][holder = "none" /\ holder' # "none"
       => request'[op'] \in Store!Requests /\ Store!mutate(op', holder', request'[op'])]_vars

(* Every admitted restore Operation ends, although connections break, the  *)
(* Runner crashes and file operations fail a few times, and the staged and *)
(* rollback manifests of a committed restore are removed from the Runner,  *)
(* even when a later restore's commit fenced its finalize effect.  (There  *)
(* are finitely many Operations; an ended one stays so.  Nothing is said   *)
(* of Snapshot creations and deletions: one that was interrupted and then  *)
(* repeated can leave a receipt that every later report is refused for.)   *)
OperationsSettle ==
  <>[](\A o \in Ops :
         /\ db.oper[o] # "pending"
         /\ db.restore[o] \in {"database_committed", "finalized"} => o \notin Store!PendingRestores)

(* Losing the connection, or the control plane, never turns an admitted    *)
(* mutation into a generation conflict: with the Workspace's files intact  *)
(* the reconciliation never fails it.                                      *)
NoConflict == db.failure # "home_workspace"

=============================================================================
