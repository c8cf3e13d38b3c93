--------------------------- MODULE WorkspaceStore ---------------------------
(***************************************************************************)
(* The Runner's local WorkspaceStore (runner/internal/workspacestore) for  *)
(* one Workspace, at the granularity of its durable file operations.       *)
(*                                                                         *)
(* Every mutation takes the Workspace's writer lock, applies its file      *)
(* steps, records a receipt and unlocks (Store.mutate).  Between any two   *)
(* steps the process may crash or a file operation may fail; both leave    *)
(* the files exactly as they are and free the lock (Interrupt).  The same  *)
(* request may then be delivered again, and its steps run from the top.    *)
(*                                                                         *)
(* Files are kept as explicit state: the layout directory, the current     *)
(* manifest, the images under versions/, the staged image and manifest of  *)
(* a restore, its rollback manifest, Snapshot directories, images and      *)
(* manifests, and the receipts.  Image bytes are an element of Data.       *)
(***************************************************************************)
EXTENDS Naturals, FiniteSets

CONSTANTS
  Ops,            \* operation identities chosen by the control plane
  Snapshots,      \* Snapshot identities
  Data,           \* contents an image can hold
  Blank,          \* content of the ext4 template a new Workspace starts from
  Absent,         \* "no such file"
  Base,           \* name of the generation-one image
  NoOp,           \* no operation holds the lock
  RequestKinds,   \* the requests the control plane sends
  MaxGeneration   \* bound on Workspace generations

ASSUME StoreAssumption ==
  /\ Blank \in Data
  /\ Absent \notin Data /\ Absent \notin Snapshots
  /\ Base \notin Ops
  /\ NoOp \notin Ops
  /\ MaxGeneration \in Nat \ {0}

Generations == 1..MaxGeneration

(* A restore or an import publishes an image named after its operation.    *)
Images == Ops \cup {Base}

File == Data \cup {Absent}

(***************************************************************************)
(* Requests.  One operation identity always carries the same request; a    *)
(* restore and an outgoing relocation run several mutation kinds under it. *)
(***************************************************************************)
Request(k, S, G, D) == [kind : {k}, snapshot : S, generation : G, data : D]

NoRequest == [kind |-> "none", snapshot |-> Absent, generation |-> 0, data |-> Absent]

AllRequests ==
  UNION { Request("create", {Absent}, {1}, {Blank}),
          Request("clone", {Absent}, {1}, Data),
          Request("stop", {Absent}, Generations \ {MaxGeneration}, {Absent}),
          Request("snapshot_create", Snapshots, Generations, {Absent}),
          Request("snapshot_delete", Snapshots, {0}, {Absent}),
          Request("restore", Snapshots, Generations \ {MaxGeneration}, {Absent}),
          Request("delete", {Absent}, Generations, {Absent}),
          Request("relocate_out", {Absent}, Generations, {Absent}),
          Request("relocate_in", {Absent}, Generations, Data) }

Requests == { i \in AllRequests : i.kind \in RequestKinds }

Serves ==
  { <<"create", "workspace_create">>, <<"clone", "workspace_clone">>,
    <<"stop", "generation_advance">>,
    <<"snapshot_create", "snapshot_create">>,
    <<"snapshot_delete", "snapshot_delete">>,
    <<"restore", "restore_prepare">>, <<"restore", "restore_swap">>,
    <<"restore", "restore_finalize">>, <<"restore", "restore_abort">>,
    <<"delete", "workspace_delete">>,
    <<"relocate_out", "relocation_export">>,
    <<"relocate_out", "relocation_abort">>,
    <<"relocate_out", "workspace_delete">>,
    <<"relocate_in", "relocation_import">> }

Kinds == { p[2] : p \in Serves }

VARIABLES
  request,         \* what each operation identity asks for
  layout,          \* the Workspace directory tree exists
  manifest,        \* current manifest; generation 0 when there is none
  versions,        \* images under versions/
  stagedImage,     \* staged image of each restore operation
  stagedManifest,  \* restore operations with a staged manifest
  rollback,        \* rollback manifest; previousGeneration 0 when none
  snapDir,         \* Snapshot directories that exist
  snapImage,       \* Snapshot images
  snapManifest,    \* generation in each Snapshot manifest, 0 when none
  receipts,        \* durable operation receipts
  holder,          \* who holds the writer lock: a mutation kind, "compute",
                   \* "export", "import_abort" or "none"
  op,              \* the operation that holds it
  pc,              \* its next file step
  out,             \* generations its receipt will carry
  removing         \* history: removal of the current tree has begun

tree    == <<layout, manifest, versions>>
restore == <<stagedImage, stagedManifest, rollback>>
snaps   == <<snapDir, snapImage, snapManifest>>
files   == <<tree, restore, snaps, receipts>>
lock    == <<holder, op, pc, out>>
vars    == <<request, files, lock, removing>>

NoManifest == [generation |-> 0, image |-> Base, sealed |-> FALSE]
NoRollback == [previousGeneration |-> 0, previousImage |-> Base]
NoResult   == [previous |-> 0, generation |-> 0]

Receipts == [op : Ops, kind : Kinds, previous : Nat, generation : Nat]

HasReceipt(o, k) == \E r \in receipts : r.op = o /\ r.kind = k

Expected(o) == request[o].generation
NextGen(o)  == request[o].generation + 1

Published == manifest.generation # 0

(* Mutants: a swapped restore forgotten by the two pending checks. *)
PendingStagedOnly    == stagedManifest

(* Store.stagedRestorePending and Store.restorePending. *)
StagedRestorePending == stagedManifest # {}
RollbackOps          == { o \in Ops : rollback[o].previousGeneration # 0 }
PendingRestores      == stagedManifest \cup RollbackOps
RestorePending       == PendingRestores # {}

CurrentImagePresent == versions[manifest.image] # Absent

(***************************************************************************)
(* The lock and the frame of Store.mutate.                                 *)
(***************************************************************************)
At(k, p) == holder = k /\ pc = p

Goto(p) == pc' = p /\ UNCHANGED <<holder, op, out>>

Result(previous, generation) ==
  /\ out' = [previous |-> previous, generation |-> generation]
  /\ UNCHANGED <<holder, op>>

Return(previous, generation) == pc' = "receipt" /\ Result(previous, generation)

Unlock == holder' = "none" /\ op' = NoOp /\ pc' = "idle" /\ out' = NoResult

Lock(k, o, p) == holder' = k /\ op' = o /\ pc' = p /\ out' = NoResult

Init ==
  /\ request = [o \in Ops |-> NoRequest]
  /\ layout = FALSE
  /\ manifest = NoManifest
  /\ versions = [i \in Images |-> Absent]
  /\ stagedImage = [o \in Ops |-> Absent]
  /\ stagedManifest = {}
  /\ rollback = [o \in Ops |-> NoRollback]
  /\ snapDir = {}
  /\ snapImage = [s \in Snapshots |-> Absent]
  /\ snapManifest = [s \in Snapshots |-> 0]
  /\ receipts = {}
  /\ holder = "none" /\ op = NoOp /\ pc = "idle" /\ out = NoResult
  /\ removing = FALSE

(* What the control plane sends.  It creates a Workspace, and each         *)
(* Snapshot, under one operation; deletes or restores a Snapshot whose     *)
(* creation has been acknowledged; creates or moves in a Workspace only at *)
(* a generation this store has not passed; and asks nothing else of a      *)
(* Workspace whose import is still unacknowledged.                         *)
ImportUnacknowledged ==
  \E p \in Ops : /\ Published /\ manifest.image = p
                 /\ request[p].kind = "relocate_in"
                 /\ ~ HasReceipt(p, "relocation_import")

SnapshotReady(s) ==
  \E p \in Ops : request[p].snapshot = s /\ HasReceipt(p, "snapshot_create")

Admissible(o, i) ==
  /\ i.kind \in {"create", "clone"} =>
       \A p \in Ops \ {o} : request[p].kind \notin {"create", "clone"}
  /\ i.kind = "snapshot_create" =>
       \A p \in Ops \ {o} : ~ (request[p].kind = "snapshot_create" /\ request[p].snapshot = i.snapshot)
  /\ i.kind \in {"snapshot_delete", "restore"} => SnapshotReady(i.snapshot)
  /\ i.kind \in {"create", "clone", "relocate_in"} =>
       \A r \in receipts : r.generation <= i.generation
  /\ i.kind # "relocate_in" => ~ ImportUnacknowledged

Calls(o, k, i) ==
  /\ <<i.kind, k>> \in Serves
  /\ request[o] \in {NoRequest, i}
  /\ Admissible(o, i)
  /\ request' = [request EXCEPT ![o] = i]

(* Store.mutate up to apply: an existing receipt is replayed without a     *)
(* state change, otherwise the lock is taken or the call fails at once.    *)
mutate(o, k, i) ==
  /\ holder = "none"
  /\ k # "relocation_import"
  /\ Calls(o, k, i)
  /\ ~ HasReceipt(o, k)
  /\ Lock(k, o, "apply")
  /\ UNCHANGED <<files, removing>>

(* The receipt is renamed into place and the lock is released. *)
recordReceipt ==
  /\ holder \in Kinds /\ pc = "receipt"
  /\ receipts' = receipts \cup
       {[op |-> op, kind |-> holder, previous |-> out.previous, generation |-> out.generation]}
  /\ Unlock
  /\ UNCHANGED <<request, tree, restore, snaps, removing>>

(* A crash, an I/O error or an early error return: the files stay. *)
Interrupt ==
  /\ holder \in Kinds \cup {"import_abort"}
  /\ Unlock
  /\ UNCHANGED <<request, files, removing>>

(***************************************************************************)
(* Create and CloneFromSnapshot.                                           *)
(***************************************************************************)
CreateKinds == {"workspace_create", "workspace_clone"}

CreateLayout ==
  /\ holder \in CreateKinds /\ pc = "apply"
  /\ layout' = TRUE
  /\ \/ ~ Published /\ Goto("clone")
     \/ manifest.generation = 1 /\ CurrentImagePresent /\ Return(0, 1)
  /\ UNCHANGED <<request, manifest, versions, restore, snaps, receipts, removing>>

(* cloneImage accepts an image an interrupted attempt already renamed. *)
CreateImage ==
  /\ holder \in CreateKinds /\ pc = "clone"
  /\ versions' = IF versions[Base] = Absent
                   THEN [versions EXCEPT ![Base] = request[op].data]
                   ELSE versions
  /\ Goto("publish")
  /\ UNCHANGED <<request, layout, manifest, restore, snaps, receipts, removing>>

CreatePublish ==
  /\ holder \in CreateKinds /\ pc = "publish"
  /\ manifest' = [generation |-> 1, image |-> Base, sealed |-> FALSE]
  /\ Return(0, 1)
  /\ UNCHANGED <<request, layout, versions, restore, snaps, receipts, removing>>

(***************************************************************************)
(* AdvanceGeneration.                                                      *)
(***************************************************************************)
(* Mutants: an advance that is not idempotent, and one that never publishes. *)
AdvanceAgain ==
  /\ At("generation_advance", "apply")
  /\ Published
  /\ manifest' = [manifest EXCEPT !.generation = @ + 1]
  /\ Return(Expected(op), NextGen(op))
  /\ UNCHANGED <<request, layout, versions, restore, snaps, receipts, removing>>

AdvanceUnpublished ==
  /\ At("generation_advance", "apply")
  /\ manifest.generation = Expected(op)
  /\ Return(Expected(op), NextGen(op))
  /\ UNCHANGED <<request, tree, restore, snaps, receipts, removing>>

AdvanceGeneration ==
  /\ At("generation_advance", "apply")
  /\ \/ /\ manifest.generation = NextGen(op)
        /\ UNCHANGED manifest
     \/ /\ manifest.generation = Expected(op)
        /\ ~ StagedRestorePending
        /\ manifest.sealed \/ CurrentImagePresent      \* reclaimFreeBlocks opens it
        /\ manifest' = [manifest EXCEPT !.generation = NextGen(op)]
  /\ Return(Expected(op), NextGen(op))
  /\ UNCHANGED <<request, layout, versions, restore, snaps, receipts, removing>>

(***************************************************************************)
(* CreateSnapshot and DeleteSnapshot.                                      *)
(***************************************************************************)
SnapshotOf(o) == request[o].snapshot

CreateSnapshotDirectory ==
  /\ At("snapshot_create", "apply")
  /\ Published /\ manifest.generation = Expected(op)
  /\ ~ StagedRestorePending
  /\ \/ /\ snapManifest[SnapshotOf(op)] = Expected(op)
        /\ snapImage[SnapshotOf(op)] # Absent
        /\ Return(0, Expected(op))
        /\ UNCHANGED snapDir
     \/ /\ snapManifest[SnapshotOf(op)] = 0
        /\ snapDir' = snapDir \cup {SnapshotOf(op)}
        /\ Goto("clone")
  /\ UNCHANGED <<request, tree, restore, snapImage, snapManifest, receipts, removing>>

CreateSnapshotImage ==
  /\ At("snapshot_create", "clone")
  /\ \/ snapImage[SnapshotOf(op)] # Absent /\ UNCHANGED snapImage
     \/ /\ snapImage[SnapshotOf(op)] = Absent
        /\ CurrentImagePresent
        /\ snapImage' = [snapImage EXCEPT ![SnapshotOf(op)] = versions[manifest.image]]
  /\ Goto("publish")
  /\ UNCHANGED <<request, tree, restore, snapDir, snapManifest, receipts, removing>>

CreateSnapshotPublish ==
  /\ At("snapshot_create", "publish")
  /\ snapManifest' = [snapManifest EXCEPT ![SnapshotOf(op)] = Expected(op)]
  /\ Return(0, Expected(op))
  /\ UNCHANGED <<request, tree, restore, snapDir, snapImage, receipts, removing>>

(* Store.snapshotReferencedByRestore. *)
SnapshotReferencedByRestore(s) == \E o \in stagedManifest : SnapshotOf(o) = s

DeleteSnapshotImage ==
  /\ At("snapshot_delete", "apply")
  /\ \/ /\ snapManifest[SnapshotOf(op)] = 0
        /\ Return(0, 0)
        /\ UNCHANGED snapImage
     \/ /\ snapManifest[SnapshotOf(op)] # 0
        /\ ~ SnapshotReferencedByRestore(SnapshotOf(op))
        /\ snapImage' = [snapImage EXCEPT ![SnapshotOf(op)] = Absent]
        /\ Result(0, snapManifest[SnapshotOf(op)]) /\ pc' = "manifest"
  /\ UNCHANGED <<request, tree, restore, snapDir, snapManifest, receipts, removing>>

DeleteSnapshotManifest ==
  /\ At("snapshot_delete", "manifest")
  /\ snapManifest' = [snapManifest EXCEPT ![SnapshotOf(op)] = 0]
  /\ Goto("directory")
  /\ UNCHANGED <<request, tree, restore, snapDir, snapImage, receipts, removing>>

DeleteSnapshotDirectory ==
  /\ At("snapshot_delete", "directory")
  /\ snapDir' = snapDir \ {SnapshotOf(op)}
  /\ Goto("receipt")
  /\ UNCHANGED <<request, tree, restore, snapImage, snapManifest, receipts, removing>>

(***************************************************************************)
(* PrepareRestore, SwapRestore, FinalizeRestore and AbortRestore.          *)
(***************************************************************************)
PrepareRestoreImage ==
  /\ At("restore_prepare", "apply")
  /\ manifest.generation = Expected(op)
  /\ snapManifest[SnapshotOf(op)] # 0
  /\ snapImage[SnapshotOf(op)] # Absent
  /\ PendingRestores \subseteq {op}
  /\ \/ /\ op \in stagedManifest /\ stagedImage[op] # Absent
        /\ Return(Expected(op), NextGen(op))
        /\ UNCHANGED stagedImage
     \/ /\ op \notin stagedManifest
        /\ stagedImage' = IF stagedImage[op] = Absent
                            THEN [stagedImage EXCEPT ![op] = snapImage[SnapshotOf(op)]]
                            ELSE stagedImage
        /\ Goto("publish")
  /\ UNCHANGED <<request, tree, stagedManifest, rollback, snaps, receipts, removing>>

PrepareRestorePublish ==
  /\ At("restore_prepare", "publish")
  /\ stagedManifest' = stagedManifest \cup {op}
  /\ Return(Expected(op), NextGen(op))
  /\ UNCHANGED <<request, tree, stagedImage, rollback, snaps, receipts, removing>>

(* Mutant: the rollback file alone is taken as proof of the swap. *)
RollbackExists(o) == rollback[o].previousGeneration # 0

RestoreSelected(o) == manifest.generation = NextGen(o) /\ manifest.image = o

(* The staged image is renamed into versions/ unless an interrupted        *)
(* attempt already did so; a completed swap only returns its evidence.     *)
SwapRestoreVersion ==
  /\ At("restore_swap", "apply")
  /\ op \in stagedManifest
  /\ Published
  /\ \/ /\ RestoreSelected(op)
        /\ rollback[op].previousGeneration # 0
        /\ Return(rollback[op].previousGeneration, NextGen(op))
        /\ UNCHANGED <<versions, stagedImage>>
     \/ /\ manifest.generation = Expected(op)
        /\ \/ /\ versions[op] = Absent /\ stagedImage[op] # Absent
              /\ versions' = [versions EXCEPT ![op] = stagedImage[op]]
              /\ stagedImage' = [stagedImage EXCEPT ![op] = Absent]
           \/ versions[op] # Absent /\ UNCHANGED <<versions, stagedImage>>
        /\ Goto("rollback")
  /\ UNCHANGED <<request, layout, manifest, stagedManifest, rollback, snaps, receipts, removing>>

SwapRestoreRollback ==
  /\ At("restore_swap", "rollback")
  /\ rollback' = [rollback EXCEPT ![op] =
       [previousGeneration |-> manifest.generation, previousImage |-> manifest.image]]
  /\ Goto("publish")
  /\ UNCHANGED <<request, tree, stagedImage, stagedManifest, snaps, receipts, removing>>

SwapRestorePublish ==
  /\ At("restore_swap", "publish")
  /\ manifest' = [generation |-> NextGen(op), image |-> op, sealed |-> FALSE]
  /\ Return(Expected(op), NextGen(op))
  /\ UNCHANGED <<request, layout, versions, restore, snaps, receipts, removing>>

FinalizeRestorePrevious ==
  /\ At("restore_finalize", "apply")
  /\ \/ /\ rollback[op].previousGeneration = 0
        /\ \E r \in receipts : /\ r.op = op /\ r.kind = "restore_swap"
                               /\ Return(r.previous, r.generation)
        /\ UNCHANGED versions
     \/ /\ rollback[op].previousGeneration # 0
        /\ RestoreSelected(op)
        /\ rollback[op].previousImage # op
        /\ versions' = [versions EXCEPT ![rollback[op].previousImage] = Absent]
        /\ Result(rollback[op].previousGeneration, NextGen(op)) /\ pc' = "staged_image"
  /\ UNCHANGED <<request, layout, manifest, restore, snaps, receipts, removing>>

FinalizeRestoreImage ==
  /\ At("restore_finalize", "staged_image")
  /\ stagedImage' = [stagedImage EXCEPT ![op] = Absent]
  /\ Goto("staged_manifest")
  /\ UNCHANGED <<request, tree, stagedManifest, rollback, snaps, receipts, removing>>

FinalizeRestoreManifest ==
  /\ At("restore_finalize", "staged_manifest")
  /\ stagedManifest' = stagedManifest \ {op}
  /\ Goto("rollback")
  /\ UNCHANGED <<request, tree, stagedImage, rollback, snaps, receipts, removing>>

FinalizeRestoreRollback ==
  /\ At("restore_finalize", "rollback")
  /\ rollback' = [rollback EXCEPT ![op] = NoRollback]
  /\ Goto("receipt")
  /\ UNCHANGED <<request, tree, stagedImage, stagedManifest, snaps, receipts, removing>>

AbortRestoreImage ==
  /\ At("restore_abort", "apply")
  /\ rollback[op].previousGeneration = 0
  /\ \/ /\ op \notin stagedManifest
        /\ Return(0, 0)
        /\ UNCHANGED stagedImage
     \/ /\ op \in stagedManifest
        /\ stagedImage' = [stagedImage EXCEPT ![op] = Absent]
        /\ Result(Expected(op), NextGen(op)) /\ pc' = "staged_manifest"
  /\ UNCHANGED <<request, tree, stagedManifest, rollback, snaps, receipts, removing>>

AbortRestoreManifest ==
  /\ At("restore_abort", "staged_manifest")
  /\ stagedManifest' = stagedManifest \ {op}
  /\ Goto("receipt")
  /\ UNCHANGED <<request, tree, stagedImage, rollback, snaps, receipts, removing>>

(***************************************************************************)
(* removeWorkspaceTree, run by DeleteWorkspace, by an import that finds    *)
(* the tree of its own interrupted attempt, and by an import's Abort.      *)
(***************************************************************************)
Removers == {"workspace_delete", "relocation_import", "import_abort"}

RemoveVersion(i) ==
  /\ holder \in Removers /\ pc = "versions"
  /\ versions[i] # Absent
  /\ versions' = [versions EXCEPT ![i] = Absent]
  /\ UNCHANGED <<request, layout, manifest, restore, snaps, receipts, lock, removing>>

RemoveVersionsDirectory ==
  /\ holder \in Removers /\ pc = "versions"
  /\ \A i \in Images : versions[i] = Absent
  /\ Goto("manifests")
  /\ UNCHANGED <<request, files, removing>>

RemoveManifest ==
  /\ holder \in Removers /\ pc = "manifests"
  /\ manifest' = NoManifest
  /\ removing' = FALSE
  /\ Goto("restores")
  /\ UNCHANGED <<request, layout, versions, restore, snaps, receipts>>

(* Mutant: staged images are left behind. *)
RemoveRestoreManifests ==
  /\ holder \in Removers /\ pc = "restores"
  /\ stagedManifest' = {}
  /\ rollback' = [o \in Ops |-> NoRollback]
  /\ Goto("directory")
  /\ UNCHANGED <<request, tree, stagedImage, snaps, receipts, removing>>

RemoveRestoreState ==
  /\ holder \in Removers /\ pc = "restores"
  /\ stagedImage' = [o \in Ops |-> Absent]
  /\ stagedManifest' = {}
  /\ rollback' = [o \in Ops |-> NoRollback]
  /\ Goto("directory")
  /\ UNCHANGED <<request, tree, snaps, receipts, removing>>

RemoveDirectory ==
  /\ holder \in Removers /\ pc = "directory"
  /\ layout' = FALSE
  /\ \/ holder = "workspace_delete" /\ Goto("receipts")
     \/ holder = "relocation_import" /\ Goto("stage")
     \/ holder = "import_abort" /\ Unlock
  /\ UNCHANGED <<request, manifest, versions, restore, snaps, receipts, removing>>

(***************************************************************************)
(* DeleteWorkspace.                                                        *)
(***************************************************************************)
DeleteWorkspace ==
  /\ At("workspace_delete", "apply")
  /\ Result(0, Expected(op))
  /\ \/ ~ Published /\ layout /\ pc' = "snapshots"
     \/ ~ Published /\ ~ layout /\ pc' = "receipts"
     \/ manifest.generation = Expected(op) /\ ~ RestorePending /\ pc' = "snapshots"
  /\ UNCHANGED <<request, files, removing>>

(* deleteWorkspaceSnapshots: a directory without a manifest ends the call  *)
(* with an error, so only complete Snapshots are removed.                  *)
DeleteWorkspaceSnapshotImage(s) ==
  /\ At("workspace_delete", "snapshots")
  /\ s \in snapDir /\ snapManifest[s] # 0 /\ snapImage[s] # Absent
  /\ snapImage' = [snapImage EXCEPT ![s] = Absent]
  /\ UNCHANGED <<request, tree, restore, snapDir, snapManifest, receipts, lock, removing>>

(* The manifest is unlinked and then the directory; the second disjunct is *)
(* an interruption between the two.                                        *)
DeleteWorkspaceSnapshotManifest(s) ==
  /\ At("workspace_delete", "snapshots")
  /\ s \in snapDir /\ snapManifest[s] # 0 /\ snapImage[s] = Absent
  /\ snapManifest' = [snapManifest EXCEPT ![s] = 0]
  /\ \/ snapDir' = snapDir \ {s} /\ UNCHANGED lock
     \/ UNCHANGED snapDir /\ Unlock
  /\ UNCHANGED <<request, tree, restore, snapImage, receipts, removing>>

DeleteWorkspaceTree ==
  /\ At("workspace_delete", "snapshots")
  /\ snapDir = {}
  /\ removing' = Published
  /\ Goto("versions")
  /\ UNCHANGED <<request, files>>

DeleteWorkspaceReceipt(r) ==
  /\ At("workspace_delete", "receipts")
  /\ receipts' = receipts \ {r}
  /\ UNCHANGED <<request, tree, restore, snaps, lock, removing>>

DeleteWorkspaceReceiptsDone ==
  /\ At("workspace_delete", "receipts")
  /\ receipts = {}
  /\ Goto("receipt")
  /\ UNCHANGED <<request, files, removing>>

(***************************************************************************)
(* Relocation: OpenRelocationExport, AbortRelocation and the import.       *)
(***************************************************************************)
SealRelocationExport ==
  /\ At("relocation_export", "apply")
  /\ manifest.generation = Expected(op)
  /\ ~ RestorePending
  /\ manifest' = [manifest EXCEPT !.sealed = TRUE]
  /\ Return(0, Expected(op))
  /\ UNCHANGED <<request, layout, versions, restore, snaps, receipts, removing>>

(* The second half of OpenRelocationExport takes the lock again. *)
OpenRelocationExport(o) ==
  /\ holder = "none"
  /\ HasReceipt(o, "relocation_export")
  /\ manifest.generation = Expected(o) /\ manifest.sealed
  /\ CurrentImagePresent
  /\ Lock("export", o, "stream")
  /\ UNCHANGED <<request, files, removing>>

AbortRelocation ==
  /\ At("relocation_abort", "apply")
  /\ manifest.generation = Expected(op)
  /\ manifest' = [manifest EXCEPT !.sealed = FALSE]
  /\ Return(0, Expected(op))
  /\ UNCHANGED <<request, layout, versions, restore, snaps, receipts, removing>>

BeginRelocationImport(o, i) ==
  /\ holder = "none"
  /\ Calls(o, "relocation_import", i)
  /\ ~ HasReceipt(o, "relocation_import")
  /\ \/ /\ Published
        /\ manifest.image = o /\ manifest.generation = i.generation
        /\ removing' = TRUE
        /\ Lock("relocation_import", o, "versions")
     \/ /\ ~ Published
        /\ Lock("relocation_import", o, "stage")
        /\ UNCHANGED removing
  /\ UNCHANGED files

(* The chunks are written to operation-scoped staging outside the tree,    *)
(* which the next attempt discards; Complete then publishes them.          *)
ImportLayout ==
  /\ At("relocation_import", "stage")
  /\ layout' = TRUE
  /\ Goto("rename")
  /\ UNCHANGED <<request, manifest, versions, restore, snaps, receipts, removing>>

ImportImage ==
  /\ At("relocation_import", "rename")
  /\ versions' = [versions EXCEPT ![op] = request[op].data]
  /\ Goto("publish")
  /\ UNCHANGED <<request, layout, manifest, restore, snaps, receipts, removing>>

ImportPublish ==
  /\ At("relocation_import", "publish")
  /\ manifest' = [generation |-> Expected(op), image |-> op, sealed |-> FALSE]
  /\ Return(0, Expected(op))
  /\ UNCHANGED <<request, layout, versions, restore, snaps, receipts, removing>>

(* relocationImport.Abort after an error: the tree it created is removed.  *)
AbortImport ==
  /\ holder = "relocation_import"
  /\ pc \in {"rename", "publish", "receipt"}
  /\ holder' = "import_abort" /\ pc' = "versions"
  /\ removing' = Published
  /\ UNCHANGED <<request, files, op, out>>

(***************************************************************************)
(* Compute: Open, guest writes through the attachment, and its Close.      *)
(***************************************************************************)
(* Mutant: compute attaches to a sealed Workspace. *)
OpenSealed ==
  /\ holder = "none"
  /\ ~ ImportUnacknowledged
  /\ Published /\ ~ StagedRestorePending /\ CurrentImagePresent
  /\ Lock("compute", NoOp, "attached")
  /\ UNCHANGED <<request, files, removing>>

Open ==
  /\ holder = "none"
  /\ ~ ImportUnacknowledged
  /\ Published
  /\ ~ manifest.sealed
  /\ ~ StagedRestorePending
  /\ CurrentImagePresent
  /\ Lock("compute", NoOp, "attached")
  /\ UNCHANGED <<request, files, removing>>

GuestWrite(d) ==
  /\ holder = "compute"
  /\ versions' = [versions EXCEPT ![manifest.image] = d]
  /\ UNCHANGED <<request, layout, manifest, restore, snaps, receipts, lock, removing>>

Close ==
  /\ holder \in {"compute", "export"}
  /\ Unlock
  /\ UNCHANGED <<request, files, removing>>

CreateStep == CreateLayout \/ CreateImage \/ CreatePublish

SnapshotStep ==
  \/ CreateSnapshotDirectory \/ CreateSnapshotImage \/ CreateSnapshotPublish
  \/ DeleteSnapshotImage \/ DeleteSnapshotManifest \/ DeleteSnapshotDirectory

RestoreStep ==
  \/ PrepareRestoreImage \/ PrepareRestorePublish
  \/ SwapRestoreVersion \/ SwapRestoreRollback \/ SwapRestorePublish
  \/ FinalizeRestorePrevious \/ FinalizeRestoreImage
  \/ FinalizeRestoreManifest \/ FinalizeRestoreRollback
  \/ AbortRestoreImage \/ AbortRestoreManifest

RemoveStep ==
  \/ \E i \in Images : RemoveVersion(i)
  \/ RemoveVersionsDirectory \/ RemoveManifest \/ RemoveRestoreState \/ RemoveDirectory

DeleteStep ==
  \/ DeleteWorkspace
  \/ \E s \in Snapshots : DeleteWorkspaceSnapshotImage(s) \/ DeleteWorkspaceSnapshotManifest(s)
  \/ DeleteWorkspaceTree
  \/ \E r \in receipts : DeleteWorkspaceReceipt(r)
  \/ DeleteWorkspaceReceiptsDone

RelocationStep ==
  \/ SealRelocationExport \/ AbortRelocation
  \/ ImportLayout \/ ImportImage \/ ImportPublish \/ AbortImport

Next ==
  \/ \E o \in Ops, k \in Kinds, i \in Requests : mutate(o, k, i)
  \/ recordReceipt \/ Interrupt
  \/ CreateStep \/ AdvanceGeneration \/ SnapshotStep \/ RestoreStep
  \/ RemoveStep \/ DeleteStep \/ RelocationStep
  \/ \E o \in Ops : OpenRelocationExport(o)
  \/ \E o \in Ops, i \in Requests : BeginRelocationImport(o, i)
  \/ Open \/ Close
  \/ \E d \in Data : GuestWrite(d)

Spec == Init /\ [][Next]_vars

(***************************************************************************)
(* Properties.                                                             *)
(***************************************************************************)
(* Every file holds what the store's manifests and receipts may hold.      *)
TypeOK ==
  /\ request \in [Ops -> AllRequests \cup {NoRequest}]
  /\ layout \in BOOLEAN
  /\ manifest \in [generation : 0..MaxGeneration, image : Images, sealed : BOOLEAN]
  /\ versions \in [Images -> File]
  /\ stagedImage \in [Ops -> File]
  /\ stagedManifest \in SUBSET Ops
  /\ rollback \in [Ops -> [previousGeneration : 0..MaxGeneration, previousImage : Images]]
  /\ snapDir \in SUBSET Snapshots
  /\ snapImage \in [Snapshots -> File]
  /\ snapManifest \in [Snapshots -> 0..MaxGeneration]
  /\ receipts \in SUBSET [op : Ops, kind : Kinds, previous : 0..MaxGeneration,
                          generation : 0..MaxGeneration]
  /\ holder \in Kinds \cup {"none", "compute", "export", "import_abort"}
  /\ op \in Ops \cup {NoOp}
  /\ out \in [previous : 0..MaxGeneration, generation : 0..MaxGeneration]
  /\ removing \in BOOLEAN

(* The image the current manifest selects exists at every instant, through *)
(* every crash point of create, restore and relocation, until a removal of *)
(* the whole tree begins: FinalizeRestore never unlinks it (store.go:1023).*)
CurrentImageNeverLost == Published /\ ~ removing => CurrentImagePresent

(* At most one restore has staged or rollback state, whatever order of     *)
(* prepare, swap, finalize and abort calls and interruptions is run.       *)
OneRestorePending == \A p, q \in stagedManifest \cup RollbackOps : p = q

(* A receipt is recorded only after its effect is durable: no published    *)
(* manifest is older than the generation a receipt reports as current      *)
(* (prepare and abort receipts report the generation they aim at).         *)
ReceiptsNotAhead ==
  Published => \A r \in receipts :
    r.kind \notin {"restore_prepare", "restore_abort"} => r.generation <= manifest.generation

(* When DeleteWorkspace is about to record its receipt, no image,          *)
(* manifest, Snapshot, staging, rollback or receipt file is left.          *)
DeleteLeavesNothing ==
  At("workspace_delete", "receipt") =>
    /\ ~ layout /\ ~ Published
    /\ \A i \in Images : versions[i] = Absent
    /\ \A o \in Ops : stagedImage[o] = Absent
    /\ ~ RestorePending
    /\ snapDir = {} /\ receipts = {}

(* The bytes of a sealed Workspace do not change until it is unsealed,     *)
(* restored or removed: what an export streams is what was sealed.         *)
SealedBytesStable ==
  [][manifest.sealed /\ manifest'.sealed /\ ~ removing'
       => versions'[manifest'.image] = versions[manifest.image]]_vars
=============================================================================
