------------------------ MODULE WorkspaceStoreProofs ------------------------
(***************************************************************************)
(* The inductive invariant of WorkspaceStore and its theorems, for any     *)
(* sets of operations, Snapshots and image contents and any bound on       *)
(* generations.                                                            *)
(*                                                                         *)
(* The first part shows that a step keeps its types, its lock, its         *)
(* restores and its current image; the second that it keeps what each      *)
(* mutation has established between its file steps, what the files say     *)
(* about each other, and receipts and results behind the manifest.         *)
(***************************************************************************)
EXTENDS WorkspaceStore, TLAPS

(***************************************************************************)
(* Facts about requests and the mutation kinds that serve them.            *)
(***************************************************************************)
LEMMA KindsList ==
  Kinds = { "workspace_create", "workspace_clone", "generation_advance",
            "snapshot_create", "snapshot_delete",
            "restore_prepare", "restore_swap", "restore_finalize", "restore_abort",
            "workspace_delete", "relocation_export", "relocation_abort",
            "relocation_import" }
  BY DEF Kinds, Serves

(* Whoever holds the lock for a mutation is an operation whose request the *)
(* mutation serves (Store.mutate is entered with the operation's request). *)
HolderServes ==
  holder \in Kinds => op \in Ops /\ <<request[op].kind, holder>> \in Serves

(* The generation, data and Snapshot that each kind of request carries.    *)
LEMMA RequestRanges ==
  ASSUME NEW i \in AllRequests
  PROVE  /\ i.generation \in 0..MaxGeneration
         /\ i.kind \in {"stop", "restore"} => i.generation + 1 \in 1..MaxGeneration
         /\ i.kind # "snapshot_delete" => i.generation # 0
         /\ i.kind \in {"create", "clone"} => i.generation = 1
         /\ i.kind \in {"create", "clone", "relocate_in"} => i.data \in Data
         /\ i.kind \in {"snapshot_create", "snapshot_delete", "restore"} => i.snapshot \in Snapshots
  BY StoreAssumption DEF AllRequests, Request, Generations

(* The kind of request behind each mutation of the store.                  *)
LEMMA ServedBy ==
  ASSUME NEW k, NEW h, <<k, h>> \in Serves
  PROVE  /\ h \in CreateKinds => k \in {"create", "clone"}
         /\ h = "generation_advance" => k = "stop"
         /\ h = "snapshot_create" => k = "snapshot_create"
         /\ h = "snapshot_delete" <=> k = "snapshot_delete"
         /\ h \in {"restore_prepare", "restore_swap", "restore_finalize", "restore_abort"} => k = "restore"
         /\ h = "relocation_import" => k = "relocate_in"
         /\ h \in Kinds
  BY DEF Serves, CreateKinds, Kinds

(***************************************************************************)
(* The inductive invariant.                                                *)
(***************************************************************************)
NothingOnDisk ==
  /\ ~ Published
  /\ \A i \in Images : versions[i] = Absent
  /\ \A o \in Ops : stagedImage[o] = Absent
  /\ stagedManifest = {}
  /\ \A o \in Ops : rollback[o].previousGeneration = 0
  /\ snapDir = {}

(* What a mutation has established when it is about to take a file step. *)
CreateSteps ==
  holder \in CreateKinds =>
    /\ pc \in {"clone", "publish"} => layout /\ ~ Published
    /\ pc = "publish" => versions[Base] # Absent
    /\ \A r \in receipts : r.generation <= Expected(op)

(* CreateSnapshot clones at the generation it checked; DeleteSnapshot      *)
(* removes a directory after its manifest.                                 *)
SnapshotSteps ==
  /\ At("snapshot_create", "clone") \/ At("snapshot_create", "publish") =>
       /\ Published /\ manifest.generation = Expected(op)
       /\ SnapshotOf(op) \in snapDir
  /\ At("snapshot_delete", "directory") => snapManifest[SnapshotOf(op)] = 0

(* PrepareRestore publishes alone; SwapRestore selects an image that is    *)
(* already renamed.                                                        *)
RestoreSteps ==
  /\ At("restore_prepare", "publish") => Published /\ PendingRestores \subseteq {op}
  /\ At("restore_swap", "rollback") \/ At("restore_swap", "publish") =>
       /\ Published /\ versions[op] # Absent
       /\ manifest.generation = Expected(op)
  /\ At("restore_swap", "rollback") => op \in stagedManifest

(* A relocation import publishes into an empty Workspace, at a generation  *)
(* no receipt has passed.                                                  *)
ImportSteps ==
  holder = "relocation_import" =>
    /\ pc \in {"stage", "rename", "publish"} => ~ Published
    /\ pc \in {"rename", "publish", "receipt"} => layout
    /\ pc = "publish" => versions[op] # Absent
    /\ \A r \in receipts : r.generation <= Expected(op)

(* removeWorkspaceTree works inward: images, manifests, restore state,     *)
(* directory.                                                              *)
RemoveSteps ==
  holder \in Removers =>
    /\ pc \in {"versions", "manifests"} /\ Published => removing
    /\ pc \in {"versions", "manifests", "restores", "directory"} => snapDir = {}
    /\ pc \in {"manifests", "restores", "directory"} => \A i \in Images : versions[i] = Absent
    /\ pc \in {"restores", "directory"} => ~ Published
    /\ pc = "directory" =>
         /\ \A o \in Ops : stagedImage[o] = Absent
         /\ stagedManifest = {}
         /\ \A o \in Ops : rollback[o].previousGeneration = 0

(* DeleteWorkspace removes receipts after the tree and records its own     *)
(* after both.                                                             *)
DeleteSteps ==
  holder = "workspace_delete" =>
    /\ pc \in {"receipts", "receipt"} => ~ layout
    /\ pc = "receipt" => receipts = {}

(* Snapshots exist only beside a published manifest, never at a newer      *)
(* generation, and not before an import is acknowledged.                   *)
SnapshotsBesideManifest ==
  /\ \A s \in Snapshots : snapManifest[s] # 0 => s \in snapDir
  /\ ~ Published => snapDir = {}
  /\ \A s \in Snapshots : Published => snapManifest[s] <= manifest.generation
  /\ ImportUnacknowledged => snapDir = {}
  /\ holder \in {"relocation_import", "import_abort"} => snapDir = {}
  /\ holder \in Kinds \ {"relocation_import"} => ~ ImportUnacknowledged
  /\ Published /\ manifest.image \in Ops =>
       request[manifest.image].kind \in {"restore", "relocate_in"}

(* The generation a mutation is about to report is already on disk.        *)
ResultNotAhead ==
  Published /\ holder \notin {"restore_prepare", "restore_abort"} =>
    out.generation <= manifest.generation

(* The inductive invariant: the properties, and what they rest on at each  *)
(* file step.                                                              *)
IInv ==
  /\ TypeOK
  /\ HolderServes
  /\ CurrentImageNeverLost
  /\ OneRestorePending
  /\ ReceiptsNotAhead
  /\ removing => Published
  /\ manifest.sealed => Published
  /\ holder = "compute" => Published /\ ~ manifest.sealed
  /\ ~ layout => NothingOnDisk
  /\ CreateSteps /\ SnapshotSteps /\ RestoreSteps /\ ImportSteps
  /\ RemoveSteps /\ DeleteSteps
  /\ SnapshotsBesideManifest
  /\ ResultNotAhead

(***************************************************************************)
(* Frames: which steps can touch which files, and which step leaves whom   *)
(* holding the lock.                                                       *)
(***************************************************************************)
USE DEF At, Goto, Result, Return, Lock, Unlock, tree, restore, snaps, files, lock, vars

(* The two ways of entering a mutation.                                    *)
Enter ==
  \/ \E o \in Ops, k \in Kinds, i \in Requests : mutate(o, k, i)
  \/ \E o \in Ops, i \in Requests : BeginRelocationImport(o, i)

(* Entering a mutation changes no file and takes the free lock.            *)
LEMMA EnterFrames ==
  ASSUME Enter
  PROVE  /\ UNCHANGED files
         /\ UNCHANGED removing \/ \E o \in Ops, i \in Requests : BeginRelocationImport(o, i)
         /\ holder = "none" /\ holder' \in Kinds /\ op' \in Ops /\ out' = NoResult
         /\ pc' \in {"apply", "versions", "stage"}
         /\ pc' # "apply" => holder' = "relocation_import"
  BY KindsList, Zenon DEF Enter, mutate, BeginRelocationImport

(* Compute, exports, receipts and interruptions touch none of the files    *)
(* but the bytes of the current image and the receipts.                    *)
LEMMA OtherFrames ==
  /\ recordReceipt => UNCHANGED <<request, tree, restore, snaps, removing>> /\ Unlock
  /\ Interrupt => UNCHANGED <<request, files, removing>> /\ Unlock
  /\ AdvanceGeneration =>
       /\ UNCHANGED <<request, layout, versions, restore, snaps, receipts, removing, holder, op>>
       /\ holder = "generation_advance"
  /\ (\E o \in Ops : OpenRelocationExport(o)) =>
       /\ UNCHANGED <<request, files, removing>>
       /\ holder' = "export" /\ op' \in Ops /\ out' = NoResult
  /\ Open =>
       /\ UNCHANGED <<request, files, removing>>
       /\ holder' = "compute" /\ op' = NoOp /\ out' = NoResult
  /\ Close => UNCHANGED <<request, files, removing>> /\ Unlock
  /\ (\E d \in Data : GuestWrite(d)) =>
       /\ UNCHANGED <<request, layout, manifest, restore, snaps, receipts, lock, removing>>
       /\ holder = "compute"
  <1>1. recordReceipt => UNCHANGED <<request, tree, restore, snaps, removing>> /\ Unlock
    BY Zenon DEF recordReceipt
  <1>2. Interrupt => UNCHANGED <<request, files, removing>> /\ Unlock
    BY Zenon DEF Interrupt
  <1>3. AdvanceGeneration =>
       /\ UNCHANGED <<request, layout, versions, restore, snaps, receipts, removing, holder, op>>
       /\ holder = "generation_advance"
    BY Zenon DEF AdvanceGeneration
  <1>4. (\E o \in Ops : OpenRelocationExport(o)) =>
       /\ UNCHANGED <<request, files, removing>>
       /\ holder' = "export" /\ op' \in Ops /\ out' = NoResult
    BY Zenon DEF OpenRelocationExport
  <1>5. Open =>
       /\ UNCHANGED <<request, files, removing>>
       /\ holder' = "compute" /\ op' = NoOp /\ out' = NoResult
    BY Zenon DEF Open
  <1>6. Close => UNCHANGED <<request, files, removing>> /\ Unlock
    BY Zenon DEF Close
  <1>7. (\E d \in Data : GuestWrite(d)) =>
       /\ UNCHANGED <<request, layout, manifest, restore, snaps, receipts, lock, removing>>
       /\ holder = "compute"
    BY Zenon DEF GuestWrite
  <1>. QED
    BY <1>1, <1>2, <1>3, <1>4, <1>5, <1>6, <1>7, Zenon

(* What the steps of each mutation leave alone, and which of them touches  *)
(* the rest.                                                               *)
LEMMA CreateFrames ==
  ASSUME CreateStep
  PROVE  /\ UNCHANGED <<request, restore, snaps, receipts, removing, holder, op>>
         /\ UNCHANGED layout \/ CreateLayout
         /\ UNCHANGED manifest \/ CreatePublish
         /\ UNCHANGED versions \/ CreateImage
         /\ UNCHANGED out \/ CreateLayout \/ CreatePublish
         /\ holder \in CreateKinds
  BY Zenon DEF CreateStep, CreateLayout, CreateImage, CreatePublish

(* CreateSnapshot and DeleteSnapshot touch only Snapshot files.            *)
LEMMA SnapshotFrames ==
  ASSUME SnapshotStep
  PROVE  /\ UNCHANGED <<request, tree, restore, receipts, removing, holder, op>>
         /\ UNCHANGED snapDir \/ CreateSnapshotDirectory \/ DeleteSnapshotDirectory
         /\ UNCHANGED snapImage \/ CreateSnapshotImage \/ DeleteSnapshotImage
         /\ UNCHANGED snapManifest \/ CreateSnapshotPublish \/ DeleteSnapshotManifest
         /\ UNCHANGED out \/ CreateSnapshotDirectory \/ CreateSnapshotPublish \/ DeleteSnapshotImage
         /\ holder \in {"snapshot_create", "snapshot_delete"}
  BY Zenon DEF SnapshotStep, CreateSnapshotDirectory, CreateSnapshotImage, CreateSnapshotPublish,
     DeleteSnapshotImage, DeleteSnapshotManifest, DeleteSnapshotDirectory

(* The four restore mutations touch no Snapshot and no receipt.            *)
LEMMA RestoreFrames ==
  ASSUME RestoreStep
  PROVE  /\ UNCHANGED <<request, layout, snaps, receipts, removing, holder, op>>
         /\ UNCHANGED manifest \/ SwapRestorePublish
         /\ UNCHANGED versions \/ SwapRestoreVersion \/ FinalizeRestorePrevious
         /\ UNCHANGED stagedImage \/ PrepareRestoreImage \/ SwapRestoreVersion
              \/ FinalizeRestoreImage \/ AbortRestoreImage
         /\ UNCHANGED stagedManifest \/ PrepareRestorePublish \/ FinalizeRestoreManifest
              \/ AbortRestoreManifest
         /\ UNCHANGED rollback \/ SwapRestoreRollback \/ FinalizeRestoreRollback
         /\ UNCHANGED out \/ PrepareRestoreImage \/ PrepareRestorePublish \/ SwapRestoreVersion
              \/ SwapRestorePublish \/ FinalizeRestorePrevious \/ AbortRestoreImage
         /\ holder \in {"restore_prepare", "restore_swap", "restore_finalize", "restore_abort"}
  <1>. USE DEF RestoreStep, PrepareRestoreImage, PrepareRestorePublish, SwapRestoreVersion,
     SwapRestoreRollback, SwapRestorePublish, FinalizeRestorePrevious,
     FinalizeRestoreImage, FinalizeRestoreManifest, FinalizeRestoreRollback,
     AbortRestoreImage, AbortRestoreManifest
  <1>1. /\ UNCHANGED <<request, layout, snaps, receipts, removing, holder, op>>
        /\ holder \in {"restore_prepare", "restore_swap", "restore_finalize", "restore_abort"}
    BY Zenon
  <1>2. UNCHANGED manifest \/ SwapRestorePublish
    BY Zenon
  <1>3. UNCHANGED versions \/ SwapRestoreVersion \/ FinalizeRestorePrevious
    BY Zenon
  <1>4. UNCHANGED stagedImage \/ PrepareRestoreImage \/ SwapRestoreVersion
          \/ FinalizeRestoreImage \/ AbortRestoreImage
    BY Zenon
  <1>5. UNCHANGED stagedManifest \/ PrepareRestorePublish \/ FinalizeRestoreManifest
          \/ AbortRestoreManifest
    BY Zenon
  <1>6. UNCHANGED rollback \/ SwapRestoreRollback \/ FinalizeRestoreRollback
    BY Zenon
  <1>7. UNCHANGED out \/ PrepareRestoreImage \/ PrepareRestorePublish \/ SwapRestoreVersion
          \/ SwapRestorePublish \/ FinalizeRestorePrevious \/ AbortRestoreImage
    BY Zenon
  <1>. HIDE DEF RestoreStep, PrepareRestoreImage, PrepareRestorePublish, SwapRestoreVersion,
     SwapRestoreRollback, SwapRestorePublish, FinalizeRestorePrevious,
     FinalizeRestoreImage, FinalizeRestoreManifest, FinalizeRestoreRollback,
     AbortRestoreImage, AbortRestoreManifest
  <1>. QED
    BY <1>1, <1>2, <1>3, <1>4, <1>5, <1>6, <1>7, Zenon

(* removeWorkspaceTree touches neither Snapshots nor receipts.             *)
LEMMA RemoveFrames ==
  ASSUME RemoveStep
  PROVE  /\ UNCHANGED <<request, snaps, receipts>>
         /\ UNCHANGED layout \/ RemoveDirectory
         /\ UNCHANGED manifest \/ RemoveManifest
         /\ UNCHANGED versions \/ \E i \in Images : RemoveVersion(i)
         /\ UNCHANGED restore \/ RemoveRestoreState
         /\ UNCHANGED removing \/ RemoveManifest
         /\ UNCHANGED <<holder, op, out>> \/ (RemoveDirectory /\ Unlock)
         /\ holder \in Removers
  BY Zenon DEF RemoveStep, RemoveVersion, RemoveVersionsDirectory, RemoveManifest,
     RemoveRestoreState, RemoveDirectory

(* DeleteWorkspace itself removes Snapshots and receipts.                  *)
LEMMA DeleteFrames ==
  ASSUME DeleteStep
  PROVE  /\ UNCHANGED <<request, tree, restore>>
         /\ UNCHANGED <<snapDir, snapManifest>> \/ \E s \in Snapshots : DeleteWorkspaceSnapshotManifest(s)
         /\ UNCHANGED snapImage \/ \E s \in Snapshots : DeleteWorkspaceSnapshotImage(s)
         /\ UNCHANGED receipts \/ \E r \in receipts : DeleteWorkspaceReceipt(r)
         /\ UNCHANGED removing \/ DeleteWorkspaceTree
         /\ UNCHANGED <<holder, op>> \/ Unlock
         /\ UNCHANGED out \/ DeleteWorkspace \/ Unlock
         /\ holder = "workspace_delete"
  BY Zenon DEF DeleteStep, DeleteWorkspace, DeleteWorkspaceSnapshotImage,
     DeleteWorkspaceSnapshotManifest, DeleteWorkspaceTree, DeleteWorkspaceReceipt,
     DeleteWorkspaceReceiptsDone

(* A relocation touches the manifest and, importing, the tree.             *)
LEMMA RelocationFrames ==
  ASSUME RelocationStep
  PROVE  /\ UNCHANGED <<request, restore, snaps, receipts, op>>
         /\ UNCHANGED layout \/ ImportLayout
         /\ UNCHANGED manifest \/ SealRelocationExport \/ AbortRelocation \/ ImportPublish
         /\ UNCHANGED versions \/ ImportImage
         /\ UNCHANGED <<holder, removing>> \/ AbortImport
         /\ UNCHANGED out \/ SealRelocationExport \/ AbortRelocation \/ ImportPublish
         /\ holder \in {"relocation_export", "relocation_abort", "relocation_import"}
         /\ AbortImport => holder = "relocation_import" /\ holder' = "import_abort"
  BY Zenon DEF RelocationStep, SealRelocationExport, AbortRelocation, ImportLayout,
     ImportImage, ImportPublish, AbortImport

(* Every file is touched only by the listed steps of the store.            *)
LEMMA Frames ==
  ASSUME Next
  PROVE  /\ UNCHANGED request \/ Enter
         /\ UNCHANGED layout \/ CreateLayout \/ RemoveDirectory \/ ImportLayout
         /\ UNCHANGED manifest \/ CreatePublish \/ AdvanceGeneration \/ SwapRestorePublish
              \/ RemoveManifest \/ SealRelocationExport \/ AbortRelocation \/ ImportPublish
         /\ UNCHANGED versions \/ CreateImage \/ SwapRestoreVersion \/ FinalizeRestorePrevious
              \/ (\E i \in Images : RemoveVersion(i)) \/ ImportImage
              \/ \E d \in Data : GuestWrite(d)
         /\ UNCHANGED stagedImage \/ PrepareRestoreImage \/ SwapRestoreVersion
              \/ FinalizeRestoreImage \/ AbortRestoreImage \/ RemoveRestoreState
         /\ UNCHANGED stagedManifest \/ PrepareRestorePublish \/ FinalizeRestoreManifest
              \/ AbortRestoreManifest \/ RemoveRestoreState
         /\ UNCHANGED rollback \/ SwapRestoreRollback \/ FinalizeRestoreRollback
              \/ RemoveRestoreState
         /\ UNCHANGED snapDir \/ CreateSnapshotDirectory \/ DeleteSnapshotDirectory
              \/ \E s \in Snapshots : DeleteWorkspaceSnapshotManifest(s)
         /\ UNCHANGED snapImage \/ CreateSnapshotImage \/ DeleteSnapshotImage
              \/ \E s \in Snapshots : DeleteWorkspaceSnapshotImage(s)
         /\ UNCHANGED snapManifest \/ CreateSnapshotPublish \/ DeleteSnapshotManifest
              \/ \E s \in Snapshots : DeleteWorkspaceSnapshotManifest(s)
         /\ UNCHANGED receipts \/ recordReceipt \/ \E r \in receipts : DeleteWorkspaceReceipt(r)
         /\ UNCHANGED removing \/ RemoveManifest \/ DeleteWorkspaceTree \/ AbortImport
              \/ \E o \in Ops, i \in Requests : BeginRelocationImport(o, i)
  <1>a. \/ Enter \/ recordReceipt \/ Interrupt \/ Open \/ Close
        \/ CreateStep \/ AdvanceGeneration \/ SnapshotStep \/ RestoreStep
        \/ RemoveStep \/ DeleteStep \/ RelocationStep
        \/ (\E o \in Ops : OpenRelocationExport(o)) \/ (\E d \in Data : GuestWrite(d))
    BY Zenon DEF Next, Enter
  <1>1. UNCHANGED request \/ Enter
    BY OtherFrames, EnterFrames, CreateFrames, SnapshotFrames, RestoreFrames,
       RemoveFrames, DeleteFrames, RelocationFrames, <1>a, Zenon
  <1>2. UNCHANGED layout \/ CreateLayout \/ RemoveDirectory \/ ImportLayout
    BY OtherFrames, EnterFrames, CreateFrames, SnapshotFrames, RestoreFrames,
       RemoveFrames, DeleteFrames, RelocationFrames, <1>a, Zenon
  <1>3. UNCHANGED manifest \/ CreatePublish \/ AdvanceGeneration \/ SwapRestorePublish
          \/ RemoveManifest \/ SealRelocationExport \/ AbortRelocation \/ ImportPublish
    BY OtherFrames, EnterFrames, CreateFrames, SnapshotFrames, RestoreFrames,
       RemoveFrames, DeleteFrames, RelocationFrames, <1>a, Zenon
  <1>4. UNCHANGED versions \/ CreateImage \/ SwapRestoreVersion \/ FinalizeRestorePrevious
          \/ (\E i \in Images : RemoveVersion(i)) \/ ImportImage
          \/ \E d \in Data : GuestWrite(d)
    BY OtherFrames, EnterFrames, CreateFrames, SnapshotFrames, RestoreFrames,
       RemoveFrames, DeleteFrames, RelocationFrames, <1>a, Zenon
  <1>5. UNCHANGED stagedImage \/ PrepareRestoreImage \/ SwapRestoreVersion
          \/ FinalizeRestoreImage \/ AbortRestoreImage \/ RemoveRestoreState
    BY OtherFrames, EnterFrames, CreateFrames, SnapshotFrames, RestoreFrames,
       RemoveFrames, DeleteFrames, RelocationFrames, <1>a, Zenon
  <1>6. UNCHANGED stagedManifest \/ PrepareRestorePublish \/ FinalizeRestoreManifest
          \/ AbortRestoreManifest \/ RemoveRestoreState
    BY OtherFrames, EnterFrames, CreateFrames, SnapshotFrames, RestoreFrames,
       RemoveFrames, DeleteFrames, RelocationFrames, <1>a, Zenon
  <1>7. UNCHANGED rollback \/ SwapRestoreRollback \/ FinalizeRestoreRollback
          \/ RemoveRestoreState
    BY OtherFrames, EnterFrames, CreateFrames, SnapshotFrames, RestoreFrames,
       RemoveFrames, DeleteFrames, RelocationFrames, <1>a, Zenon
  <1>8. UNCHANGED snapDir \/ CreateSnapshotDirectory \/ DeleteSnapshotDirectory
          \/ \E s \in Snapshots : DeleteWorkspaceSnapshotManifest(s)
    BY OtherFrames, EnterFrames, CreateFrames, SnapshotFrames, RestoreFrames,
       RemoveFrames, DeleteFrames, RelocationFrames, <1>a, Zenon
  <1>9. UNCHANGED snapImage \/ CreateSnapshotImage \/ DeleteSnapshotImage
          \/ \E s \in Snapshots : DeleteWorkspaceSnapshotImage(s)
    BY OtherFrames, EnterFrames, CreateFrames, SnapshotFrames, RestoreFrames,
       RemoveFrames, DeleteFrames, RelocationFrames, <1>a, Zenon
  <1>10. UNCHANGED snapManifest \/ CreateSnapshotPublish \/ DeleteSnapshotManifest
          \/ \E s \in Snapshots : DeleteWorkspaceSnapshotManifest(s)
    BY OtherFrames, EnterFrames, CreateFrames, SnapshotFrames, RestoreFrames,
       RemoveFrames, DeleteFrames, RelocationFrames, <1>a, Zenon
  <1>11. UNCHANGED receipts \/ recordReceipt \/ \E r \in receipts : DeleteWorkspaceReceipt(r)
    BY OtherFrames, EnterFrames, CreateFrames, SnapshotFrames, RestoreFrames,
       RemoveFrames, DeleteFrames, RelocationFrames, <1>a, Zenon
  <1>12. UNCHANGED removing \/ RemoveManifest \/ DeleteWorkspaceTree \/ AbortImport
          \/ \E o \in Ops, i \in Requests : BeginRelocationImport(o, i)
    BY OtherFrames, EnterFrames, CreateFrames, SnapshotFrames, RestoreFrames,
       RemoveFrames, DeleteFrames, RelocationFrames, <1>a, Zenon
  <1>. QED
    BY <1>1, <1>2, <1>3, <1>4, <1>5, <1>6, <1>7, <1>8, <1>9, <1>10, <1>11, <1>12, Zenon

(* Who holds the lock after a step, and what it is about to report.        *)
LEMMA LockFrames ==
  ASSUME Next
  PROVE  /\ Unlock \/ Enter \/ UNCHANGED <<holder, op>> \/ AbortImport
              \/ (holder' = "export" /\ op' \in Ops /\ out' = NoResult)
              \/ (Open /\ holder' = "compute" /\ op' = NoOp /\ out' = NoResult)
         /\ holder' \in Kinds => Enter \/ UNCHANGED <<holder, op>>
         /\ holder' \in CreateKinds => Enter \/ CreateStep
         /\ holder' \in {"snapshot_create", "snapshot_delete"} => Enter \/ SnapshotStep
         /\ holder' \in {"restore_prepare", "restore_swap"} => Enter \/ RestoreStep
         /\ holder' = "relocation_import" => Enter \/ RelocationStep \/ RemoveStep
         /\ holder' \in Removers => Enter \/ RemoveStep \/ DeleteStep \/ RelocationStep
         /\ holder' = "workspace_delete" => Enter \/ RemoveStep \/ DeleteStep
         /\ holder' = "compute" => Open \/ \E d \in Data : GuestWrite(d)
         /\ holder' = "import_abort" => holder \in {"relocation_import", "import_abort"}
         /\ out' = NoResult \/ UNCHANGED out \/ CreateLayout \/ CreatePublish \/ AdvanceGeneration
              \/ CreateSnapshotDirectory \/ CreateSnapshotPublish \/ DeleteSnapshotImage
              \/ PrepareRestoreImage \/ PrepareRestorePublish \/ SwapRestoreVersion
              \/ SwapRestorePublish \/ FinalizeRestorePrevious \/ AbortRestoreImage
              \/ DeleteWorkspace \/ SealRelocationExport \/ AbortRelocation \/ ImportPublish
  <1>a. \/ Enter \/ recordReceipt \/ Interrupt \/ Open \/ Close
        \/ CreateStep \/ AdvanceGeneration \/ SnapshotStep \/ RestoreStep
        \/ RemoveStep \/ DeleteStep \/ RelocationStep
        \/ (\E o \in Ops : OpenRelocationExport(o)) \/ (\E d \in Data : GuestWrite(d))
    BY Zenon DEF Next, Enter
  <1>1. Unlock \/ Enter \/ UNCHANGED <<holder, op>> \/ AbortImport
          \/ (holder' = "export" /\ op' \in Ops /\ out' = NoResult)
          \/ (Open /\ holder' = "compute" /\ op' = NoOp /\ out' = NoResult)
    BY OtherFrames, EnterFrames, CreateFrames, SnapshotFrames, RestoreFrames,
       RemoveFrames, DeleteFrames, RelocationFrames, <1>a, KindsList, Zenon DEF CreateKinds, Removers
  <1>2. holder' \in Kinds => Enter \/ UNCHANGED <<holder, op>>
    BY OtherFrames, EnterFrames, CreateFrames, SnapshotFrames, RestoreFrames,
       RemoveFrames, DeleteFrames, RelocationFrames, <1>a, KindsList, Zenon DEF CreateKinds, Removers
  <1>3. holder' \in CreateKinds => Enter \/ CreateStep
    BY OtherFrames, EnterFrames, CreateFrames, SnapshotFrames, RestoreFrames,
       RemoveFrames, DeleteFrames, RelocationFrames, <1>a, KindsList, Zenon DEF CreateKinds, Removers
  <1>4. holder' \in {"snapshot_create", "snapshot_delete"} => Enter \/ SnapshotStep
    BY OtherFrames, EnterFrames, CreateFrames, SnapshotFrames, RestoreFrames,
       RemoveFrames, DeleteFrames, RelocationFrames, <1>a, KindsList, Zenon DEF CreateKinds, Removers
  <1>5. holder' \in {"restore_prepare", "restore_swap"} => Enter \/ RestoreStep
    BY OtherFrames, EnterFrames, CreateFrames, SnapshotFrames, RestoreFrames,
       RemoveFrames, DeleteFrames, RelocationFrames, <1>a, KindsList, Zenon DEF CreateKinds, Removers
  <1>6. holder' = "relocation_import" => Enter \/ RelocationStep \/ RemoveStep
    BY OtherFrames, EnterFrames, CreateFrames, SnapshotFrames, RestoreFrames,
       RemoveFrames, DeleteFrames, RelocationFrames, <1>a, KindsList, Zenon DEF CreateKinds, Removers
  <1>7. holder' \in Removers => Enter \/ RemoveStep \/ DeleteStep \/ RelocationStep
    BY OtherFrames, EnterFrames, CreateFrames, SnapshotFrames, RestoreFrames,
       RemoveFrames, DeleteFrames, RelocationFrames, <1>a, KindsList, Zenon DEF CreateKinds, Removers
  <1>8. holder' = "workspace_delete" => Enter \/ RemoveStep \/ DeleteStep
    BY OtherFrames, EnterFrames, CreateFrames, SnapshotFrames, RestoreFrames,
       RemoveFrames, DeleteFrames, RelocationFrames, <1>a, KindsList, Zenon DEF CreateKinds, Removers
  <1>9. holder' = "compute" => Open \/ \E d \in Data : GuestWrite(d)
    BY OtherFrames, EnterFrames, CreateFrames, SnapshotFrames, RestoreFrames,
       RemoveFrames, DeleteFrames, RelocationFrames, <1>a, KindsList, Zenon DEF CreateKinds, Removers
  <1>10. holder' = "import_abort" => holder \in {"relocation_import", "import_abort"}
    BY OtherFrames, EnterFrames, CreateFrames, SnapshotFrames, RestoreFrames,
       RemoveFrames, DeleteFrames, RelocationFrames, <1>a, KindsList, Zenon DEF CreateKinds, Removers
  <1>11. out' = NoResult \/ UNCHANGED out \/ CreateLayout \/ CreatePublish \/ AdvanceGeneration
          \/ CreateSnapshotDirectory \/ CreateSnapshotPublish \/ DeleteSnapshotImage
          \/ PrepareRestoreImage \/ PrepareRestorePublish \/ SwapRestoreVersion
          \/ SwapRestorePublish \/ FinalizeRestorePrevious \/ AbortRestoreImage
          \/ DeleteWorkspace \/ SealRelocationExport \/ AbortRelocation \/ ImportPublish
    BY OtherFrames, EnterFrames, CreateFrames, SnapshotFrames, RestoreFrames,
       RemoveFrames, DeleteFrames, RelocationFrames, <1>a, KindsList, Zenon DEF CreateKinds, Removers
  <1>. QED
    BY <1>1, <1>2, <1>3, <1>4, <1>5, <1>6, <1>7, <1>8, <1>9, <1>10, <1>11, Zenon

(***************************************************************************)
(* The types, and who holds the lock.                                      *)
(***************************************************************************)
(* What the operation that holds the lock carries.                         *)
LEMMA Held ==
  ASSUME TypeOK, HolderServes
  PROVE  /\ holder \in Kinds => op \in Ops /\ Expected(op) \in 0..MaxGeneration
         /\ holder \in CreateKinds => op \in Ops /\ Expected(op) = 1 /\ request[op].data \in Data
         /\ holder = "relocation_import" =>
              op \in Ops /\ Expected(op) \in 1..MaxGeneration /\ request[op].data \in Data
         /\ holder \in {"generation_advance", "restore_prepare", "restore_swap",
                        "restore_finalize", "restore_abort"} =>
              op \in Ops /\ Expected(op) \in 1..MaxGeneration /\ NextGen(op) \in 1..MaxGeneration
         /\ holder \in {"snapshot_create", "workspace_delete", "relocation_export",
                        "relocation_abort"} => op \in Ops /\ Expected(op) \in 1..MaxGeneration
         /\ holder \in {"snapshot_create", "snapshot_delete", "restore_prepare"} =>
              op \in Ops /\ SnapshotOf(op) \in Snapshots
  <1>1. CASE holder \notin Kinds
    BY <1>1, KindsList, Zenon DEF CreateKinds
  <1>2. CASE holder \in Kinds
    <2>1. op \in Ops /\ <<request[op].kind, holder>> \in Serves
      BY <1>2, Zenon DEF HolderServes
    <2>2. request[op].kind # "none"
      BY <2>1 DEF Serves
    <2>3. request[op] \in AllRequests
      <3>1. request[op] \in AllRequests \cup {NoRequest}
        BY <2>1, Zenon DEF TypeOK
      <3>2. NoRequest.kind = "none"
        BY DEF NoRequest
      <3>. QED
        BY <2>2, <3>1, <3>2, Zenon
    <2>4. /\ holder \in CreateKinds => request[op].kind \in {"create", "clone"}
          /\ holder = "relocation_import" => request[op].kind = "relocate_in"
          /\ holder = "generation_advance" => request[op].kind = "stop"
          /\ holder \in {"restore_prepare", "restore_swap", "restore_finalize", "restore_abort"}
               => request[op].kind = "restore"
          /\ holder = "snapshot_create" => request[op].kind = "snapshot_create"
          /\ holder = "snapshot_delete" <=> request[op].kind = "snapshot_delete"
      BY <2>1, ServedBy, Zenon
    <2>5. /\ Expected(op) \in 0..MaxGeneration
          /\ request[op].kind \in {"stop", "restore"} => NextGen(op) \in 1..MaxGeneration
          /\ request[op].kind # "snapshot_delete" => Expected(op) \in 1..MaxGeneration
          /\ request[op].kind \in {"create", "clone"} => Expected(op) = 1
      BY <2>3, RequestRanges, StoreAssumption DEF Expected, NextGen
    <2>6. /\ request[op].kind \in {"create", "clone", "relocate_in"} => request[op].data \in Data
          /\ request[op].kind \in {"snapshot_create", "snapshot_delete", "restore"}
               => SnapshotOf(op) \in Snapshots
      BY <2>3, RequestRanges, Zenon DEF SnapshotOf
    <2>. QED
      BY <2>1, <2>4, <2>5, <2>6, Zenon DEF CreateKinds
  <1>. QED
    BY <1>1, <1>2, Zenon

(* A request that is called is recorded under its operation.               *)
LEMMA Called ==
  ASSUME NEW o \in Ops, NEW k, NEW i \in Requests, TypeOK, Calls(o, k, i)
  PROVE  /\ request'[o] = i /\ <<i.kind, k>> \in Serves
         /\ \A p \in Ops \ {o} : request'[p] = request[p]
         /\ request[o] = i \/ request[o].kind = "none"
         /\ request' \in [Ops -> AllRequests \cup {NoRequest}]
         /\ k \in CreateKinds => i.kind \in {"create", "clone"}
         /\ k = "relocation_import" <=> i.kind = "relocate_in"
  <1>1. /\ request \in [Ops -> AllRequests \cup {NoRequest}]
        /\ i \in AllRequests
    BY Zenon DEF TypeOK, Requests
  <1>2. /\ request' = [request EXCEPT ![o] = i] /\ <<i.kind, k>> \in Serves
        /\ request[o] \in {NoRequest, i}
    BY Zenon DEF Calls
  <1>3. NoRequest.kind = "none"
    BY DEF NoRequest
  <1>4. /\ k \in CreateKinds => i.kind \in {"create", "clone"}
        /\ k = "relocation_import" <=> i.kind = "relocate_in"
    BY <1>2 DEF Serves, CreateKinds
  <1>5. /\ request'[o] = i
        /\ \A p \in Ops \ {o} : request'[p] = request[p]
        /\ request' \in [Ops -> AllRequests \cup {NoRequest}]
    BY <1>1, <1>2
  <1>. QED
    BY <1>2, <1>3, <1>4, <1>5, Zenon

(* Every step keeps the lock with an operation it serves.                  *)
LEMMA HolderServesInv ==
  ASSUME TypeOK, HolderServes, Next
  PROVE  HolderServes'
  <1>1. ASSUME NEW o \in Ops, NEW k \in Kinds, NEW i \in Requests, mutate(o, k, i)
        PROVE  HolderServes'
    <2>1. Calls(o, k, i) /\ holder' = k /\ op' = o
      BY <1>1, Zenon DEF mutate
    <2>. QED
      BY <2>1, Called, Zenon DEF HolderServes
  <1>2. ASSUME NEW o \in Ops, NEW i \in Requests, BeginRelocationImport(o, i)
        PROVE  HolderServes'
    <2>1. Calls(o, "relocation_import", i) /\ holder' = "relocation_import" /\ op' = o
      BY <1>2, Zenon DEF BeginRelocationImport
    <2>. QED
      BY <2>1, Called, Zenon DEF HolderServes
  <1>3. CASE ~ Enter
    BY <1>3, Frames, LockFrames, Zenon DEF HolderServes
  <1>. QED
    BY <1>1, <1>2, <1>3, Zenon DEF Enter

(* The manifest keeps its type.                                            *)
LEMMA ManifestType ==
  ASSUME TypeOK, HolderServes, Next
  PROVE  manifest' \in [generation : 0..MaxGeneration, image : Images, sealed : BOOLEAN]
  <1>a. manifest \in [generation : 0..MaxGeneration, image : Images, sealed : BOOLEAN]
    BY Zenon DEF TypeOK
  <1>b. 0 \in 0..MaxGeneration /\ 1 \in 0..MaxGeneration /\ Base \in Images /\ Ops \subseteq Images
    BY StoreAssumption DEF Images
  <1>1. CASE UNCHANGED manifest
    BY <1>1, <1>a, Zenon
  <1>2. CASE CreatePublish
    BY <1>2, <1>b, Zenon DEF CreatePublish
  <1>3. CASE AdvanceGeneration
    BY <1>3, <1>a, Held DEF AdvanceGeneration
  <1>4. CASE SwapRestorePublish
    BY <1>4, <1>b, Held DEF SwapRestorePublish
  <1>5. CASE RemoveManifest
    BY <1>5, <1>b, Zenon DEF RemoveManifest, NoManifest
  <1>6. CASE SealRelocationExport
    BY <1>6, <1>a, Zenon DEF SealRelocationExport
  <1>7. CASE AbortRelocation
    BY <1>7, <1>a, Zenon DEF AbortRelocation
  <1>8. CASE ImportPublish
    BY <1>8, <1>b, Held DEF ImportPublish
  <1>. QED
    BY <1>1, <1>2, <1>3, <1>4, <1>5, <1>6, <1>7, <1>8, Frames, Zenon

(* The images keep their type.                                             *)
LEMMA VersionsType ==
  ASSUME TypeOK, HolderServes, Next
  PROVE  versions' \in [Images -> File]
  <1>a. /\ versions \in [Images -> File] /\ stagedImage \in [Ops -> File]
        /\ manifest.image \in Images
        /\ \A o \in Ops : rollback[o].previousImage \in Images
        /\ Absent \in File /\ Data \subseteq File
    BY DEF TypeOK, File
  <1>b. Base \in Images /\ Ops \subseteq Images
    BY DEF Images
  <1>1. CASE UNCHANGED versions
    BY <1>1, <1>a, Zenon
  <1>2. CASE CreateImage
    BY <1>2, <1>a, <1>b, Held DEF CreateImage
  <1>3. CASE SwapRestoreVersion
    BY <1>3, <1>a, <1>b, Held DEF SwapRestoreVersion
  <1>4. CASE FinalizeRestorePrevious
    BY <1>4, <1>a, <1>b, Held DEF FinalizeRestorePrevious
  <1>5. ASSUME NEW i \in Images, RemoveVersion(i)
        PROVE  versions' \in [Images -> File]
    BY <1>5, <1>a, <1>b DEF RemoveVersion
  <1>6. CASE ImportImage
    BY <1>6, <1>a, <1>b, Held DEF ImportImage
  <1>7. ASSUME NEW d \in Data, GuestWrite(d)
        PROVE  versions' \in [Images -> File]
    BY <1>7, <1>a, <1>b DEF GuestWrite
  <1>. QED
    BY <1>1, <1>2, <1>3, <1>4, <1>5, <1>6, <1>7, Frames, Zenon

(* The staged images keep their type.                                      *)
LEMMA StagedImageType ==
  ASSUME TypeOK, HolderServes, Next
  PROVE  stagedImage' \in [Ops -> File]
  <1>a. /\ stagedImage \in [Ops -> File] /\ snapImage \in [Snapshots -> File]
        /\ Absent \in File
    BY DEF TypeOK, File
  <1>1. CASE UNCHANGED stagedImage
    BY <1>1, <1>a, Zenon
  <1>2. CASE PrepareRestoreImage
    BY <1>2, <1>a, Held DEF PrepareRestoreImage
  <1>3. CASE SwapRestoreVersion
    BY <1>3, <1>a, Held DEF SwapRestoreVersion
  <1>4. CASE FinalizeRestoreImage
    BY <1>4, <1>a, Held DEF FinalizeRestoreImage
  <1>5. CASE AbortRestoreImage
    BY <1>5, <1>a, Held DEF AbortRestoreImage
  <1>6. CASE RemoveRestoreState
    BY <1>6, <1>a DEF RemoveRestoreState
  <1>. QED
    BY <1>1, <1>2, <1>3, <1>4, <1>5, <1>6, Frames, Zenon

(* The staged manifests and the rollback manifests keep their type.        *)
LEMMA RestoreType ==
  ASSUME TypeOK, HolderServes, Next
  PROVE  /\ stagedManifest' \in SUBSET Ops
         /\ rollback' \in [Ops -> [previousGeneration : 0..MaxGeneration, previousImage : Images]]
  <1>a. /\ stagedManifest \in SUBSET Ops
        /\ rollback \in [Ops -> [previousGeneration : 0..MaxGeneration, previousImage : Images]]
        /\ manifest.generation \in 0..MaxGeneration /\ manifest.image \in Images
    BY DEF TypeOK
  <1>b. NoRollback \in [previousGeneration : 0..MaxGeneration, previousImage : Images]
    BY StoreAssumption DEF NoRollback, Images
  <1>1. CASE UNCHANGED <<stagedManifest, rollback>>
    BY <1>1, <1>a, Zenon
  <1>2. CASE PrepareRestorePublish
    BY <1>2, <1>a, Held DEF PrepareRestorePublish
  <1>3. CASE FinalizeRestoreManifest
    BY <1>3, <1>a DEF FinalizeRestoreManifest
  <1>4. CASE AbortRestoreManifest
    BY <1>4, <1>a DEF AbortRestoreManifest
  <1>5. CASE RemoveRestoreState
    BY <1>5, <1>b DEF RemoveRestoreState
  <1>6. CASE SwapRestoreRollback
    BY <1>6, <1>a, Held DEF SwapRestoreRollback
  <1>7. CASE FinalizeRestoreRollback
    BY <1>7, <1>a, <1>b, Held DEF FinalizeRestoreRollback
  <1>. QED
    BY <1>1, <1>2, <1>3, <1>4, <1>5, <1>6, <1>7, Frames, Zenon

(* The Snapshot files keep their type.                                     *)
LEMMA SnapshotType ==
  ASSUME TypeOK, HolderServes, Next
  PROVE  /\ snapDir' \in SUBSET Snapshots
         /\ snapImage' \in [Snapshots -> File]
         /\ snapManifest' \in [Snapshots -> 0..MaxGeneration]
  <1>a. /\ snapDir \in SUBSET Snapshots /\ snapImage \in [Snapshots -> File]
        /\ snapManifest \in [Snapshots -> 0..MaxGeneration]
        /\ versions[manifest.image] \in File
        /\ Absent \in File
        /\ 0 \in 0..MaxGeneration
    BY StoreAssumption DEF TypeOK, File
  <1>1. CASE UNCHANGED snaps
    BY <1>1, <1>a, Zenon
  <1>2. CASE CreateSnapshotDirectory
    BY <1>2, <1>a, Held DEF CreateSnapshotDirectory
  <1>3. CASE DeleteSnapshotDirectory
    BY <1>3, <1>a, Held DEF DeleteSnapshotDirectory
  <1>4. CASE CreateSnapshotImage
    BY <1>4, <1>a, Held DEF CreateSnapshotImage
  <1>5. CASE DeleteSnapshotImage
    BY <1>5, <1>a, Held DEF DeleteSnapshotImage
  <1>6. CASE CreateSnapshotPublish
    BY <1>6, <1>a, Held DEF CreateSnapshotPublish
  <1>7. CASE DeleteSnapshotManifest
    BY <1>7, <1>a, Held DEF DeleteSnapshotManifest
  <1>8. ASSUME NEW s \in Snapshots, DeleteWorkspaceSnapshotImage(s)
        PROVE  /\ snapDir' \in SUBSET Snapshots
         /\ snapImage' \in [Snapshots -> File]
         /\ snapManifest' \in [Snapshots -> 0..MaxGeneration]
    BY <1>8, <1>a DEF DeleteWorkspaceSnapshotImage
  <1>9. ASSUME NEW s \in Snapshots, DeleteWorkspaceSnapshotManifest(s)
        PROVE  /\ snapDir' \in SUBSET Snapshots
         /\ snapImage' \in [Snapshots -> File]
         /\ snapManifest' \in [Snapshots -> 0..MaxGeneration]
    BY <1>9, <1>a DEF DeleteWorkspaceSnapshotManifest
  <1>. QED
    BY <1>1, <1>2, <1>3, <1>4, <1>5, <1>6, <1>7, <1>8, <1>9, Frames, Zenon

(* The result a mutation is about to record keeps its type.                *)
LEMMA OutType ==
  ASSUME TypeOK, HolderServes, Next
  PROVE  out' \in [previous : 0..MaxGeneration, generation : 0..MaxGeneration]
  <1>a. out \in [previous : 0..MaxGeneration, generation : 0..MaxGeneration]
    BY Zenon DEF TypeOK
  <1>b. 0 \in 0..MaxGeneration /\ 1 \in 0..MaxGeneration
    BY StoreAssumption
  <1>c. /\ snapManifest \in [Snapshots -> 0..MaxGeneration]
        /\ rollback \in [Ops -> [previousGeneration : 0..MaxGeneration, previousImage : Images]]
        /\ receipts \in SUBSET [op : Ops, kind : Kinds, previous : 0..MaxGeneration,
                                generation : 0..MaxGeneration]
    BY Zenon DEF TypeOK
  <1>1. CASE UNCHANGED out
    BY <1>1, <1>a, Zenon
  <1>2. CASE out' = NoResult
    BY <1>2, <1>b DEF NoResult
  <1>3. CASE CreateLayout
    BY <1>3, <1>a, <1>b DEF CreateLayout
  <1>4. CASE CreatePublish
    BY <1>4, <1>b DEF CreatePublish
  <1>5. CASE AdvanceGeneration
    BY <1>5, Held DEF AdvanceGeneration
  <1>6. CASE CreateSnapshotDirectory
    BY <1>6, <1>a, <1>b, Held DEF CreateSnapshotDirectory
  <1>7. CASE CreateSnapshotPublish
    BY <1>7, <1>b, Held DEF CreateSnapshotPublish
  <1>8. CASE DeleteSnapshotImage
    BY <1>8, <1>b, <1>c, Held DEF DeleteSnapshotImage
  <1>9. CASE PrepareRestoreImage
    BY <1>9, <1>a, Held DEF PrepareRestoreImage
  <1>10. CASE PrepareRestorePublish
    BY <1>10, Held DEF PrepareRestorePublish
  <1>11. CASE SwapRestoreVersion
    BY <1>11, <1>a, <1>c, Held DEF SwapRestoreVersion
  <1>12. CASE SwapRestorePublish
    BY <1>12, Held DEF SwapRestorePublish
  <1>13. CASE FinalizeRestorePrevious
    BY <1>13, <1>c, Held DEF FinalizeRestorePrevious
  <1>14. CASE AbortRestoreImage
    BY <1>14, <1>b, Held DEF AbortRestoreImage
  <1>15. CASE DeleteWorkspace
    BY <1>15, <1>b, Held DEF DeleteWorkspace
  <1>16. CASE SealRelocationExport
    BY <1>16, <1>b, Held DEF SealRelocationExport
  <1>17. CASE AbortRelocation
    BY <1>17, <1>b, Held DEF AbortRelocation
  <1>18. CASE ImportPublish
    BY <1>18, <1>b, Held DEF ImportPublish
  <1>. QED
    BY <1>1, <1>2, <1>3, <1>4, <1>5, <1>6, <1>7, <1>8, <1>9, <1>10, <1>11, <1>12, <1>13, <1>14, <1>15, <1>16, <1>17, <1>18, LockFrames, Zenon

(* Every step of the store keeps the types of its files.                   *)
LEMMA TypeInv ==
  ASSUME TypeOK, HolderServes, Next
  PROVE  TypeOK'
  <1>1. request' \in [Ops -> AllRequests \cup {NoRequest}]
    <2>1. ASSUME NEW o \in Ops, NEW k \in Kinds, NEW i \in Requests, mutate(o, k, i)
          PROVE  Calls(o, k, i)
      BY <2>1, Zenon DEF mutate
    <2>2. ASSUME NEW o \in Ops, NEW i \in Requests, BeginRelocationImport(o, i)
          PROVE  Calls(o, "relocation_import", i)
      BY <2>2, Zenon DEF BeginRelocationImport
    <2>3. CASE UNCHANGED request
      BY <2>3, Zenon DEF TypeOK
    <2>. QED
      BY <2>1, <2>2, <2>3, Called, Frames, Zenon DEF Enter
  <1>2. layout' \in BOOLEAN
    <2>1. layout \in BOOLEAN
      BY Zenon DEF TypeOK
    <2>. QED
      BY <2>1, Frames, Zenon DEF CreateLayout, RemoveDirectory, ImportLayout
  <1>3. receipts' \in SUBSET [op : Ops, kind : Kinds, previous : 0..MaxGeneration,
                              generation : 0..MaxGeneration]
    <2>1. /\ receipts \in SUBSET [op : Ops, kind : Kinds, previous : 0..MaxGeneration,
                                  generation : 0..MaxGeneration]
          /\ out \in [previous : 0..MaxGeneration, generation : 0..MaxGeneration]
      BY Zenon DEF TypeOK
    <2>2. CASE recordReceipt
      BY <2>1, <2>2, Held DEF recordReceipt
    <2>3. ASSUME NEW r \in receipts, DeleteWorkspaceReceipt(r)
          PROVE  receipts' \subseteq receipts
      BY <2>3 DEF DeleteWorkspaceReceipt
    <2>. QED
      BY <2>1, <2>2, <2>3, Frames, Zenon
  <1>4. removing' \in BOOLEAN
    <2>1. removing \in BOOLEAN
      BY Zenon DEF TypeOK
    <2>. QED
      BY <2>1, Frames, Zenon DEF RemoveManifest, DeleteWorkspaceTree, AbortImport,
         BeginRelocationImport, Published
  <1>5. /\ holder' \in Kinds \cup {"none", "compute", "export", "import_abort"}
        /\ op' \in Ops \cup {NoOp}
    <2>1. /\ holder \in Kinds \cup {"none", "compute", "export", "import_abort"}
          /\ op \in Ops \cup {NoOp}
      BY Zenon DEF TypeOK
    <2>2. CASE AbortImport
      BY <2>1, <2>2, Zenon DEF AbortImport
    <2>. QED
      BY <2>1, <2>2, LockFrames, EnterFrames, Zenon
  <1>. QED
    BY <1>1, <1>2, <1>3, <1>4, <1>5, ManifestType, VersionsType, StagedImageType, RestoreType,
       SnapshotType, OutType, Zenon DEF TypeOK

-----------------------------------------------------------------------------
USE DEF At, Goto, Result, Return, Lock, Unlock, tree, restore, snaps, files, lock, vars

(* At most one restore is pending after every step.                        *)
LEMMA OneRestoreInv ==
  ASSUME IInv, Next
  PROVE  OneRestorePending'
  <1>a. OneRestorePending /\ RestoreSteps /\ rollback \in [Ops -> [previousGeneration : 0..MaxGeneration, previousImage : Images]]
    BY Zenon DEF IInv, TypeOK
  <1>1. CASE UNCHANGED <<stagedManifest, rollback>>
    BY <1>1, <1>a, Zenon DEF OneRestorePending, RollbackOps
  <1>2. CASE PrepareRestorePublish
    BY <1>2, <1>a DEF PrepareRestorePublish, RestoreSteps, OneRestorePending, PendingRestores, RollbackOps
  <1>3. CASE FinalizeRestoreManifest
    BY <1>3, <1>a DEF FinalizeRestoreManifest, OneRestorePending, RollbackOps
  <1>4. CASE AbortRestoreManifest
    BY <1>4, <1>a DEF AbortRestoreManifest, OneRestorePending, RollbackOps
  <1>5. CASE RemoveRestoreState
    BY <1>5, <1>a DEF RemoveRestoreState, NoRollback, OneRestorePending, RollbackOps
  <1>6. CASE SwapRestoreRollback
    BY <1>6, <1>a DEF SwapRestoreRollback, RestoreSteps, OneRestorePending, RollbackOps
  <1>7. CASE FinalizeRestoreRollback
    BY <1>7, <1>a DEF FinalizeRestoreRollback, NoRollback, OneRestorePending, RollbackOps
  <1>. QED
    BY <1>1, <1>2, <1>3, <1>4, <1>5, <1>6, <1>7, Frames, Zenon

(* Every step keeps what PrepareRestore and SwapRestore have established.  *)
LEMMA RestoreStepsInv ==
  ASSUME IInv, Next
  PROVE  RestoreSteps'
  <1>a. RestoreSteps /\ TypeOK /\ HolderServes
    BY Zenon DEF IInv
  <1>b. versions \in [Images -> File] /\ Ops \subseteq Images
    BY <1>a, Zenon DEF TypeOK, Images
  <1>1. CASE holder' \notin {"restore_prepare", "restore_swap"}
    BY <1>1, Zenon DEF RestoreSteps
  <1>2. CASE Enter
    BY <1>2, EnterFrames, Zenon DEF RestoreSteps
  <1>3. CASE PrepareRestoreImage
    BY <1>3, <1>a, Held DEF PrepareRestoreImage, RestoreSteps, PendingRestores, RollbackOps,
       Published
  <1>4. CASE PrepareRestorePublish
    BY <1>4, Zenon DEF PrepareRestorePublish, RestoreSteps
  <1>5. CASE SwapRestoreVersion
    BY <1>5, <1>a, <1>b, Held DEF SwapRestoreVersion, RestoreSteps, Published, Expected
  <1>6. CASE SwapRestoreRollback
    BY <1>6, <1>a DEF SwapRestoreRollback, RestoreSteps, Published, Expected
  <1>7. CASE SwapRestorePublish
    BY <1>7, Zenon DEF SwapRestorePublish, RestoreSteps
  <1>c. RestoreStep => \/ PrepareRestoreImage \/ PrepareRestorePublish \/ SwapRestoreVersion
                       \/ SwapRestoreRollback \/ SwapRestorePublish
                       \/ holder' \notin {"restore_prepare", "restore_swap"}
    BY Zenon DEF RestoreStep, FinalizeRestorePrevious, FinalizeRestoreImage,
       FinalizeRestoreManifest, FinalizeRestoreRollback, AbortRestoreImage, AbortRestoreManifest
  <1>. QED
    BY <1>1, <1>2, <1>3, <1>4, <1>5, <1>6, <1>7, <1>c, LockFrames, Zenon

(* The current image exists until the removal of its tree begins.          *)
LEMMA CurrentImageInv ==
  ASSUME IInv, Next
  PROVE  CurrentImageNeverLost' /\ (removing => Published)'
  <1>a. CurrentImageNeverLost /\ (removing => Published) /\ TypeOK /\ HolderServes
    BY Zenon DEF IInv
  <1>b. CreateSteps /\ RestoreSteps /\ ImportSteps /\ RemoveSteps /\ (holder = "compute" => Published)
    BY Zenon DEF IInv
  <1>c. /\ versions \in [Images -> File] /\ stagedImage \in [Ops -> File]
        /\ manifest \in [generation : 0..MaxGeneration, image : Images, sealed : BOOLEAN]
    BY <1>a, Zenon DEF TypeOK
  <1>1. CASE UNCHANGED <<manifest, versions, removing>>
    BY <1>1, <1>a, Zenon DEF CurrentImageNeverLost, CurrentImagePresent, Published
  <1>2. CASE CreateImage
    BY <1>2, <1>a, <1>b, Zenon DEF CreateImage, CreateSteps, CurrentImageNeverLost, CurrentImagePresent, Published
  <1>3. CASE CreatePublish
    BY <1>3, <1>b DEF CreatePublish, CreateSteps, CurrentImageNeverLost, CurrentImagePresent, Published
  <1>4. CASE AdvanceGeneration
    BY <1>4, <1>a, <1>c, Held DEF AdvanceGeneration, CurrentImageNeverLost, CurrentImagePresent, Published
  <1>5. CASE SwapRestoreVersion
    BY <1>5, <1>a, <1>c DEF SwapRestoreVersion, CurrentImageNeverLost, CurrentImagePresent, Published
  <1>6. CASE SwapRestorePublish
    <2>1. /\ holder = "restore_swap" /\ pc = "publish" /\ UNCHANGED <<versions, removing>>
          /\ manifest' = [generation |-> NextGen(op), image |-> op, sealed |-> FALSE]
      BY <1>6, Zenon DEF SwapRestorePublish
    <2>2. versions[op] # Absent /\ NextGen(op) \in 1..MaxGeneration
      BY <1>a, <1>b, <2>1, Held, Zenon DEF RestoreSteps
    <2>. QED
      BY <2>1, <2>2 DEF CurrentImageNeverLost, CurrentImagePresent, Published
  <1>7. CASE FinalizeRestorePrevious
    BY <1>7, <1>a, <1>c, Zenon DEF FinalizeRestorePrevious, RestoreSelected, CurrentImageNeverLost, CurrentImagePresent, Published
  <1>8. ASSUME NEW i \in Images, RemoveVersion(i)
        PROVE  CurrentImageNeverLost' /\ (removing => Published)'
    BY <1>8, <1>a, <1>b, Zenon DEF RemoveVersion, RemoveSteps, CurrentImageNeverLost, CurrentImagePresent, Published
  <1>9. CASE RemoveManifest
    BY <1>9, <1>a DEF RemoveManifest, NoManifest, CurrentImageNeverLost, CurrentImagePresent, Published
  <1>10. CASE SealRelocationExport
    BY <1>10, <1>a, <1>c DEF SealRelocationExport, CurrentImageNeverLost, CurrentImagePresent, Published
  <1>11. CASE AbortRelocation
    BY <1>11, <1>a, <1>c DEF AbortRelocation, CurrentImageNeverLost, CurrentImagePresent, Published
  <1>12. CASE ImportImage
    BY <1>12, <1>a, <1>b, Zenon DEF ImportImage, ImportSteps, CurrentImageNeverLost, CurrentImagePresent, Published
  <1>13. CASE ImportPublish
    BY <1>13, <1>a, <1>b, Held DEF ImportPublish, ImportSteps, CurrentImageNeverLost, CurrentImagePresent, Published
  <1>14. CASE AbortImport
    BY <1>14, <1>a, Zenon DEF AbortImport, CurrentImageNeverLost, CurrentImagePresent, Published
  <1>15. CASE DeleteWorkspaceTree
    BY <1>15, <1>a, Zenon DEF DeleteWorkspaceTree, CurrentImageNeverLost, CurrentImagePresent, Published
  <1>16. ASSUME NEW d \in Data, GuestWrite(d)
        PROVE  CurrentImageNeverLost' /\ (removing => Published)'
    BY <1>16, <1>a, <1>c, StoreAssumption DEF GuestWrite, CurrentImageNeverLost, CurrentImagePresent, Published
  <1>17. ASSUME NEW o \in Ops, NEW i \in Requests, BeginRelocationImport(o, i)
        PROVE  CurrentImageNeverLost' /\ (removing => Published)'
    BY <1>17, <1>a DEF BeginRelocationImport, CurrentImageNeverLost, CurrentImagePresent, Published
  <1>. QED
    BY <1>1, <1>2, <1>3, <1>4, <1>5, <1>6, <1>7, <1>8, <1>9, <1>10, <1>11, <1>12, <1>13,
       <1>14, <1>15, <1>16, <1>17, Frames, Zenon

(* Compute is attached only to a published, unsealed Workspace (Store.Open). *)
LEMMA ComputeInv ==
  ASSUME IInv, Next
  PROVE  (manifest.sealed => Published)'
         /\ (holder = "compute" => Published /\ ~ manifest.sealed)'
  <1>a. /\ manifest.sealed => Published
        /\ holder = "compute" => Published /\ ~ manifest.sealed
        /\ manifest \in [generation : 0..MaxGeneration, image : Images, sealed : BOOLEAN]
        /\ TypeOK /\ HolderServes
    BY Zenon DEF IInv, TypeOK
  <1>b. UNCHANGED manifest \/ holder' # "compute"
    BY Frames, CreateFrames, RestoreFrames, RemoveFrames, RelocationFrames, OtherFrames, Zenon
       DEF CreateStep, RestoreStep, RemoveStep, RelocationStep, Removers, CreateKinds
  <1>c. (manifest.sealed => Published)'
    <2>1. CASE UNCHANGED manifest
      BY <1>a, <2>1, Zenon DEF Published
    <2>2. CASE AdvanceGeneration
      BY <1>a, <2>2, Held DEF AdvanceGeneration, Published
    <2>3. CASE SealRelocationExport
      BY <1>a, <2>3, Held DEF SealRelocationExport, Published
    <2>4. CASE CreatePublish \/ SwapRestorePublish \/ RemoveManifest \/ AbortRelocation \/ ImportPublish
      BY <1>a, <2>4 DEF CreatePublish, SwapRestorePublish, RemoveManifest, NoManifest, AbortRelocation,
         ImportPublish
    <2>. QED
      BY <2>1, <2>2, <2>3, <2>4, Frames, Zenon
  <1>d. CASE UNCHANGED manifest /\ holder' = "compute"
    <2>1. CASE Open
      BY <2>1, Zenon DEF Open, Published
    <2>2. CASE UNCHANGED <<manifest, holder>>
      BY <1>a, <2>2, Zenon DEF Published
    <2>. QED
      BY <1>d, <2>1, <2>2, LockFrames, OtherFrames, Zenon
  <1>. QED
    BY <1>b, <1>c, <1>d, Zenon

(***************************************************************************)
(* What each mutation has established between its file steps.              *)
(***************************************************************************)
(* Every step keeps what Create and CloneFromSnapshot have established.    *)
LEMMA CreateStepsInv ==
  ASSUME IInv, Next
  PROVE  CreateSteps'
  <1>a. CreateSteps /\ TypeOK /\ HolderServes
    BY Zenon DEF IInv
  <1>b. versions \in [Images -> File] /\ Base \in Images
    BY <1>a, Zenon DEF TypeOK, Images
  <1>1. CASE holder' \notin CreateKinds
    BY <1>1, Zenon DEF CreateSteps
  <1>2. ASSUME NEW o \in Ops, NEW k \in Kinds, NEW i \in Requests, mutate(o, k, i)
        PROVE  CreateSteps'
    <2>1. /\ Calls(o, k, i) /\ Admissible(o, i)
          /\ holder' = k /\ op' = o /\ pc' = "apply" /\ receipts' = receipts
      BY <1>2, Zenon DEF mutate, Calls
    <2>a. TypeOK /\ Calls(o, k, i)
      BY <1>a, <2>1, Zenon
    <2>2. request'[o] = i /\ (k \in CreateKinds => i.kind \in {"create", "clone"})
      BY ONLY <2>a, Called, Zenon
    <2>. QED
      BY <2>1, <2>2, Zenon DEF CreateSteps, Admissible, Expected
  <1>3. ASSUME NEW o \in Ops, NEW i \in Requests, BeginRelocationImport(o, i)
        PROVE  CreateSteps'
    BY <1>3, Zenon DEF BeginRelocationImport, CreateSteps, CreateKinds
  <1>4. CASE CreateLayout
    BY <1>4, <1>a, Zenon DEF CreateLayout, CreateSteps, Expected, Published
  <1>5. CASE CreateImage
    BY <1>5, <1>a, <1>b, Held, StoreAssumption DEF CreateImage, CreateSteps, Expected, Published
  <1>6. CASE CreatePublish
    BY <1>6, <1>a, Zenon DEF CreatePublish, CreateSteps, Expected
  <1>. QED
    BY <1>1, <1>2, <1>3, <1>4, <1>5, <1>6, LockFrames, Zenon DEF CreateStep, Enter

(* Every step keeps what the two Snapshot mutations have established.      *)
LEMMA SnapshotStepsInv ==
  ASSUME IInv, Next
  PROVE  SnapshotSteps'
  <1>a. SnapshotSteps /\ TypeOK /\ HolderServes
    BY Zenon DEF IInv
  <1>b. snapManifest \in [Snapshots -> 0..MaxGeneration]
    BY <1>a, Zenon DEF TypeOK
  <1>1. CASE holder' \notin {"snapshot_create", "snapshot_delete"}
    BY <1>1, Zenon DEF SnapshotSteps
  <1>2. CASE Enter
    BY <1>2, EnterFrames, Zenon DEF SnapshotSteps
  <1>3. CASE CreateSnapshotDirectory
    BY <1>3 DEF CreateSnapshotDirectory, SnapshotSteps, Published, Expected, SnapshotOf
  <1>4. CASE CreateSnapshotImage
    BY <1>4, <1>a, Zenon DEF CreateSnapshotImage, SnapshotSteps, Published, Expected, SnapshotOf
  <1>5. CASE CreateSnapshotPublish
    BY <1>5, Zenon DEF CreateSnapshotPublish, SnapshotSteps
  <1>6. CASE DeleteSnapshotImage
    BY <1>6, Zenon DEF DeleteSnapshotImage, SnapshotSteps
  <1>7. CASE DeleteSnapshotManifest
    BY <1>7, <1>a, <1>b, Held DEF DeleteSnapshotManifest, SnapshotSteps, SnapshotOf
  <1>8. CASE DeleteSnapshotDirectory
    BY <1>8, Zenon DEF DeleteSnapshotDirectory, SnapshotSteps
  <1>. QED
    BY <1>1, <1>2, <1>3, <1>4, <1>5, <1>6, <1>7, <1>8, LockFrames, Zenon DEF SnapshotStep

(* Every step keeps what a relocation import has established.              *)
LEMMA ImportStepsInv ==
  ASSUME IInv, Next
  PROVE  ImportSteps'
  <1>a. ImportSteps /\ RemoveSteps /\ TypeOK /\ HolderServes
    BY Zenon DEF IInv
  <1>b. versions \in [Images -> File] /\ Ops \subseteq Images
    BY <1>a, Zenon DEF TypeOK, Images
  <1>1. CASE holder' # "relocation_import"
    BY <1>1, Zenon DEF ImportSteps
  <1>2. ASSUME NEW o \in Ops, NEW i \in Requests, BeginRelocationImport(o, i)
        PROVE  ImportSteps'
    <2>1. /\ Calls(o, "relocation_import", i) /\ Admissible(o, i)
          /\ op' = o /\ receipts' = receipts
          /\ pc' = "versions" \/ (pc' = "stage" /\ ~ Published /\ manifest' = manifest)
      BY <1>2, Zenon DEF BeginRelocationImport, Calls
    <2>a. TypeOK /\ Calls(o, "relocation_import", i)
      BY <1>a, <2>1, Zenon
    <2>2. request'[o] = i /\ i.kind = "relocate_in"
      BY ONLY <2>a, Called, Zenon
    <2>. QED
      BY <2>1, <2>2, Zenon DEF ImportSteps, Admissible, Expected, Published
  <1>3. CASE ImportLayout
    BY <1>3, <1>a, Zenon DEF ImportLayout, ImportSteps, Expected, Published
  <1>4. CASE ImportImage
    BY <1>4, <1>a, <1>b, Held, StoreAssumption DEF ImportImage, ImportSteps, Expected, Published
  <1>5. CASE ImportPublish
    BY <1>5, <1>a, Zenon DEF ImportPublish, ImportSteps, Expected
  <1>6. CASE AbortImport
    BY <1>6, Zenon DEF AbortImport, ImportSteps
  <1>7. CASE \/ (\E i \in Images : RemoveVersion(i)) \/ RemoveVersionsDirectory
             \/ RemoveManifest \/ RemoveRestoreState
    <2>1. /\ UNCHANGED <<request, receipts, op, holder>>
          /\ pc' \in {"versions", "manifests", "restores", "directory"}
      BY <1>7, Zenon DEF RemoveVersion, RemoveVersionsDirectory, RemoveManifest, RemoveRestoreState
    <2>. QED
      BY <1>a, <2>1, Zenon DEF ImportSteps, Expected
  <1>8. CASE RemoveDirectory
    BY <1>8, <1>a, Zenon DEF RemoveDirectory, ImportSteps, RemoveSteps, Expected, Removers, Published
  <1>c. /\ SealRelocationExport \/ AbortRelocation => holder' # "relocation_import"
        /\ (\E o \in Ops, k \in Kinds, i \in Requests : mutate(o, k, i)) => holder' # "relocation_import"
    BY Zenon DEF SealRelocationExport, AbortRelocation, mutate
  <1>. QED
    BY <1>1, <1>2, <1>3, <1>4, <1>5, <1>6, <1>7, <1>8, <1>c, LockFrames, Zenon DEF RemoveStep,
       RelocationStep, Enter

(* Every step keeps what removeWorkspaceTree has established.              *)
LEMMA RemoveStepsInv ==
  ASSUME IInv, Next
  PROVE  RemoveSteps'
  <1>a. RemoveSteps /\ SnapshotsBesideManifest /\ TypeOK
    BY Zenon DEF IInv
  <1>b. versions \in [Images -> File]
    BY <1>a, Zenon DEF TypeOK
  <1>1. CASE holder' \notin Removers \/ pc' \notin {"versions", "manifests", "restores", "directory"}
    BY <1>1, Zenon DEF RemoveSteps
  <1>2. ASSUME NEW o \in Ops, NEW i \in Requests, BeginRelocationImport(o, i)
        PROVE  RemoveSteps'
    <2>1. /\ Calls(o, "relocation_import", i) /\ snapDir' = snapDir
          /\ ~ HasReceipt(o, "relocation_import")
          /\ pc' \in {"versions", "stage"}
          /\ pc' = "versions" => Published /\ manifest.image = o /\ removing'
      BY <1>2, Zenon DEF BeginRelocationImport
    <2>a. TypeOK /\ Calls(o, "relocation_import", i)
      BY <1>a, <2>1, Zenon
    <2>2. i.kind = "relocate_in" /\ (request[o] = i \/ request[o].kind = "none")
      BY ONLY <2>a, Called, Zenon
    <2>3. pc' = "versions" => ImportUnacknowledged
      <3>1. pc' = "versions" => request[o].kind \in {"restore", "relocate_in"}
        BY <1>a, <2>1, Zenon DEF SnapshotsBesideManifest
      <3>. QED
        BY <2>1, <2>2, <3>1, Zenon DEF ImportUnacknowledged
    <2>. QED
      BY <1>a, <2>1, <2>3, Zenon DEF RemoveSteps, SnapshotsBesideManifest
  <1>3. ASSUME NEW i \in Images, RemoveVersion(i)
        PROVE  RemoveSteps'
    BY <1>3, <1>a, Zenon DEF RemoveVersion, RemoveSteps, Published
  <1>4. CASE RemoveVersionsDirectory
    BY <1>4, <1>a, Zenon DEF RemoveVersionsDirectory, RemoveSteps, Published
  <1>5. CASE RemoveManifest
    BY <1>5, <1>a DEF RemoveManifest, NoManifest, RemoveSteps, Published
  <1>6. CASE RemoveRestoreState
    BY <1>6, <1>a DEF RemoveRestoreState, NoRollback, RemoveSteps, Published
  <1>7. CASE DeleteWorkspaceTree
    BY <1>7, Zenon DEF DeleteWorkspaceTree, RemoveSteps, Published
  <1>8. CASE AbortImport
    BY <1>8, <1>a, Zenon DEF AbortImport, RemoveSteps, Published, SnapshotsBesideManifest
  <1>c. \/ holder' \notin Removers \/ pc' \notin {"versions", "manifests", "restores", "directory"}
        \/ (\E o \in Ops, i \in Requests : BeginRelocationImport(o, i))
        \/ (\E i \in Images : RemoveVersion(i)) \/ RemoveVersionsDirectory \/ RemoveManifest
        \/ RemoveRestoreState \/ DeleteWorkspaceTree \/ AbortImport
    <2>1. (\E o \in Ops, k \in Kinds, i \in Requests : mutate(o, k, i))
            => pc' = "apply"
      BY Zenon DEF mutate
    <2>2. RelocationStep => AbortImport \/ pc' \in {"rename", "publish", "receipt"}
      BY Zenon DEF RelocationStep, SealRelocationExport, AbortRelocation, ImportLayout, ImportImage,
         ImportPublish
    <2>3. DeleteStep => DeleteWorkspaceTree \/ pc' \in {"snapshots", "receipts", "receipt", "idle"}
      BY Zenon DEF DeleteStep, DeleteWorkspace, DeleteWorkspaceSnapshotImage,
         DeleteWorkspaceSnapshotManifest, DeleteWorkspaceReceipt, DeleteWorkspaceReceiptsDone
    <2>4. RemoveDirectory => pc' \in {"receipts", "stage", "idle"}
      BY Zenon DEF RemoveDirectory
    <2>. QED
      BY <2>1, <2>2, <2>3, <2>4, LockFrames, Zenon DEF RemoveStep, Enter
  <1>. QED
    BY <1>1, <1>2, <1>3, <1>4, <1>5, <1>6, <1>7, <1>8, <1>c, Zenon

(* Every step keeps what DeleteWorkspace has established.                  *)
LEMMA DeleteStepsInv ==
  ASSUME IInv, Next
  PROVE  DeleteSteps'
  <1>a. DeleteSteps /\ (~ layout => NothingOnDisk)
    BY Zenon DEF IInv
  <1>1. CASE holder' # "workspace_delete" \/ pc' \notin {"receipts", "receipt"}
    BY <1>1, Zenon DEF DeleteSteps
  <1>2. CASE RemoveDirectory
    BY <1>2, Zenon DEF RemoveDirectory, DeleteSteps
  <1>3. CASE DeleteWorkspace
    BY <1>3, Zenon DEF DeleteWorkspace, DeleteSteps
  <1>4. ASSUME NEW r \in receipts, DeleteWorkspaceReceipt(r)
        PROVE  DeleteSteps'
    BY <1>4, <1>a, Zenon DEF DeleteWorkspaceReceipt, DeleteSteps
  <1>5. CASE DeleteWorkspaceReceiptsDone
    BY <1>5, <1>a, Zenon DEF DeleteWorkspaceReceiptsDone, DeleteSteps
  <1>c. \/ holder' # "workspace_delete" \/ pc' \notin {"receipts", "receipt"}
        \/ RemoveDirectory \/ DeleteWorkspace
        \/ (\E r \in receipts : DeleteWorkspaceReceipt(r)) \/ DeleteWorkspaceReceiptsDone
    <2>1. RemoveStep => RemoveDirectory \/ pc' \in {"versions", "manifests", "restores", "directory"}
      BY Zenon DEF RemoveStep, RemoveVersion, RemoveVersionsDirectory, RemoveManifest, RemoveRestoreState
    <2>2. DeleteStep => \/ DeleteWorkspace \/ (\E r \in receipts : DeleteWorkspaceReceipt(r))
                        \/ DeleteWorkspaceReceiptsDone
                        \/ pc' \in {"snapshots", "versions", "idle"}
      BY Zenon DEF DeleteStep, DeleteWorkspaceSnapshotImage, DeleteWorkspaceSnapshotManifest,
         DeleteWorkspaceTree
    <2>. QED
      BY <2>1, <2>2, LockFrames, EnterFrames, Zenon
  <1>. QED
    BY <1>1, <1>2, <1>3, <1>4, <1>5, <1>c, Zenon

(***************************************************************************)
(* Without its directory a Workspace has no files at all.                  *)
(***************************************************************************)
(* How a step changes the generation on disk: not at all, forward, from    *)
(* nothing, or by removing the manifest.                                   *)
LEMMA ManifestStep ==
  ASSUME IInv, Next
  PROVE  \/ UNCHANGED manifest
         \/ /\ UNCHANGED <<layout, snaps, receipts, request>>
            /\ \/ Published /\ Published' /\ manifest'.generation >= manifest.generation
               \/ ~ Published /\ Published' /\ layout
         \/ RemoveManifest
  <1>a. TypeOK /\ HolderServes /\ CreateSteps /\ RestoreSteps /\ ImportSteps
    BY Zenon DEF IInv
  <1>b. manifest \in [generation : 0..MaxGeneration, image : Images, sealed : BOOLEAN]
    BY <1>a, Zenon DEF TypeOK
  <1>1. CASE CreatePublish
    BY <1>1, <1>a DEF CreatePublish, CreateSteps, Published
  <1>2. CASE AdvanceGeneration
    BY <1>2, <1>a, <1>b, Held DEF AdvanceGeneration, Published, NextGen, Expected
  <1>3. CASE SwapRestorePublish
    BY <1>3, <1>a, <1>b, Held DEF SwapRestorePublish, RestoreSteps, Published, NextGen, Expected
  <1>4. CASE SealRelocationExport
    BY <1>4, <1>a, <1>b, Held DEF SealRelocationExport, Published
  <1>5. CASE AbortRelocation
    BY <1>5, <1>a, <1>b, Held DEF AbortRelocation, Published
  <1>6. CASE ImportPublish
    BY <1>6, <1>a, <1>b, Held DEF ImportPublish, ImportSteps, Published
  <1>. QED
    BY <1>1, <1>2, <1>3, <1>4, <1>5, <1>6, Frames, Zenon

(* Every step keeps a Workspace without its directory empty.               *)
LEMMA DiskInv ==
  ASSUME IInv, Next
  PROVE  (~ layout => NothingOnDisk)'
  <1>a. /\ TypeOK /\ HolderServes /\ CreateSteps /\ SnapshotSteps /\ RestoreSteps /\ ImportSteps
        /\ RemoveSteps /\ (~ layout => NothingOnDisk) /\ (holder = "compute" => Published)
    BY Zenon DEF IInv
  <1>1. CASE layout'
    BY <1>1, Zenon
  <1>2. CASE RemoveDirectory
    <2>1. /\ holder \in Removers /\ pc = "directory"
          /\ UNCHANGED <<manifest, versions, restore, snaps>>
      BY <1>2, Zenon DEF RemoveDirectory
    <2>. QED
      BY <1>a, <2>1, Zenon DEF RemoveSteps, NothingOnDisk, Published
  <1>3. CASE ~ layout' /\ ~ RemoveDirectory
    <2>1. UNCHANGED layout /\ ~ layout
      <3>1. UNCHANGED layout
        BY <1>3, Frames, Zenon DEF CreateLayout, ImportLayout
      <3>. QED
        BY <1>3, <3>1
    <2>2. /\ NothingOnDisk /\ ~ Published /\ holder # "compute"
          /\ ~ (holder \in CreateKinds /\ pc \in {"clone", "publish"})
          /\ ~ (holder = "relocation_import" /\ pc \in {"rename", "publish", "receipt"})
          /\ ~ At("restore_prepare", "publish")
          /\ ~ At("restore_swap", "rollback") /\ ~ At("restore_swap", "publish")
      BY <1>a, <2>1, Zenon DEF NothingOnDisk, CreateSteps, ImportSteps, RestoreSteps
    <2>3. /\ manifest.generation = 0
          /\ \A i \in Images : versions[i] = Absent
          /\ \A o \in Ops : stagedImage[o] = Absent
          /\ stagedManifest = {}
          /\ \A o \in Ops : rollback[o].previousGeneration = 0
          /\ snapDir = {}
      BY <2>2, Zenon DEF NothingOnDisk, Published
    <2>4. ~ Published'
      <3>1. CASE RemoveManifest
        BY <3>1 DEF RemoveManifest, NoManifest, Published
      <3>. QED
        BY <2>1, <2>2, <3>1, ManifestStep, Zenon DEF Published
    <2>5. UNCHANGED versions
      <3>1. ~ CreateImage /\ ~ ImportImage /\ ~ (\E d \in Data : GuestWrite(d))
            /\ ~ SwapRestoreVersion
        BY <2>2, Zenon DEF CreateImage, ImportImage, GuestWrite, SwapRestoreVersion
      <3>2. ~ \E i \in Images : RemoveVersion(i)
        BY <2>3, Zenon DEF RemoveVersion
      <3>3. FinalizeRestorePrevious => UNCHANGED versions
        <4>1. holder = "restore_finalize" => op \in Ops
          BY <1>a, Held, Zenon
        <4>. QED
          BY <2>3, <4>1, Zenon DEF FinalizeRestorePrevious
      <3>. QED
        BY <3>1, <3>2, <3>3, Frames, Zenon
    <2>6. \A o \in Ops : stagedImage'[o] = Absent
      <3>1. stagedImage \in [Ops -> File]
        BY <1>a, Zenon DEF TypeOK
      <3>2. ~ SwapRestoreVersion
        BY <2>2, Zenon DEF SwapRestoreVersion
      <3>3. ~ PrepareRestoreImage
        BY <1>a, <2>3, Held DEF PrepareRestoreImage
      <3>4. CASE FinalizeRestoreImage
        BY <2>3, <3>1, <3>4 DEF FinalizeRestoreImage
      <3>5. CASE AbortRestoreImage
        BY <2>3, <3>1, <3>5 DEF AbortRestoreImage
      <3>6. CASE RemoveRestoreState
        BY <3>6 DEF RemoveRestoreState
      <3>. QED
        BY <2>3, <3>2, <3>3, <3>4, <3>5, <3>6, Frames, Zenon
    <2>7. stagedManifest' = {}
      <3>1. ~ PrepareRestorePublish
        BY <2>2, Zenon DEF PrepareRestorePublish
      <3>2. FinalizeRestoreManifest \/ AbortRestoreManifest \/ RemoveRestoreState
              => stagedManifest' \subseteq stagedManifest
        BY DEF FinalizeRestoreManifest, AbortRestoreManifest, RemoveRestoreState
      <3>. QED
        BY <2>3, <3>1, <3>2, Frames
    <2>8. \A o \in Ops : rollback'[o].previousGeneration = 0
      <3>1. rollback \in [Ops -> [previousGeneration : 0..MaxGeneration, previousImage : Images]]
        BY <1>a, Zenon DEF TypeOK
      <3>2. ~ SwapRestoreRollback
        BY <2>2, Zenon DEF SwapRestoreRollback
      <3>3. CASE FinalizeRestoreRollback
        BY <2>3, <3>1, <3>3 DEF FinalizeRestoreRollback, NoRollback
      <3>4. CASE RemoveRestoreState
        BY <3>4 DEF RemoveRestoreState, NoRollback
      <3>5. CASE UNCHANGED rollback
        BY <2>3, <3>5
      <3>. QED
        BY <3>2, <3>3, <3>4, <3>5, Frames, Zenon
    <2>9. snapDir' = {}
      <3>1. ~ CreateSnapshotDirectory
        BY <2>2, Zenon DEF CreateSnapshotDirectory
      <3>2. ~ \E s \in Snapshots : DeleteWorkspaceSnapshotManifest(s)
        BY <2>3, Zenon DEF DeleteWorkspaceSnapshotManifest
      <3>3. DeleteSnapshotDirectory => snapDir' \subseteq snapDir
        BY DEF DeleteSnapshotDirectory
      <3>. QED
        BY <2>3, <3>1, <3>2, <3>3, Frames
    <2>. QED
      BY <2>3, <2>4, <2>5, <2>6, <2>7, <2>8, <2>9, Zenon DEF NothingOnDisk
  <1>. QED
    BY <1>1, <1>2, <1>3, Zenon

(***************************************************************************)
(* Snapshots exist only beside a manifest that is at least as new.         *)
(***************************************************************************)
LEMMA SnapshotFilesInv ==
  ASSUME IInv, Next
  PROVE  (\A z \in Snapshots : snapManifest[z] # 0 => z \in snapDir)'
         /\ (~ Published => snapDir = {})'
         /\ (\A z \in Snapshots : Published => snapManifest[z] <= manifest.generation)'
  <1>a. /\ TypeOK /\ HolderServes /\ SnapshotSteps /\ RemoveSteps
        /\ \A z \in Snapshots : snapManifest[z] # 0 => z \in snapDir
        /\ ~ Published => snapDir = {}
        /\ \A z \in Snapshots : Published => snapManifest[z] <= manifest.generation
    BY Zenon DEF IInv, SnapshotsBesideManifest
  <1>b. /\ snapManifest \in [Snapshots -> 0..MaxGeneration]
        /\ manifest.generation \in 0..MaxGeneration
    BY <1>a DEF TypeOK
  <1>1. (\A z \in Snapshots : snapManifest[z] # 0 => z \in snapDir)'
    <2>1. CASE UNCHANGED <<snapDir, snapManifest>>
      BY <1>a, <2>1, Zenon
    <2>2. CASE CreateSnapshotDirectory
      BY <1>a, <2>2 DEF CreateSnapshotDirectory
    <2>3. CASE DeleteSnapshotDirectory
      BY <1>a, <2>3 DEF DeleteSnapshotDirectory, SnapshotSteps
    <2>4. CASE CreateSnapshotPublish
      BY <1>a, <1>b, <2>4 DEF CreateSnapshotPublish, SnapshotSteps
    <2>5. CASE DeleteSnapshotManifest
      BY <1>a, <1>b, <2>5 DEF DeleteSnapshotManifest
    <2>6. ASSUME NEW s \in Snapshots, DeleteWorkspaceSnapshotManifest(s)
          PROVE  (\A z \in Snapshots : snapManifest[z] # 0 => z \in snapDir)'
      BY <1>a, <1>b, <2>6 DEF DeleteWorkspaceSnapshotManifest
    <2>. QED
      BY <2>1, <2>2, <2>3, <2>4, <2>5, <2>6, Frames, Zenon
  <1>2. (~ Published => snapDir = {})'
    <2>1. CASE RemoveManifest
      BY <1>a, <2>1, Zenon DEF RemoveManifest, RemoveSteps
    <2>2. CASE UNCHANGED manifest
      <3>1. CASE CreateSnapshotDirectory
        BY <3>1, Zenon DEF CreateSnapshotDirectory, Published
      <3>2. snapDir' \subseteq snapDir \/ CreateSnapshotDirectory
        <4>1. DeleteSnapshotDirectory => snapDir' \subseteq snapDir
          BY DEF DeleteSnapshotDirectory
        <4>2. ASSUME NEW s \in Snapshots, DeleteWorkspaceSnapshotManifest(s)
              PROVE  snapDir' \subseteq snapDir
          BY <4>2 DEF DeleteWorkspaceSnapshotManifest
        <4>. QED
          BY <4>1, <4>2, Frames, Zenon
      <3>. QED
        BY <1>a, <2>2, <3>1, <3>2 DEF Published
    <2>. QED
      BY <1>a, <2>1, <2>2, ManifestStep, Zenon
  <1>3. (\A z \in Snapshots : Published => snapManifest[z] <= manifest.generation)'
    <2>1. CASE RemoveManifest
      BY <2>1 DEF RemoveManifest, NoManifest, Published
    <2>2. CASE UNCHANGED <<manifest, snapManifest>>
      BY <1>a, <2>2, Zenon DEF Published
    <2>3. CASE CreateSnapshotPublish
      BY <1>a, <1>b, <2>3 DEF CreateSnapshotPublish, SnapshotSteps
    <2>4. CASE DeleteSnapshotManifest
      BY <1>a, <1>b, <2>4 DEF DeleteSnapshotManifest, Published
    <2>5. ASSUME NEW s \in Snapshots, DeleteWorkspaceSnapshotManifest(s)
          PROVE  (\A z \in Snapshots : Published => snapManifest[z] <= manifest.generation)'
      BY <1>a, <1>b, <2>5 DEF DeleteWorkspaceSnapshotManifest, Published
    <2>6. ASSUME UNCHANGED snaps, Published, Published', manifest'.generation >= manifest.generation
          PROVE  (\A z \in Snapshots : Published => snapManifest[z] <= manifest.generation)'
      <3>1. manifest'.generation \in 0..MaxGeneration
        BY <1>a, TypeInv DEF TypeOK
      <3>. QED
        BY <1>a, <1>b, <2>6, <3>1
    <2>7. ASSUME UNCHANGED snaps, ~ Published, Published'
          PROVE  (\A z \in Snapshots : Published => snapManifest[z] <= manifest.generation)'
      <3>1. manifest'.generation \in 0..MaxGeneration
        BY <1>a, TypeInv DEF TypeOK
      <3>. QED
        BY <1>a, <1>b, <2>7, <3>1
    <2>. QED
      BY <2>1, <2>2, <2>3, <2>4, <2>5, <2>6, <2>7, ManifestStep, Frames, Zenon
  <1>. QED
    BY <1>1, <1>2, <1>3, Zenon

-----------------------------------------------------------------------------
(***************************************************************************)
(* An image named after an operation comes from a restore or an import.    *)
(***************************************************************************)
LEMMA ImageRequestInv ==
  ASSUME IInv, Next
  PROVE  (Published /\ manifest.image \in Ops =>
           request[manifest.image].kind \in {"restore", "relocate_in"})'
  <1>. DEFINE Named == Published /\ manifest.image \in Ops =>
                         request[manifest.image].kind \in {"restore", "relocate_in"}
  <1>a. Named /\ TypeOK /\ HolderServes
    BY Zenon DEF IInv, SnapshotsBesideManifest
  <1>b. manifest \in [generation : 0..MaxGeneration, image : Images, sealed : BOOLEAN]
    BY <1>a, Zenon DEF TypeOK
  <1>c. /\ holder = "restore_swap" => op \in Ops /\ request[op].kind = "restore"
        /\ holder = "relocation_import" => op \in Ops /\ request[op].kind = "relocate_in"
    BY <1>a, KindsList DEF HolderServes, Serves
  <1>1. ASSUME NEW o \in Ops, NEW k, NEW i \in Requests, Calls(o, k, i), UNCHANGED manifest
        PROVE  Named'
    <2>1. /\ request'[o] = i /\ (request[o] = i \/ request[o].kind = "none")
          /\ \A p \in Ops \ {o} : request'[p] = request[p]
      <3>1. request \in [Ops -> AllRequests \cup {NoRequest}]
        BY <1>a, Zenon DEF TypeOK
      <3>2. request' = [request EXCEPT ![o] = i] /\ request[o] \in {NoRequest, i}
        BY <1>1, Zenon DEF Calls
      <3>. QED
        BY <3>1, <3>2 DEF NoRequest
    <2>2. manifest' = manifest
      BY <1>1
    <2>3. ASSUME Published, manifest.image \in Ops
          PROVE  request'[manifest.image] = request[manifest.image]
      BY <1>a, <2>1, <2>3, Zenon
    <2>. QED
      BY <1>a, <2>2, <2>3, Zenon DEF Published
  <1>2. CASE Enter
    BY <1>1, <1>2, Zenon DEF Enter, mutate, BeginRelocationImport
  <1>3. CASE UNCHANGED <<request, manifest>>
    BY <1>a, <1>3, Zenon DEF Published
  <1>4. CASE CreatePublish
    BY <1>4, StoreAssumption DEF CreatePublish
  <1>5. CASE AdvanceGeneration
    BY <1>a, <1>b, <1>5, Held DEF AdvanceGeneration, Published
  <1>6. CASE SwapRestorePublish
    BY <1>c, <1>6 DEF SwapRestorePublish
  <1>7. CASE RemoveManifest
    BY <1>7 DEF RemoveManifest, NoManifest, Published
  <1>8. CASE SealRelocationExport
    BY <1>a, <1>b, <1>8, Held DEF SealRelocationExport, Published
  <1>9. CASE AbortRelocation
    BY <1>a, <1>b, <1>9, Held DEF AbortRelocation, Published
  <1>10. CASE ImportPublish
    BY <1>c, <1>10 DEF ImportPublish
  <1>. QED
    BY <1>2, <1>3, <1>4, <1>5, <1>6, <1>7, <1>8, <1>9, <1>10, Frames, Zenon

(***************************************************************************)
(* Only the publication of an import leaves a new import unacknowledged.   *)
(***************************************************************************)
LEMMA UnacknowledgedStep ==
  ASSUME IInv, Next
  PROVE  ImportUnacknowledged' => ImportUnacknowledged \/ ImportPublish
  <1>. SUFFICES ASSUME ImportUnacknowledged', ~ ImportPublish
                PROVE  ImportUnacknowledged
    OBVIOUS
  <1>1. PICK p \in Ops : /\ Published' /\ manifest'.image = p
                         /\ request'[p].kind = "relocate_in"
                         /\ ~ HasReceipt(p, "relocation_import")'
    BY Zenon DEF ImportUnacknowledged
  <1>a. /\ TypeOK /\ HolderServes /\ DeleteSteps /\ (~ layout => NothingOnDisk)
        /\ Published /\ manifest.image \in Ops =>
             request[manifest.image].kind \in {"restore", "relocate_in"}
    BY Zenon DEF IInv, SnapshotsBesideManifest
  <1>b. manifest \in [generation : 0..MaxGeneration, image : Images, sealed : BOOLEAN]
    BY <1>a, Zenon DEF TypeOK
  <1>2. ~ HasReceipt(p, "relocation_import")
    <2>1. CASE UNCHANGED receipts
      BY <1>1, <2>1, Zenon DEF HasReceipt
    <2>2. CASE recordReceipt
      BY <1>1, <2>2 DEF recordReceipt, HasReceipt
    <2>3. ASSUME NEW r \in receipts, DeleteWorkspaceReceipt(r)
          PROVE  FALSE
      <3>1. ~ layout /\ UNCHANGED manifest
        BY <1>a, <2>3, Zenon DEF DeleteWorkspaceReceipt, DeleteSteps
      <3>. QED
        BY <1>1, <1>a, <3>1, Zenon DEF NothingOnDisk, Published
    <2>. QED
      BY <2>1, <2>2, <2>3, Frames, Zenon
  <1>3. Published /\ manifest.image = p
    <2>1. ~ CreatePublish
      BY <1>1, StoreAssumption DEF CreatePublish
    <2>2. ~ RemoveManifest
      BY <1>1 DEF RemoveManifest, NoManifest, Published
    <2>3. ~ SwapRestorePublish
      <3>1. holder = "restore_swap" => request[op].kind = "restore"
        BY <1>a, KindsList DEF HolderServes, Serves
      <3>. QED
        BY <1>1, <3>1 DEF SwapRestorePublish
    <2>4. CASE AdvanceGeneration
      BY <1>1, <1>a, <1>b, <2>4, Held DEF AdvanceGeneration, Published
    <2>5. CASE SealRelocationExport
      BY <1>1, <1>a, <1>b, <2>5, Held DEF SealRelocationExport, Published
    <2>6. CASE AbortRelocation
      BY <1>1, <1>a, <1>b, <2>6, Held DEF AbortRelocation, Published
    <2>7. CASE UNCHANGED manifest
      BY <1>1, <2>7, Zenon DEF Published
    <2>. QED
      BY <2>1, <2>2, <2>3, <2>4, <2>5, <2>6, <2>7, Frames, Zenon
  <1>4. request[p].kind = "relocate_in"
    <2>1. ASSUME NEW o \in Ops, NEW k, NEW i \in Requests, Calls(o, k, i)
          PROVE  request[p].kind = "relocate_in"
      <3>1. /\ request'[o] = i /\ (request[o] = i \/ request[o].kind = "none")
            /\ \A q \in Ops \ {o} : request'[q] = request[q]
        <4>1. request \in [Ops -> AllRequests \cup {NoRequest}]
          BY <1>a, Zenon DEF TypeOK
        <4>2. request' = [request EXCEPT ![o] = i] /\ request[o] \in {NoRequest, i}
          BY <2>1, Zenon DEF Calls
        <4>. QED
          BY <4>1, <4>2 DEF NoRequest
      <3>2. request[p].kind # "none"
        BY <1>a, <1>3, Zenon
      <3>. QED
        BY <1>1, <3>1, <3>2, Zenon
    <2>2. CASE Enter
      BY <2>1, <2>2, Zenon DEF Enter, mutate, BeginRelocationImport
    <2>3. CASE UNCHANGED request
      BY <1>1, <2>3, Zenon
    <2>. QED
      BY <2>2, <2>3, Frames, Zenon
  <1>. QED
    BY <1>2, <1>3, <1>4, Zenon DEF ImportUnacknowledged

(* A Snapshot directory is added by CreateSnapshot alone.                  *)
LEMMA DirectoriesStep ==
  ASSUME Next
  PROVE  \/ snapDir' \subseteq snapDir
         \/ CreateSnapshotDirectory /\ UNCHANGED <<manifest, holder>>
  <1>1. DeleteSnapshotDirectory => snapDir' \subseteq snapDir
    BY DEF DeleteSnapshotDirectory
  <1>2. ASSUME NEW s \in Snapshots, DeleteWorkspaceSnapshotManifest(s)
        PROVE  snapDir' \subseteq snapDir
    BY <1>2 DEF DeleteWorkspaceSnapshotManifest
  <1>3. CreateSnapshotDirectory => UNCHANGED <<manifest, holder>>
    BY Zenon DEF CreateSnapshotDirectory
  <1>. QED
    BY <1>1, <1>2, <1>3, Frames, Zenon

(* While an import is unacknowledged no Snapshot exists and no other       *)
(* mutation runs.                                                          *)
LEMMA ImportUnackInv ==
  ASSUME IInv, Next
  PROVE  /\ (ImportUnacknowledged => snapDir = {})'
         /\ (holder \in {"relocation_import", "import_abort"} => snapDir = {})'
         /\ (holder \in Kinds \ {"relocation_import"} => ~ ImportUnacknowledged)'
  <1>a. /\ TypeOK
        /\ ImportUnacknowledged => snapDir = {}
        /\ holder \in {"relocation_import", "import_abort"} => snapDir = {}
        /\ holder \in Kinds \ {"relocation_import"} => ~ ImportUnacknowledged
        /\ ~ Published => snapDir = {}
        /\ Published /\ manifest.image \in Ops =>
             request[manifest.image].kind \in {"restore", "relocate_in"}
    BY Zenon DEF IInv, SnapshotsBesideManifest
  <1>b. CreateSnapshotDirectory => holder = "snapshot_create" /\ ~ ImportPublish /\ ~ ImportUnacknowledged
    BY <1>a, KindsList, Zenon DEF CreateSnapshotDirectory, ImportPublish
  <1>c. ImportPublish => holder = "relocation_import" /\ UNCHANGED <<snapDir, holder>>
    BY Zenon DEF ImportPublish
  <1>d. \A S : S \subseteq {} => S = {}
    OBVIOUS
  <1>1. (ImportUnacknowledged => snapDir = {})'
    BY <1>a, <1>b, <1>c, <1>d, DirectoriesStep, UnacknowledgedStep, Zenon
  <1>2. (holder \in {"relocation_import", "import_abort"} => snapDir = {})'
    <2>1. ASSUME NEW o \in Ops, NEW k \in Kinds, NEW i \in Requests, mutate(o, k, i)
          PROVE  holder' \notin {"relocation_import", "import_abort"}
      BY <2>1, KindsList, Zenon DEF mutate
    <2>2. ASSUME NEW o \in Ops, NEW i \in Requests, BeginRelocationImport(o, i)
          PROVE  snapDir' = {}
      <3>1. /\ Calls(o, "relocation_import", i) /\ UNCHANGED snapDir
            /\ ~ HasReceipt(o, "relocation_import")
            /\ Published => manifest.image = o
        BY <2>2, Zenon DEF BeginRelocationImport
      <3>2. i.kind = "relocate_in" /\ (request[o] = i \/ request[o].kind = "none")
        BY ONLY <1>a, <3>1, Called, Zenon
      <3>3. Published => ImportUnacknowledged
        BY <1>a, <3>1, <3>2, Zenon DEF ImportUnacknowledged
      <3>. QED
        BY <1>a, <3>1, <3>3, Zenon
    <2>3. CASE ~ Enter
      <3>1. holder' \in {"relocation_import", "import_abort"} =>
              holder \in {"relocation_import", "import_abort"}
        BY <2>3, LockFrames, KindsList, Zenon
      <3>. QED
        BY <1>a, <1>b, <1>d, <3>1, DirectoriesStep, Zenon
    <2>. QED
      BY <2>1, <2>2, <2>3, Zenon DEF Enter
  <1>3. (holder \in Kinds \ {"relocation_import"} => ~ ImportUnacknowledged)'
    <2>1. ASSUME NEW o \in Ops, NEW k \in Kinds, NEW i \in Requests, mutate(o, k, i)
          PROVE  ~ ImportUnacknowledged'
      <3>1. Calls(o, k, i) /\ Admissible(o, i) /\ k # "relocation_import" /\ holder = "none"
        BY <2>1, Zenon DEF mutate, Calls
      <3>2. i.kind # "relocate_in"
        BY ONLY <1>a, <3>1, Called, Zenon
      <3>. QED
        BY <1>c, <3>1, <3>2, UnacknowledgedStep, Zenon DEF Admissible
    <2>2. ASSUME NEW o \in Ops, NEW i \in Requests, BeginRelocationImport(o, i)
          PROVE  holder' = "relocation_import"
      BY <2>2, Zenon DEF BeginRelocationImport
    <2>3. CASE ~ Enter
      BY <1>a, <1>c, <2>3, LockFrames, UnacknowledgedStep, Zenon
    <2>. QED
      BY <2>1, <2>2, <2>3, Zenon DEF Enter
  <1>. QED
    BY <1>1, <1>2, <1>3, Zenon

(***************************************************************************)
(* No receipt is ahead of the published manifest.                          *)
(***************************************************************************)
LEMMA ReceiptsInv ==
  ASSUME IInv, Next
  PROVE  ReceiptsNotAhead'
  <1>a. TypeOK /\ ReceiptsNotAhead /\ ResultNotAhead /\ CreateSteps /\ ImportSteps /\ HolderServes
    BY Zenon DEF IInv
  <1>b. /\ receipts \in SUBSET [op : Ops, kind : Kinds, previous : 0..MaxGeneration,
                                generation : 0..MaxGeneration]
        /\ manifest.generation \in 0..MaxGeneration
    BY <1>a DEF TypeOK
  <1>c. manifest'.generation \in 0..MaxGeneration
    BY <1>a, TypeInv DEF TypeOK
  <1>1. CASE UNCHANGED <<manifest, receipts>>
    BY <1>a, <1>1, Zenon DEF ReceiptsNotAhead, Published
  <1>2. CASE recordReceipt
    BY <1>a, <1>2 DEF recordReceipt, ResultNotAhead, ReceiptsNotAhead, Published
  <1>3. ASSUME NEW r \in receipts, DeleteWorkspaceReceipt(r)
        PROVE  ReceiptsNotAhead'
    BY <1>a, <1>3 DEF DeleteWorkspaceReceipt, ReceiptsNotAhead, Published
  <1>4. CASE CreatePublish
    BY <1>a, <1>4, Held DEF CreatePublish, CreateSteps, ReceiptsNotAhead
  <1>5. CASE ImportPublish
    BY <1>a, <1>5, Zenon DEF ImportPublish, ImportSteps, ReceiptsNotAhead
  <1>6. CASE RemoveManifest
    BY <1>6 DEF RemoveManifest, NoManifest, ReceiptsNotAhead, Published
  <1>7. ASSUME UNCHANGED receipts, Published, manifest'.generation >= manifest.generation
        PROVE  ReceiptsNotAhead'
    BY <1>a, <1>b, <1>c, <1>7 DEF ReceiptsNotAhead
  <1>8. CASE AdvanceGeneration \/ SwapRestorePublish \/ SealRelocationExport \/ AbortRelocation
    <2>1. /\ AdvanceGeneration => Published
          /\ SwapRestorePublish => Published
          /\ SealRelocationExport => Published
          /\ AbortRelocation => Published
          /\ ~ RemoveManifest
      <3>1. RestoreSteps
        BY Zenon DEF IInv
      <3>2. AdvanceGeneration \/ SealRelocationExport \/ AbortRelocation => Published
        BY <1>a, Held DEF AdvanceGeneration, SealRelocationExport, AbortRelocation, Published
      <3>3. SwapRestorePublish => Published
        BY <3>1, Zenon DEF SwapRestorePublish, RestoreSteps
      <3>4. ~ RemoveManifest
        BY <1>8, Zenon DEF RemoveManifest, AdvanceGeneration, SwapRestorePublish,
           SealRelocationExport, AbortRelocation, Removers
      <3>. QED
        BY <3>2, <3>3, <3>4, Zenon
    <2>2. UNCHANGED receipts
      BY <1>8, Zenon DEF AdvanceGeneration, SwapRestorePublish, SealRelocationExport, AbortRelocation
    <2>. QED
      BY <1>1, <1>7, <1>8, <2>1, <2>2, ManifestStep, Zenon
  <1>. QED
    BY <1>1, <1>2, <1>3, <1>4, <1>5, <1>6, <1>8, Frames, Zenon

(***************************************************************************)
(* Nor is the result a mutation is about to record.                        *)
(***************************************************************************)
LEMMA ResultInv ==
  ASSUME IInv, Next
  PROVE  ResultNotAhead'
  <1>a. TypeOK /\ HolderServes /\ ResultNotAhead
    BY Zenon DEF IInv
  <1>b. SnapshotSteps /\ SnapshotsBesideManifest /\ ReceiptsNotAhead
    BY Zenon DEF IInv
  <1>c. /\ manifest \in [generation : 0..MaxGeneration, image : Images, sealed : BOOLEAN]
        /\ snapManifest \in [Snapshots -> 0..MaxGeneration]
    BY <1>a, Zenon DEF TypeOK
  <1>d. manifest'.generation \in 0..MaxGeneration /\ out.generation \in 0..MaxGeneration
    BY <1>a, TypeInv DEF TypeOK
  <1>1. CASE UNCHANGED <<manifest, holder, out>>
    BY <1>1, <1>a, Zenon DEF ResultNotAhead, Published
  <1>2. CASE out' = NoResult
    BY <1>2, <1>d DEF NoResult, ResultNotAhead
  <1>3. CASE holder' \in {"restore_prepare", "restore_abort"}
    BY <1>3, Zenon DEF ResultNotAhead
  <1>4. CASE CreateLayout
    BY <1>4, <1>a DEF CreateLayout, ResultNotAhead, Published
  <1>5. CASE CreatePublish
    BY <1>5 DEF CreatePublish, ResultNotAhead, Published
  <1>6. CASE AdvanceGeneration
    BY <1>6, <1>a, <1>c, Held DEF AdvanceGeneration, ResultNotAhead, Published
  <1>7. CASE CreateSnapshotDirectory
    BY <1>7, <1>a, <1>c, Held DEF CreateSnapshotDirectory, ResultNotAhead, Published
  <1>8. CASE CreateSnapshotPublish
    BY <1>8, <1>a, <1>b, <1>c, Held DEF CreateSnapshotPublish, SnapshotSteps, ResultNotAhead, Published
  <1>9. CASE DeleteSnapshotImage
    <2>1. UNCHANGED manifest /\ SnapshotOf(op) \in Snapshots
      BY <1>a, <1>9, Held, Zenon DEF DeleteSnapshotImage
    <2>2. out'.generation \in {0, snapManifest[SnapshotOf(op)]}
      <3>1. \/ out' = [previous |-> 0, generation |-> 0]
            \/ out' = [previous |-> 0, generation |-> snapManifest[SnapshotOf(op)]]
        BY <1>9, Zenon DEF DeleteSnapshotImage
      <3>. QED
        BY <3>1
    <2>3. Published => snapManifest[SnapshotOf(op)] <= manifest.generation
      BY <1>b, <2>1, Zenon DEF SnapshotsBesideManifest
    <2>. QED
      BY <1>c, <2>1, <2>2, <2>3 DEF ResultNotAhead, Published
  <1>10. CASE SwapRestoreVersion
    <2>1. holder = "restore_swap" /\ UNCHANGED <<manifest, holder>>
      BY <1>10, Zenon DEF SwapRestoreVersion
    <2>2. \/ out' = out
          \/ /\ manifest.generation = NextGen(op)
             /\ out' = [previous |-> rollback[op].previousGeneration, generation |-> NextGen(op)]
      BY <1>10, Zenon DEF SwapRestoreVersion, RestoreSelected
    <2>. QED
      BY <1>a, <1>c, <2>1, <2>2 DEF ResultNotAhead, Published
  <1>11. CASE SwapRestorePublish
    <2>1. /\ holder = "restore_swap"
          /\ manifest' = [generation |-> NextGen(op), image |-> op, sealed |-> FALSE]
          /\ out' = [previous |-> Expected(op), generation |-> NextGen(op)]
      BY <1>11, Zenon DEF SwapRestorePublish
    <2>2. NextGen(op) \in 1..MaxGeneration
      BY <1>a, <2>1, Held, Zenon
    <2>. QED
      BY <2>1, <2>2 DEF ResultNotAhead
  <1>12. CASE FinalizeRestorePrevious
    <2>1. UNCHANGED manifest /\ holder' = "restore_finalize"
      BY <1>12, Zenon DEF FinalizeRestorePrevious
    <2>2. CASE RestoreSelected(op) /\ out'.generation = NextGen(op)
      BY <1>c, <2>1, <2>2 DEF RestoreSelected, ResultNotAhead
    <2>3. ASSUME NEW r \in receipts, r.kind = "restore_swap", out'.generation = r.generation
          PROVE  ResultNotAhead'
      BY <1>b, <2>1, <2>3, Zenon DEF ReceiptsNotAhead, ResultNotAhead, Published
    <2>. QED
      <3>1. \/ /\ RestoreSelected(op)
               /\ out' = [previous |-> rollback[op].previousGeneration, generation |-> NextGen(op)]
            \/ \E r \in receipts : /\ r.kind = "restore_swap"
                                   /\ out' = [previous |-> r.previous, generation |-> r.generation]
        BY <1>12, Zenon DEF FinalizeRestorePrevious
      <3>. QED
        BY <2>2, <2>3, <3>1
  <1>13. CASE DeleteWorkspace
    BY <1>13, <1>a, <1>c, Held DEF DeleteWorkspace, ResultNotAhead, Published
  <1>14. CASE SealRelocationExport
    BY <1>14, <1>a, <1>c, Held DEF SealRelocationExport, ResultNotAhead, Published
  <1>15. CASE AbortRelocation
    BY <1>15, <1>a, <1>c, Held DEF AbortRelocation, ResultNotAhead, Published
  <1>16. CASE ImportPublish
    <2>1. /\ holder = "relocation_import"
          /\ manifest' = [generation |-> Expected(op), image |-> op, sealed |-> FALSE]
          /\ out' = [previous |-> 0, generation |-> Expected(op)]
      BY <1>16, Zenon DEF ImportPublish
    <2>2. Expected(op) \in 1..MaxGeneration
      BY <1>a, <2>1, Held, Zenon
    <2>. QED
      BY <2>1, <2>2 DEF ResultNotAhead
  <1>17. CASE RemoveManifest
    BY <1>17 DEF RemoveManifest, NoManifest, ResultNotAhead, Published
  <1>18. CASE AbortImport
    BY <1>18, <1>a, Zenon DEF AbortImport, ResultNotAhead, Published
  <1>e. PrepareRestoreImage \/ PrepareRestorePublish \/ AbortRestoreImage
          => holder' \in {"restore_prepare", "restore_abort"}
    BY Zenon DEF PrepareRestoreImage, PrepareRestorePublish, AbortRestoreImage
  <1>f. UNCHANGED out =>
          \/ out = NoResult
          \/ UNCHANGED holder \/ AbortImport
    BY LockFrames, EnterFrames, OtherFrames, Zenon DEF Unlock
  <1>. QED
    BY <1>1, <1>2, <1>3, <1>4, <1>5, <1>6, <1>7, <1>8, <1>9, <1>10, <1>11, <1>12, <1>13,
       <1>14, <1>15, <1>16, <1>17, <1>18, <1>e, <1>f, LockFrames, Frames, Zenon

(***************************************************************************)
(* The invariant holds initially and every step of the store keeps it.     *)
(***************************************************************************)
LEMMA InitInv == Init => IInv
  <1>. SUFFICES ASSUME Init PROVE IInv
    OBVIOUS
  <1>. USE StoreAssumption DEF Init, NoManifest, NoRollback, NoResult, Published, PendingRestores, RollbackOps
  <1>1. TypeOK
    <2>1. layout \in BOOLEAN /\ removing \in BOOLEAN
      BY Zenon
    <2>2. manifest \in [generation : 0..MaxGeneration, image : Images, sealed : BOOLEAN]
      BY SMTT(30) DEF Images
    <2>3. request \in [Ops -> AllRequests \cup {NoRequest}]
      OBVIOUS
    <2>4. /\ versions \in [Images -> File] /\ stagedImage \in [Ops -> File]
          /\ stagedManifest \in SUBSET Ops
          /\ rollback \in [Ops -> [previousGeneration : 0..MaxGeneration, previousImage : Images]]
          /\ snapDir \in SUBSET Snapshots /\ snapImage \in [Snapshots -> File]
          /\ snapManifest \in [Snapshots -> 0..MaxGeneration]
      BY SMTT(30) DEF Images, File
    <2>5. /\ holder \in Kinds \cup {"none", "compute", "export", "import_abort"}
          /\ op \in Ops \cup {NoOp}
          /\ out \in [previous : 0..MaxGeneration, generation : 0..MaxGeneration]
      BY SMTT(30)
    <2>6. receipts \in SUBSET [op : Ops, kind : Kinds, previous : 0..MaxGeneration,
                                generation : 0..MaxGeneration]
      OBVIOUS
    <2>. HIDE DEF Init
    <2>. QED
      BY <2>1, <2>2, <2>3, <2>4, <2>5, <2>6, Zenon DEF TypeOK
  <1>2. holder \notin Kinds
    BY SMTT(30), KindsList
  <1>3. HolderServes /\ CreateSteps /\ SnapshotSteps /\ RestoreSteps /\ ImportSteps /\ RemoveSteps /\ DeleteSteps
    BY <1>2, KindsList DEF HolderServes, CreateSteps, CreateKinds, SnapshotSteps, RestoreSteps,
       ImportSteps, RemoveSteps, Removers, DeleteSteps
  <1>4. CurrentImageNeverLost /\ OneRestorePending /\ ReceiptsNotAhead /\ ResultNotAhead
    BY SMTT(30) DEF CurrentImageNeverLost, OneRestorePending, ReceiptsNotAhead, ResultNotAhead
  <1>5. NothingOnDisk
    BY DEF NothingOnDisk
  <1>6. SnapshotsBesideManifest
    BY <1>2, Zenon DEF SnapshotsBesideManifest, ImportUnacknowledged
  <1>7. /\ removing => Published
        /\ manifest.sealed => Published
        /\ holder = "compute" => Published /\ ~ manifest.sealed
    OBVIOUS
  <1>. QED
    BY <1>1, <1>3, <1>4, <1>5, <1>6, <1>7, Zenon DEF IInv

(* Every step, and every stuttering step, keeps the inductive invariant.   *)
LEMMA StepInv == IInv /\ [Next]_vars => IInv'
  <1>1. ASSUME IInv, Next PROVE IInv'
    <2>1. TypeOK' /\ HolderServes'
      BY <1>1, TypeInv, HolderServesInv, Zenon DEF IInv
    <2>2. SnapshotsBesideManifest'
      BY <1>1, SnapshotFilesInv, ImportUnackInv, ImageRequestInv, Zenon DEF SnapshotsBesideManifest
    <2>. QED
      BY <1>1, <2>1, <2>2, CurrentImageInv, OneRestoreInv, ReceiptsInv, ResultInv, ComputeInv,
         DiskInv,
         CreateStepsInv, SnapshotStepsInv, RestoreStepsInv, ImportStepsInv, RemoveStepsInv, DeleteStepsInv,
         Zenon DEF IInv
  <1>2. ASSUME IInv, UNCHANGED vars PROVE IInv'
    <2>1. TypeOK' /\ HolderServes'
      BY <1>2 DEF IInv, TypeOK, HolderServes
    <2>2. /\ CurrentImageNeverLost' /\ OneRestorePending' /\ ReceiptsNotAhead'
          /\ (removing => Published)' /\ (manifest.sealed => Published)'
          /\ (holder = "compute" => Published /\ ~ manifest.sealed)'
          /\ ResultNotAhead'
      BY <1>2 DEF IInv, CurrentImageNeverLost, CurrentImagePresent, OneRestorePending,
         PendingRestores, RollbackOps, ReceiptsNotAhead, Published, ResultNotAhead
    <2>3. (~ layout => NothingOnDisk)'
      BY <1>2, Zenon DEF IInv, NothingOnDisk, Published
    <2>4. CreateSteps' /\ SnapshotSteps' /\ RestoreSteps' /\ ImportSteps'
      BY <1>2 DEF IInv, CreateSteps, SnapshotSteps, RestoreSteps, ImportSteps, Published, Expected,
         SnapshotOf, PendingRestores, RollbackOps
    <2>5. RemoveSteps' /\ DeleteSteps' /\ SnapshotsBesideManifest'
      BY <1>2 DEF IInv, RemoveSteps, DeleteSteps, SnapshotsBesideManifest, ImportUnacknowledged,
         HasReceipt, Published
    <2>. QED
      BY <2>1, <2>2, <2>3, <2>4, <2>5, Zenon DEF IInv
  <1>. QED
    BY <1>1, <1>2, Zenon

(* The inductive invariant holds in every reachable state.                 *)
LEMMA Invariance == Spec => []IInv
  BY InitInv, StepInv, PTL DEF Spec

(***************************************************************************)
(* Every file holds what the store's manifests and receipts may hold.      *)
(***************************************************************************)
THEOREM TypeCorrect == Spec => []TypeOK
  <1>1. IInv => TypeOK
    BY DEF IInv
  <1>. QED
    BY <1>1, Invariance, PTL

(***************************************************************************)
(* The image that the current manifest selects survives every sequence of  *)
(* mutations, retries and crashes until the Workspace is removed.          *)
(***************************************************************************)
THEOREM ImageNeverLost == Spec => []CurrentImageNeverLost
  <1>1. IInv => CurrentImageNeverLost
    BY DEF IInv
  <1>. QED
    BY <1>1, Invariance, PTL

(***************************************************************************)
(* PrepareRestore never admits a second restore beside a staged one or one *)
(* that has not been finalized.                                            *)
(***************************************************************************)
THEOREM SingleRestore == Spec => []OneRestorePending
  <1>1. IInv => OneRestorePending
    BY DEF IInv
  <1>. QED
    BY <1>1, Invariance, PTL

(***************************************************************************)
(* A receipt is never ahead of the manifest on disk: recordReceipt runs    *)
(* after the manifest it reports has been published.                       *)
(***************************************************************************)
THEOREM ReceiptAfterEffect == Spec => []ReceiptsNotAhead
  <1>1. IInv => ReceiptsNotAhead
    BY SMTT(30) DEF IInv
  <1>. QED
    BY <1>1, Invariance, PTL

(***************************************************************************)
(* DeleteWorkspace acknowledges a removal only when nothing is left.       *)
(***************************************************************************)
THEOREM DeleteComplete == Spec => []DeleteLeavesNothing
  <1>1. IInv => DeleteLeavesNothing
    BY DEF IInv, DeleteSteps, NothingOnDisk, DeleteLeavesNothing, RestorePending,
       PendingRestores, RollbackOps
  <1>. QED
    BY <1>1, Invariance, PTL

(***************************************************************************)
(* No step of a mutation, of compute or of a removal that has not begun    *)
(* changes the bytes of a sealed Workspace: what OpenRelocationExport      *)
(* streams is what SealRelocationExport sealed.                            *)
(***************************************************************************)
THEOREM SealedBytes == Spec => SealedBytesStable
  <1>. DEFINE Stable == manifest.sealed /\ manifest'.sealed /\ ~ removing'
                          => versions'[manifest'.image] = versions[manifest.image]
  <1>1. ASSUME IInv, Next PROVE Stable
    <2>. SUFFICES ASSUME manifest.sealed, manifest'.sealed, ~ removing'
                  PROVE  versions'[manifest'.image] = versions[manifest.image]
      OBVIOUS
    <2>a. /\ TypeOK /\ CreateSteps /\ ImportSteps /\ RemoveSteps /\ CurrentImageNeverLost
          /\ manifest.sealed => Published
          /\ holder = "compute" => ~ manifest.sealed
      BY <1>1, Zenon DEF IInv
    <2>b. /\ manifest \in [generation : 0..MaxGeneration, image : Images, sealed : BOOLEAN]
          /\ versions \in [Images -> File]
      BY <2>a, Zenon DEF TypeOK
    <2>1. manifest'.image = manifest.image
      <3>1. CASE AdvanceGeneration \/ SealRelocationExport \/ AbortRelocation
        BY <2>b, <3>1, Zenon DEF AdvanceGeneration, SealRelocationExport, AbortRelocation
      <3>2. ~ CreatePublish /\ ~ SwapRestorePublish
        <4>1. CreatePublish => manifest' = [generation |-> 1, image |-> Base, sealed |-> FALSE]
          BY Zenon DEF CreatePublish
        <4>2. SwapRestorePublish => manifest' = [generation |-> NextGen(op), image |-> op, sealed |-> FALSE]
          BY Zenon DEF SwapRestorePublish
        <4>. QED
          BY <4>1, <4>2
      <3>3. ~ RemoveManifest /\ ~ ImportPublish
        <4>1. RemoveManifest => manifest' = NoManifest
          BY Zenon DEF RemoveManifest
        <4>2. ImportPublish => manifest' = [generation |-> Expected(op), image |-> op, sealed |-> FALSE]
          BY Zenon DEF ImportPublish
        <4>. QED
          BY <4>1, <4>2 DEF NoManifest
      <3>. QED
        BY <1>1, <3>1, <3>2, <3>3, Frames, Zenon
    <2>2. versions'[manifest.image] = versions[manifest.image]
      <3>1. ~ CreateImage /\ ~ ImportImage /\ ~ \E d \in Data : GuestWrite(d)
        BY <2>a, Zenon DEF CreateImage, CreateSteps, ImportImage, ImportSteps, GuestWrite
      <3>2. ~ \E i \in Images : RemoveVersion(i)
        <4>1. ASSUME NEW i \in Images, RemoveVersion(i)
              PROVE  holder \in Removers /\ pc = "versions" /\ UNCHANGED removing
          BY <4>1, Zenon DEF RemoveVersion
        <4>2. Published /\ ~ removing => ~ (holder \in Removers /\ pc = "versions")
          BY <2>a, Zenon DEF RemoveSteps
        <4>3. UNCHANGED removing => ~ removing
          OBVIOUS
        <4>. QED
          BY <2>a, <4>1, <4>2, <4>3, Zenon
      <3>3. CASE SwapRestoreVersion
        BY <2>a, <2>b, <3>3 DEF SwapRestoreVersion, CurrentImageNeverLost, CurrentImagePresent
      <3>4. CASE FinalizeRestorePrevious
        BY <2>b, <3>4, Zenon DEF FinalizeRestorePrevious, RestoreSelected
      <3>. QED
        BY <1>1, <3>1, <3>2, <3>3, <3>4, Frames, Zenon
    <2>. QED
      BY <2>1, <2>2, Zenon
  <1>2. ASSUME UNCHANGED vars PROVE Stable
    BY <1>2, Zenon
  <1>3. IInv /\ [Next]_vars => [Stable]_vars
    BY <1>1, <1>2, Zenon
  <1>. QED
    BY <1>3, Invariance, PTL DEF Spec, SealedBytesStable
=============================================================================
