---------------------- MODULE SandboxLifecycleInvariant ----------------------
(***************************************************************************)
(* The conjuncts of the inductive invariant about the Runner, the commands *)
(* and the stop effects are preserved while a generation lasts, and what   *)
(* each step may do to the desired and observed state and to a claim.      *)
(***************************************************************************)
EXTENDS SandboxLifecycleSteps

(* A Workspace that is being created or is deleted has no Instance.        *)
LEMMA WorkspaceKept ==
  ASSUME LifecycleInv, KeptStep
  PROVE  WorkspaceInv'
  (* Evidence of a create: the image exists.                                 *)
  <1>CreateSeen. ASSUME link \in LinkTypes, rn \in RnTypes, Runner, NEW m, NewEvidence(m), m.kind = "create", m.ok
                 PROVE  rn'.manifest = IF rn.manifest = 0 THEN 1 ELSE rn.manifest
    <2>. USE <1>CreateSeen
    <2>1. handleCreate
      BY NewKind, Zenon
    <2>2. link.down # <<>> /\ "create" \in EventKinds
      BY <2>1, Zenon DEF handleCreate, Receives, EventKinds
    <2>3. \/ rn' = [rn EXCEPT !.manifest = IF @ = 0 THEN 1 ELSE @]
          \/ Reply(<<NoEvidence("create")>>)
      BY <2>1, Zenon DEF handleCreate
    <2>4. ~Reply(<<NoEvidence("create")>>)
      <3>1. NoEvidence("create") \in Events /\ ~NoEvidence("create").ok
        BY <2>2, NoEvidenceFields, Zenon
      <3>2. Reply(<<NoEvidence("create")>>) => Evidence' = Evidence \cup {NoEvidence("create")}
        BY <2>2, <3>1, Replied, Zenon DEF Adds
      <3>. QED BY <3>1, <3>2, Zenon DEF NewEvidence
    <2>. QED BY <2>3, <2>4, Zenon DEF RnTypes
  (* A Workspace that is being created was being created before.             *)
  <1>CreatingSlot. ASSUME LifecycleInv, KeptStep, ws' = "creating"
                   PROVE  ws = "creating" /\ slot'.kind = "create" /\ sb'.gen = 1
    <2>. USE <1>CreatingSlot
    <2>0. Types /\ InstanceInv /\ WorkspaceInv /\ [Next]_vars
      BY Zenon DEF LifecycleInv, KeptStep
    <2>1. ws = "creating"
      <3>1. SameWs \/ DeleteQueued \/ CreateDone \/ DeleteDone
        BY <2>0, WsDelta, Zenon
      <3>. QED BY <3>1, Zenon DEF SameWs, DeleteQueued, CreateDone, DeleteDone
    <2>2. slot.kind = "create" /\ sb.gen = 1
      BY <2>0, <2>1, Zenon DEF WorkspaceInv
    <2>3. SlotChange
      BY <2>0, SlotDelta, Zenon
    <2>4. ~\E w \in Workers : ApplyFinishStop(w) \/ scheduleOnce(w) \/ StopStep(w) \/ DeleteStep(w)
      <3>1. \A w \in Workers : StopStep(w) => ws = "ready"
        BY <2>0, NeedsInstance, Zenon
      <3>2. \A w \in Workers : DeleteStep(w) => ws \in {"ready", "failed", "deleting"}
        BY Zenon DEF DeleteStep, queueWorkspaceDelete, resumeWorkspaceDeleteEffect, DeleteAdmissible
      <3>. QED BY <2>1, <3>1, <3>2, Zenon DEF KeptStep
    <2>5. slot'.kind = "create"
      BY <2>1, <2>2, <2>3, <2>4, Zenon DEF SlotChange, SlotSame
    <2>. QED BY <2>1, <2>2, <2>5, Zenon DEF KeptStep, SbKept
  (* Until the create is recorded the image has generation one at most.      *)
  <1>CreatingImage. ASSUME LifecycleInv, [Next]_vars, ws = "creating"
                    PROVE  rn'.manifest <= 1 /\ (rn.manifest = 1 => rn'.manifest = 1)
    <2>. USE <1>CreatingImage
    <2>0. Types /\ InstanceInv /\ WorkspaceInv
      BY Zenon DEF LifecycleInv
    <2>1. sb.gen = 1 /\ rn.manifest <= 1 /\ rn.manifest \in 0 .. MaxGeneration
      BY <2>0, Zenon DEF WorkspaceInv, Types, RnTypes
    <2>2. CASE SameImage
      BY <2>1, <2>2 DEF SameImage
    <2>3. ASSUME handleAdvance, rn.manifest = Head(link.down).gen PROVE FALSE
      <3>1. Head(link.down).gen \in Generations
        BY <2>0, <2>3, Taking, Zenon
      <3>2. Head(link.down).gen = sb.gen
        BY <2>1, <2>3, <3>1, Bounds DEF Generations
      <3>. QED BY <2>3, <3>2, TakingNeeds, Zenon
    <2>4. ~handleDelete
      BY TakingNeeds, Zenon
    <2>5. CASE rn'.manifest = IF rn.manifest = 0 THEN 1 ELSE rn.manifest
      BY <2>1, <2>5
    <2>. QED BY <2>0, <2>2, <2>3, <2>4, <2>5, RnDelta, Zenon DEF ComputeChange, ImageChange
  <1>0. Types /\ InstanceInv /\ WorkspaceInv /\ EffectInv /\ [Next]_vars
    BY Zenon DEF LifecycleInv, KeptStep
  <1>1. SameWs \/ DeleteQueued \/ CreateDone \/ DeleteDone
    BY <1>0, WsDelta, Zenon
  <1>2. ws = "creating" <=> fx.create = "queued"
    BY <1>0, Zenon DEF WorkspaceInv
  <1>3. ws' = "creating" <=> fx'.create = "queued"
    BY <1>1, <1>2, Zenon DEF SameWs, DeleteQueued, CreateDone, DeleteDone
  <1>4. ASSUME ws' = "creating" PROVE slot'.kind = "create" /\ sb'.gen = 1 /\ rn'.manifest <= 1
    BY <1>0, <1>4, <1>CreatingSlot, <1>CreatingImage, Zenon
  <1>5. ASSUME ws' = "creating", NEW m \in Evidence', m.kind = "create", m.ok PROVE rn'.manifest = 1
    <2>1. ws = "creating"
      BY <1>5, <1>CreatingSlot, Zenon
    <2>2. rn.manifest <= 1 /\ rn.manifest \in 0 .. MaxGeneration
      BY <1>0, <2>1, Zenon DEF WorkspaceInv, Types, RnTypes
    <2>3. CASE m \in Evidence
      <3>1. rn.manifest = 1
        BY <1>0, <1>5, <2>1, <2>3, Zenon DEF WorkspaceInv
      <3>. QED BY <1>0, <2>1, <3>1, <1>CreatingImage, Zenon
    <2>4. CASE m \notin Evidence
      <3>1. link \in LinkTypes /\ rn \in RnTypes
        BY <1>0, Zenon DEF Types, LinkTypes
      <3>2. Runner
        BY <1>0, <1>5, <2>4, LinkDelta, Zenon
      <3>3. rn'.manifest = IF rn.manifest = 0 THEN 1 ELSE rn.manifest
        BY <1>5, <2>4, <3>1, <3>2, <1>CreateSeen, Zenon DEF NewEvidence
      <3>. QED BY <2>2, <3>3, Bounds
    <2>. QED BY <2>3, <2>4, Zenon
  <1>6. ASSUME NEW c \in Rows' \cup Down', c.kind = "delete" PROVE ws' \in {"deleting", "deleted"}
    <2>1. CASE c \in Rows \cup Down
      <3>1. ws \in {"deleting", "deleted"}
        BY <1>0, <1>6, <2>1, Zenon DEF WorkspaceInv
      <3>. QED BY <1>1, <1>2, <3>1, Zenon DEF SameWs, DeleteQueued, CreateDone, DeleteDone
    <2>2. CASE c \in Rows' /\ Added(c)
      <3>1. \E w \in Workers : DeleteStep(w)
        BY <1>6, <2>2, AddedKind, Zenon
      <3>3. \A w \in Workers : DeleteStep(w) =>
              ws' = "deleting" \/ (ws' = ws /\ fx.delete # "none" /\ ws \in {"ready", "failed", "deleting"})
        BY Zenon DEF DeleteStep, queueWorkspaceDelete, resumeWorkspaceDeleteEffect, DeleteAdmissible
      <3>4. fx.delete # "none" => ws \in {"deleting", "deleted"}
        BY <1>0, Zenon DEF EffectInv
      <3>. QED BY <3>1, <3>3, <3>4, Zenon
    <2>3. Rows' \cup Down' \subseteq Rows' \cup Rows \cup Down
      BY <1>0, LinkDelta, Zenon
    <2>. QED BY <1>0, <1>6, <2>1, <2>2, <2>3, RowsAdded, Zenon
  <1>. QED BY <1>3, <1>4, <1>5, <1>6, Zenon DEF WorkspaceInv

(* Without an Instance nothing of the current generation is in flight.     *)
LEMMA CurrentKept ==
  ASSUME LifecycleInv, KeptStep
  PROVE  CurrentInv'
  <1>0. Types /\ InstanceInv /\ CurrentInv /\ RunInv /\ [Next]_vars
    BY Zenon DEF LifecycleInv, KeptStep
  <1>1. sb'.inst = sb.inst /\ sb'.gen = sb.gen /\ ~\E w \in Workers : scheduleOnce(w)
    BY Zenon DEF KeptStep, SbKept
  <1>2. /\ \A c \in Rows \cup Down : c.gen = sb.gen /\ c.kind \in Placed => sb.inst
        /\ \A m \in Evidence : m.gen = sb.gen /\ m.kind \in Placements => sb.inst
    BY <1>0, Zenon DEF CurrentInv, Asked, Sent, Heard
  <1>3. ASSUME NEW c \in Rows', c.kind \in Placed, c.gen = sb.gen PROVE sb.inst
    <2>1. CASE c \in Rows
      BY <1>2, <1>3, <2>1, Zenon
    <2>2. CASE Added(c)
      <3>1. /\ FenceStep \/ ApplyRetry \/ AdvanceFencedGeneration \/ recordFenceStopped => sb.inst
            /\ (\E w \in Workers : StopStep(w)) => sb.inst
        BY <1>0, NeedsInstance, Zenon
      <3>. QED BY <1>1, <1>3, <2>2, <3>1, AddedKind, Zenon DEF Placed
    <2>. QED BY <1>0, <1>3, <2>1, <2>2, RowsAdded, Zenon
  <1>4. ASSUME NEW c \in Down', c.kind \in Placed, c.gen = sb.gen PROVE sb.inst
    <2>1. c \in Down \cup Rows
      BY <1>0, <1>4, LinkDelta, Zenon
    <2>. QED BY <1>2, <1>4, <2>1, Zenon
  <1>5. ASSUME NEW m \in Evidence', m.kind \in Placements, m.gen = sb.gen PROVE sb.inst
    <2>1. CASE m \in Evidence
      BY <1>2, <1>5, <2>1, Zenon
    <2>2. CASE Source(m)
      <3>1. rn.starting # 0 => rn.starting = sb.gen /\ sb.inst
        BY <1>0, Zenon DEF RunInv
      <3>2. ASSUME NEW c \in Down, m.gen = c.gen, Answers(m.kind, c.kind) PROVE sb.inst
        <4>1. c.kind \in Placed
          BY <1>5, <3>2, Zenon DEF Answers, Placements, Placed, FenceKinds
        <4>. QED BY <1>2, <1>5, <3>2, <4>1, Zenon
      <3>. QED BY <1>5, <2>2, <3>1, <3>2, Zenon DEF Source, Placements
    <2>. QED BY <1>0, <1>5, <2>1, <2>2, LinkDelta, Zenon
  <1>. QED BY <1>1, <1>3, <1>4, <1>5, Zenon DEF CurrentInv, Asked, Sent, Heard

(* The Runner runs, starts and remembers only the current generation.      *)
LEMMA RunKept ==
  ASSUME LifecycleInv, KeptStep
  PROVE  RunInv'
  <1>0. Types /\ RunInv /\ OrderInv /\ [Next]_vars
    BY Zenon DEF LifecycleInv, KeptStep
  <1>1. sb'.inst = sb.inst /\ sb'.gen = sb.gen
    BY Zenon DEF KeptStep, SbKept
  <1>2. /\ rn.active <= sb.gen
        /\ rn.starting # 0 => rn.starting = sb.gen /\ sb.inst
        /\ rn.run # 0 => rn.run = sb.gen /\ rn.manifest = sb.gen /\ rn.active = sb.gen /\ sb.inst
    BY <1>0, Zenon DEF RunInv
  <1>3. 0 <= sb.gen /\ sb.gen <= sb.gen /\ sb.gen # 0
    <2>1. sb.gen \in Generations
      BY <1>0, Zenon DEF Types, SbTypes
    <2>. QED BY <2>1 DEF Generations
  <1>4. handleAssignment => Head(link.down).gen = sb.gen /\ sb.inst
    BY TakingNeeds, Zenon
  <1>5. ASSUME ComputeChange
        PROVE  /\ rn'.active <= sb.gen
               /\ rn'.starting # 0 => rn'.starting = sb.gen /\ sb.inst
               /\ rn'.run # 0 => rn'.run = sb.gen /\ rn'.manifest = sb.gen /\ rn'.active = sb.gen /\ sb.inst
    BY <1>2, <1>3, <1>4, <1>5, Zenon DEF ComputeChange, SameImage, CanStart
  <1>6. ASSUME ImageChange
        PROVE  /\ rn'.active <= sb.gen
               /\ rn'.starting # 0 => rn'.starting = sb.gen /\ sb.inst
               /\ rn'.run # 0 => rn'.run = sb.gen /\ rn'.manifest = sb.gen /\ rn'.active = sb.gen /\ sb.inst
    BY <1>2, <1>3, <1>6, Zenon DEF ImageChange, SameCompute
  <1>. QED BY <1>0, <1>1, <1>5, <1>6, RnDelta, Zenon DEF RunInv

(* The Assignment's state after the steps that decide it.                  *)
LEMMA AsgOutcome ==
  ASSUME Types
  PROVE  /\ FenceStep => asg'.state = "fencing"
         /\ TerminalStep => asg'.state = "failed_terminal"
         /\ AdvanceFencedGeneration => asg'.state = "released"
         /\ recordFenceStopped => asg'.state = IF Authority = {} THEN "fenced" ELSE "released"
         /\ ApplyRetry => asg.state = "failed" /\ asg'.state = "assigned"
  <1>0. asg \in AsgTypes
    BY Zenon DEF Types
  <1>1. ASSUME FenceStep PROVE asg'.state = "fencing"
    <2>1. \E c, n : asg' = [state |-> "fencing", class |-> c, retries |-> n]
      BY <1>1, Zenon DEF FenceStep, ApplyFence
    <2>. QED BY <2>1
  <1>2. TerminalStep => asg'.state = "failed_terminal"
    <2>1. TerminalStep => asg' = [asg EXCEPT !.state = "failed_terminal"]
      BY Zenon DEF TerminalStep, ApplyFailTerminal
    <2>. QED BY <1>0, <2>1, AsgRecord, Zenon
  <1>3. AdvanceFencedGeneration => asg'.state = "released"
    <2>1. AdvanceFencedGeneration => asg' = [asg EXCEPT !.state = "released"]
      BY Zenon DEF AdvanceFencedGeneration
    <2>. QED BY <1>0, <2>1, AsgRecord, Zenon
  <1>4. recordFenceStopped => asg'.state = IF Authority = {} THEN "fenced" ELSE "released"
    <2>. DEFINE s == IF Authority = {} THEN "fenced" ELSE "released"
    <2>1. recordFenceStopped => asg' = [asg EXCEPT !.state = s]
      BY Zenon DEF recordFenceStopped
    <2>. HIDE DEF s
    <2>2. recordFenceStopped => asg'.state = s
      BY <1>0, <2>1, AsgRecord, Zenon
    <2>. QED BY <2>2, Zenon DEF s
  <1>5. ASSUME ApplyRetry PROVE asg.state = "failed" /\ asg'.state = "assigned"
    <2>1. asg.state = "failed" /\ asg' = [state |-> "assigned", class |-> "none", retries |-> asg.retries + 1]
      BY <1>5, Zenon DEF ApplyRetry
    <2>. QED BY <2>1
  <1>. QED BY <1>1, <1>2, <1>3, <1>4, <1>5, Zenon

(***************************************************************************)
(* A start that holds the slot keeps it until the Runner or the            *)
(* reconciler decides it, and nobody asks for a fence before.              *)
(***************************************************************************)
Deciding == FenceStep \/ TerminalStep \/ AdvanceFencedGeneration
Settling == recordAssignmentReady /\ asg.state \in {"assigned", "starting"}

(* A stop is refused while a start holds the slot.                         *)
LEMMA NoStopWhileHeld ==
  ASSUME InstanceInv, StartHeld, NEW w \in Workers
  PROVE  ~StopStep(w)
  <1>1. StopStep(w) => AcquiresStop \/ slot.kind = "stop"
    BY NeedsInstance, Zenon
  <1>. QED BY <1>1, Zenon DEF StartHeld, AcquiresStop, ReplaceFailedStart

(* A start keeps the slot until it is decided or settled.                  *)
LEMMA HeldKept ==
  ASSUME LifecycleInv, KeptStep, StartHeld, sb.inst, ~Deciding, ~Settling
  PROVE  StartHeld'
  <1>0. Types /\ InstanceInv /\ WorkspaceInv /\ [Next]_vars
    BY Zenon DEF LifecycleInv, KeptStep
  <1>1. slot.kind = "start" /\ slot.state = "assigned"
    BY Zenon DEF StartHeld
  <1>2. \A w \in Workers : ~StopStep(w) /\ ~DeleteStep(w) /\ ~ApplyFinishStop(w) /\ ~scheduleOnce(w)
    <2>1. \A w \in Workers : ~StopStep(w)
      BY <1>0, NoStopWhileHeld, Zenon
    <2>2. \A w \in Workers : ~DeleteStep(w)
      BY Zenon DEF DeleteStep, queueWorkspaceDelete, resumeWorkspaceDeleteEffect, DeleteAdmissible
    <2>. QED BY <2>1, <2>2, Zenon DEF KeptStep
  <1>3. fx.create # "queued" /\ ws # "deleting"
    BY <1>0, Zenon DEF InstanceInv, WorkspaceInv
  <1>4. SlotChange
    BY <1>0, SlotDelta, Zenon
  <1>5. SlotSame
    BY <1>1, <1>2, <1>3, <1>4, Zenon DEF SlotChange, Deciding, Settling
  <1>. QED BY <1>1, <1>5, Zenon DEF StartHeld, SlotSame

(* No fence of the generation appears while its start holds the slot.      *)
LEMMA NotFencingKept ==
  ASSUME LifecycleInv, KeptStep, StartHeld, NotFencing, ~FenceStep
  PROVE  NotFencing'
  <1>0. Types /\ InstanceInv /\ [Next]_vars /\ sb'.gen = sb.gen
    BY Zenon DEF LifecycleInv, KeptStep, SbKept
  <1>1. /\ \A c \in Rows \cup Down : c.gen = sb.gen => c.kind \notin FenceKinds
        /\ \A m \in Evidence : m.gen = sb.gen => m.kind # "fence"
    BY Zenon DEF NotFencing, Asked, Sent, Heard
  <1>2. ASSUME NEW c \in Rows', c.gen = sb.gen, c.kind \in FenceKinds PROVE FALSE
    <2>1. Added(c)
      BY <1>0, <1>1, <1>2, RowsAdded, Zenon
    <2>2. \A w \in Workers : ~StopStep(w)
      BY <1>0, NoStopWhileHeld, Zenon
    <2>. QED BY <1>2, <2>1, <2>2, AddedKind, Zenon DEF FenceKinds
  <1>3. ASSUME NEW c \in Down', c.gen = sb.gen, c.kind \in FenceKinds PROVE FALSE
    <2>1. c \in Down \cup Rows
      BY <1>0, <1>3, LinkDelta, Zenon
    <2>. QED BY <1>1, <1>3, <2>1, Zenon
  <1>4. ASSUME NEW m \in Evidence', m.gen = sb.gen, m.kind = "fence" PROVE FALSE
    <2>1. Source(m)
      BY <1>0, <1>1, <1>4, LinkDelta, Zenon
    <2>2. PICK c \in Down : m.gen = c.gen /\ Answers(m.kind, c.kind)
      BY <1>4, <2>1, Zenon DEF Source
    <2>3. c.kind \in FenceKinds
      BY <1>4, <2>2, Zenon DEF Answers
    <2>. QED BY <1>1, <1>4, <2>2, <2>3, Zenon
  <1>. QED BY <1>0, <1>2, <1>3, <1>4, Zenon DEF NotFencing, Asked, Sent, Heard

(* An assignment command is in flight only for an undecided start.         *)
LEMMA StartKept ==
  ASSUME LifecycleInv, KeptStep
  PROVE  StartInv'
  (* An Assignment stays undecided only under the start that holds the slot. *)
  <1>UndecidedKept. ASSUME LifecycleInv, KeptStep, asg'.state \in Undecided
                    PROVE  StartHeld' /\ NotFencing'
    <2>. USE <1>UndecidedKept
    <2>0. Types /\ InstanceInv /\ StartInv /\ [Next]_vars
      BY Zenon DEF LifecycleInv, KeptStep
    <2>1. AsgChange /\ ~\E w \in Workers : ApplyFinishStop(w) \/ scheduleOnce(w)
      BY <2>0, AsgDelta, Zenon DEF KeptStep
    <2>2. asg.state \in Undecided
      BY <2>1, Zenon DEF AsgChange, Undecided
    <2>3. StartHeld /\ NotFencing /\ sb.inst
      BY <2>0, <2>2, Zenon DEF StartInv, InstanceInv, Undecided
    <2>4. ~Deciding
      BY <2>0, AsgOutcome, Zenon DEF Deciding, Undecided
    <2>5. ~Settling \/ asg'.state = "ready"
      <3>1. recordAssignmentReady /\ asg.state \in {"assigned", "starting"} => asg' = [asg EXCEPT !.state = "ready"]
        BY Zenon DEF recordAssignmentReady
      <3>2. asg' = [asg EXCEPT !.state = "ready"] => asg'.state = "ready"
        BY <2>0, AsgRecord, Zenon DEF Types
      <3>. QED BY <3>1, <3>2, Zenon DEF Settling
    <2>6. ~Settling
      BY <2>5, Zenon DEF Undecided
    <2>. QED BY <2>3, <2>4, <2>6, HeldKept, NotFencingKept, Zenon DEF Deciding
  (* An assignment command survives no step that decides its Assignment.     *)
  <1>AssignmentDropped. ASSUME Types, InstanceInv, NEW c \in Rows', c \in Rows, c.kind = "assignment", c.gen = sb.gen, [Next]_vars
                        PROVE  ~FenceStep /\ ~TerminalStep /\ ~AdvanceFencedGeneration /\ ~recordAssignmentReady
                               /\ ~(assignmentFails /\ AssignmentStep)
    <2>. USE <1>AssignmentDropped
    <2>a. \A k, e : Command(k, e).kind = k
      BY CommandFields, Zenon
    <2>b. Command("fence", "none").kind = "fence" /\ Command("advance", "loss").kind = "advance"
      BY <2>a, Zenon
    <2>0. c # Command("fence", "none") /\ c # Command("advance", "loss")
      BY <2>b
    <2>1. ASSUME NEW K, "assignment" \in K, Rows' = Dropped(K) PROVE FALSE
      BY <2>1, Zenon DEF Dropped
    <2>2. ~TerminalStep
      BY <2>1, RowsReconciler, Zenon DEF AssignmentCommands
    <2>3. ~FenceStep
      <3>1. ASSUME Rows' = Dropped(AssignmentCommands) \cup {Command("fence", "none")} PROVE FALSE
        BY <2>0, <3>1, Zenon DEF Dropped, AssignmentCommands
      <3>. QED BY <3>1, RowsReconciler, Zenon
    <2>4. ~AdvanceFencedGeneration
      <3>. DEFINE K == AssignmentCommands \cup {"lifecycle_fence"}
      <3>1. "assignment" \in K
        BY Zenon DEF AssignmentCommands
      <3>3. AdvanceFencedGeneration => Rows' = Dropped(K) \/ Rows' = Dropped(K) \cup {Command("advance", "loss")}
        BY RowsAdvance, Zenon
      <3>. HIDE DEF K
      <3>. QED BY <2>0, <3>1, <3>3, Zenon DEF Dropped
    <2>5. Rows' = Unanswered /\ msg.gen = sb.gen => FALSE
      BY Zenon DEF Unanswered
    <2>6. ~recordAssignmentReady /\ ~(assignmentFails /\ AssignmentStep)
      <3>1. AssignmentStep => msg.gen = sb.gen
        BY NeedsInstance, Zenon
      <3>. QED BY <2>5, <3>1, RowsRecord, Zenon DEF AssignmentStep
    <2>. QED BY <2>2, <2>3, <2>4, <2>6, Zenon
  <1>0. Types /\ InstanceInv /\ StartInv /\ [Next]_vars /\ sb'.gen = sb.gen
    BY Zenon DEF LifecycleInv, KeptStep, SbKept
  <1>1. AsgChange /\ ~\E w \in Workers : ApplyFinishStop(w) \/ scheduleOnce(w)
    BY <1>0, AsgDelta, Zenon DEF KeptStep
  <1>2. asg'.state \in Undecided => StartHeld' /\ NotFencing'
    BY <1>UndecidedKept, Zenon
  <1>3. ASSUME NEW c \in Rows', c.kind = "assignment"
        PROVE  /\ c.gen = sb'.gen /\ asg'.state \in {"assigned", "starting", "uncertain"}
               /\ StartHeld' /\ NotFencing'
    <2>1. CASE c \in Rows
      <3>1. c.gen = sb.gen /\ asg.state \in {"assigned", "starting", "uncertain"} /\ StartHeld /\ NotFencing
        BY <1>0, <1>3, <2>1, Zenon DEF StartInv
      <3>2. ~FenceStep /\ ~TerminalStep /\ ~AdvanceFencedGeneration /\ ~recordAssignmentReady
            /\ ~(assignmentFails /\ AssignmentStep)
        BY <1>0, <1>3, <2>1, <3>1, <1>AssignmentDropped, Zenon
      <3>3. sb.inst
        BY <1>0, <3>1, Zenon DEF InstanceInv
      <3>4. StartHeld' /\ NotFencing'
        BY <3>1, <3>2, <3>3, HeldKept, NotFencingKept, Zenon DEF Deciding, Settling
      <3>5. ~recordFenceStopped /\ ~recordFenceFailed
        <4>1. ASSUME recordFenceStopped \/ recordFenceFailed PROVE Heard({"fence"})
          <5>1. link \in LinkTypes /\ RecordStep
            BY <1>0, <4>1, Zenon DEF Types, LinkTypes, RecordStep
          <5>2. msg \in Evidence
            BY <5>1, LinkLoss, Zenon
          <5>3. msg.kind = "fence" /\ msg.gen = sb.gen
            <6>1. Hears("fence") /\ msg.gen = sb.gen
              BY <1>0, <4>1, NeedsInstance, Zenon
            <6>. QED BY <6>1, Zenon DEF Hears, msg
          <5>. QED BY <5>2, <5>3, Zenon DEF Heard
        <4>. QED BY <3>1, <4>1, Zenon DEF NotFencing
      <3>6. asg'.state \in {"assigned", "starting", "uncertain"}
        BY <1>1, <3>1, <3>2, <3>5, Zenon DEF AsgChange
      <3>. QED BY <1>0, <3>1, <3>4, <3>6, Zenon
    <2>2. CASE Added(c)
      <3>1. ApplyRetry
        BY <1>1, <1>3, <2>2, AddedKind, Zenon
      <3>2. asg'.state = "assigned"
        BY <1>0, <3>1, AsgOutcome, Zenon
      <3>3. c.gen = sb'.gen
        BY <1>0, <2>2, AddedNow, Zenon
      <3>. QED BY <1>2, <3>2, <3>3, Zenon DEF Undecided
    <2>. QED BY <1>0, <1>3, <2>1, <2>2, RowsAdded, Zenon
  <1>. QED BY <1>2, <1>3, Zenon DEF StartInv

(***************************************************************************)
(* Deliveries stay in order.                                               *)
(***************************************************************************)

InOrder(s, g) ==
  \A i, j \in DOMAIN s : i < j /\ s[i].kind \in FenceKinds /\ s[i].gen = g => s[j].kind # "assignment"

(* No assignment is delivered after a fence of its generation.             *)
LEMMA OrderKept ==
  ASSUME LifecycleInv, KeptStep
  PROVE  OrderInv'
  <1>DownDelta. ASSUME Types, [Next]_vars
                PROVE  \/ link'.down = link.down \/ link'.down = <<>>
                       \/ link.down # <<>> /\ link'.down = Tail(link.down)
                       \/ \E c \in Rows : link'.down = Append(link.down, c)
    <2>. USE <1>DownDelta
    <2>0. link \in LinkTypes /\ Rows \subseteq Deliveries
      BY Zenon DEF Types, LinkTypes
    <2>1. UNCHANGED link \/ LinkStep
      BY Steps, Zenon
    <2>2. OpenConnection \/ Loss \/ RunnerRestart \/ RecordStep => link'.down = link.down \/ link'.down = <<>>
      BY <2>0, LinkLoss, Zenon DEF Shrinks
    <2>3. ClaimCommands => \E c \in Rows : link'.down = Append(link.down, c)
      BY <2>0, LinkClaim, Zenon
    <2>4. handleAssignment \/ handleFence \/ handleAdvance \/ handleCreate \/ handleDelete =>
            link.down # <<>> /\ link'.down = Tail(link.down)
      BY <2>0, HandlersAnswer, Zenon DEF Handled, Taken
    <2>5. StartAssignment \/ sendHeartbeat \/ sendInstanceTerminal =>
            link' = NoLink \/ \E m : link' = [link EXCEPT !.in = Append(@, m)]
      BY Zenon DEF StartAssignment, sendHeartbeat, sendInstanceTerminal
    <2>6. ASSUME NEW m, link' = [link EXCEPT !.in = Append(@, m)] PROVE link'.down = link.down
      BY <2>0, <2>6, Zenon DEF LinkTypes
    <2>7. link' = NoLink => link'.down = <<>>
      BY DEF NoLink
    <2>. QED BY <2>1, <2>2, <2>3, <2>4, <2>5, <2>6, <2>7, Zenon DEF LinkStep, Runner
  (* Taking a delivery keeps the order.                                      *)
  <1>TailOrder. ASSUME NEW S, NEW s \in Seq(S), s # <<>>, NEW g, InOrder(s, g)
                PROVE  InOrder(Tail(s), g)
    <2>. USE <1>TailOrder
    <2>. DEFINE t == Tail(s)
    <2>1. t \in Seq(S) /\ Len(t) = Len(s) - 1 /\ \A i \in 1 .. Len(t) : t[i] = s[i + 1]
      OBVIOUS
    <2>. HIDE DEF t
    <2>2. ASSUME NEW i \in DOMAIN t, NEW j \in DOMAIN t, i < j, t[i].kind \in FenceKinds, t[i].gen = g
          PROVE  t[j].kind # "assignment"
      <3>1. i \in 1 .. Len(t) /\ j \in 1 .. Len(t)
        BY <2>1
      <3>2. i + 1 \in DOMAIN s /\ j + 1 \in DOMAIN s /\ i + 1 < j + 1
        BY <2>1, <2>2, <3>1
      <3>3. t[i] = s[i + 1] /\ t[j] = s[j + 1]
        BY <2>1, <3>1
      <3>. QED BY <2>2, <3>2, <3>3, Zenon DEF InOrder
    <2>. QED BY <2>2, Zenon DEF InOrder, t
  (* Appending keeps the order unless an assignment follows a fence.         *)
  <1>AppendOrder. ASSUME NEW S, NEW s \in Seq(S), NEW g, InOrder(s, g), NEW c \in S,
                         c.kind = "assignment" => \A x \in Elems(s) : ~(x.kind \in FenceKinds /\ x.gen = g)
                  PROVE  InOrder(Append(s, c), g)
    <2>. USE <1>AppendOrder
    <2>. DEFINE t == Append(s, c)
    <2>1. /\ Len(t) = Len(s) + 1 /\ DOMAIN t = 1 .. Len(s) + 1 /\ DOMAIN s = 1 .. Len(s) /\ Len(s) \in Nat
          /\ t[Len(s) + 1] = c /\ \A i \in 1 .. Len(s) : t[i] = s[i]
      OBVIOUS
    <2>. HIDE DEF t
    <2>2. ASSUME NEW i \in DOMAIN t, NEW j \in DOMAIN t, i < j, t[i].kind \in FenceKinds, t[i].gen = g
          PROVE  t[j].kind # "assignment"
      <3>1. i \in DOMAIN s /\ t[i] = s[i]
        BY <2>1, <2>2
      <3>2. CASE j \in DOMAIN s
        <4>1. t[j] = s[j]
          BY <2>1, <3>2
        <4>. QED BY <2>2, <3>1, <3>2, <4>1, Zenon DEF InOrder
      <3>3. CASE j \notin DOMAIN s
        <4>1. t[j] = c
          BY <2>1, <2>2, <3>3
        <4>2. s[i] \in Elems(s)
          BY <3>1, Zenon DEF Elems
        <4>. QED BY <2>2, <3>1, <4>1, <4>2, Zenon
      <3>. QED BY <3>2, <3>3, Zenon
    <2>. QED BY <2>2, Zenon DEF InOrder, t
  <1>0. Types /\ StartInv /\ OrderInv /\ [Next]_vars /\ sb'.gen = sb.gen
    BY Zenon DEF LifecycleInv, KeptStep, SbKept
  <1>1. ASSUME NEW c \in Down', c.kind = "assignment" PROVE c.gen = sb'.gen
    <2>1. c \in Down \cup Rows
      BY <1>0, <1>1, LinkDelta, Zenon
    <2>. QED BY <1>0, <1>1, <2>1, Zenon DEF StartInv, OrderInv
  <1>2. InOrder(link.down, sb.gen) /\ link.down \in Seq(Deliveries) /\ Rows \subseteq Deliveries
    BY <1>0, Zenon DEF OrderInv, InOrder, Types
  <1>3. InOrder(link'.down, sb.gen)
    <2>1. ASSUME link'.down = <<>> PROVE InOrder(link'.down, sb.gen)
      BY <2>1 DEF InOrder
    <2>2. ASSUME link.down # <<>>, link'.down = Tail(link.down) PROVE InOrder(link'.down, sb.gen)
      BY <1>2, <2>2, <1>TailOrder, Zenon
    <2>3. ASSUME NEW c \in Rows, link'.down = Append(link.down, c) PROVE InOrder(link'.down, sb.gen)
      <3>1. c.kind = "assignment" => \A x \in Elems(link.down) : ~(x.kind \in FenceKinds /\ x.gen = sb.gen)
        BY <1>0, <2>3, Zenon DEF StartInv, NotFencing, Sent, Down
      <3>2. c \in Deliveries
        BY <1>2, <2>3, Zenon
      <3>3. \A s \in Seq(Deliveries) : \A g : InOrder(s, g) /\ (c.kind = "assignment" =>
               \A x \in Elems(s) : ~(x.kind \in FenceKinds /\ x.gen = g)) => InOrder(Append(s, c), g)
        BY <3>2, <1>AppendOrder, Zenon
      <3>. QED BY <1>2, <2>3, <3>1, <3>3, Zenon
    <2>. QED BY <1>0, <1>2, <2>1, <2>2, <2>3, <1>DownDelta, Zenon
  <1>. QED BY <1>0, <1>1, <1>3, Zenon DEF OrderInv, InOrder

(***************************************************************************)
(* Once compute is proved stopped it stays so.                             *)
(***************************************************************************)

(* A generation once proved quiet stays quiet.                             *)
LEMMA QuietKept ==
  ASSUME LifecycleInv, KeptStep
  PROVE  QuietInv'
  <1>StaysQuiet. ASSUME LifecycleInv, KeptStep, Quiet, ~ApplyRetry
                 PROVE  Quiet'
    <2>. USE <1>StaysQuiet
    <2>0. Types /\ InstanceInv /\ [Next]_vars /\ ~\E w \in Workers : scheduleOnce(w)
      BY Zenon DEF LifecycleInv, KeptStep
    <2>1. rn.run = 0 /\ rn.starting = 0 /\ \A c \in Rows \cup Down : c.kind # "assignment"
      BY Zenon DEF Quiet
    <2>2. ~handleAssignment
      BY <2>0, <2>1, Taking, Zenon
    <2>3. rn'.run = 0 /\ rn'.starting = 0
      BY <2>0, <2>1, <2>2, RnDelta, Zenon DEF ComputeChange, ImageChange, SameCompute
    <2>4. ASSUME NEW c \in Rows' PROVE c.kind # "assignment"
      BY <2>0, <2>1, <2>4, RowsAdded, AddedKind, Zenon
    <2>5. ASSUME NEW c \in Down' PROVE c.kind # "assignment"
      BY <2>0, <2>1, <2>5, LinkDelta, Zenon
    <2>. QED BY <2>3, <2>4, <2>5, Zenon DEF Quiet
  (* New evidence of a fence proves that the generation is quiet.            *)
  <1>FenceProves. ASSUME LifecycleInv, KeptStep, NEW m, NewEvidence(m), Proof(m)
                  PROVE  Quiet'
    <2>. USE <1>FenceProves
    <2>0. Types /\ InstanceInv /\ StartInv /\ OrderInv /\ RunInv /\ [Next]_vars
      BY Zenon DEF LifecycleInv, KeptStep
    <2>1. link \in LinkTypes /\ rn \in RnTypes /\ link.down \in Seq(Deliveries)
      BY <2>0, Zenon DEF Types, LinkTypes
    <2>2. Runner
      BY <2>0, LinkDelta, Zenon DEF NewEvidence
    <2>3. m.kind = "fence" /\ m.ok /\ m.gen = sb.gen
      BY Zenon DEF Proof
    <2>4. /\ handleFence /\ link.down # <<>> /\ m.gen = Head(link.down).gen
          /\ rn.starting = 0 /\ rn'.starting = 0
          /\ rn'.run = IF rn.active = m.gen THEN 0 ELSE rn.run
      BY <2>1, <2>2, <2>3, FenceSeen, Zenon
    <2>5. rn'.run = 0
      <3>1. rn.run # 0 => rn.active = sb.gen
        BY <2>0, Zenon DEF RunInv
      <3>. QED BY <2>3, <2>4, <3>1, Zenon
    <2>6. Head(link.down).kind \in FenceKinds /\ link'.down = Tail(link.down) /\ Head(link.down) \in Down
      <3>1. Handled("fence")
        BY <2>1, <2>4, HandlersAnswer, Zenon
      <3>2. Head(link.down) \in Down /\ Answers("fence", Head(link.down).kind) /\ link'.down = Tail(link.down)
        BY <3>1, Zenon DEF Handled, Taken
      <3>. QED BY <3>2, Zenon DEF Answers
    <2>7. ASSUME NEW c \in Rows' PROVE c.kind # "assignment"
      <3>1. Rows' = Rows
        <4>1. cmds' = cmds
          BY <2>4, Zenon DEF handleFence, OnlyConnection, database
        <4>. QED BY <4>1, Zenon DEF Rows, Contents
      <3>2. Sent(FenceKinds)
        BY <2>3, <2>4, <2>6, Zenon DEF Sent
      <3>. QED BY <2>0, <2>7, <3>1, <3>2, Zenon DEF StartInv, NotFencing
    <2>8. ASSUME NEW c \in Down' PROVE c.kind # "assignment"
      <3>. DEFINE s == link.down
                  t == Tail(s)
      <3>1. /\ Len(t) = Len(s) - 1 /\ DOMAIN t = 1 .. Len(t) /\ DOMAIN s = 1 .. Len(s) /\ Len(s) \in Nat
            /\ s[1] = Head(s) /\ Len(s) > 0 /\ \A i \in 1 .. Len(t) : t[i] = s[i + 1]
        BY <2>1, <2>4
      <3>2. PICK i \in DOMAIN t : c = t[i]
        BY <2>6, <2>8, Zenon DEF Down, Elems
      <3>. HIDE DEF s, t
      <3>3. i + 1 \in DOMAIN s /\ 1 \in DOMAIN s /\ 1 < i + 1 /\ t[i] = s[i + 1]
        BY <3>1, <3>2
      <3>4. s[1].kind \in FenceKinds /\ s[1].gen = sb.gen
        BY <2>3, <2>4, <2>6, <3>1, Zenon DEF s
      <3>5. s[i + 1].kind # "assignment"
        BY <2>0, <3>3, <3>4, Zenon DEF OrderInv, s
      <3>. QED BY <3>2, <3>3, <3>5, Zenon
    <2>. QED BY <2>4, <2>5, <2>7, <2>8, Zenon DEF Quiet
  <1>0. Types /\ InstanceInv /\ StartInv /\ QuietInv /\ [Next]_vars /\ sb'.gen = sb.gen
    BY Zenon DEF LifecycleInv, KeptStep, SbKept
  <1>1. AsgChange /\ ~\E w \in Workers : ApplyFinishStop(w) \/ scheduleOnce(w)
    BY <1>0, AsgDelta, Zenon DEF KeptStep
  <1>2. ApplyRetry => asg.state = "failed" /\ asg'.state = "assigned"
    BY <1>0, AsgOutcome, Zenon
  <1>3. recordFenceStopped => Quiet
    <2>1. ASSUME recordFenceStopped PROVE Quiet
      <3>1. link \in LinkTypes /\ RecordStep
        BY <1>0, <2>1, Zenon DEF Types, LinkTypes, RecordStep
      <3>2. msg \in Evidence
        BY <3>1, LinkLoss, Zenon
      <3>3. Hears("fence") /\ msg.ok /\ msg.gen = sb.gen
        BY <1>0, <2>1, NeedsInstance, Zenon
      <3>4. Proof(msg)
        BY <3>3, Zenon DEF Proof, Hears, msg
      <3>. QED BY <1>0, <3>2, <3>4, Zenon DEF QuietInv
    <2>. QED BY <2>1
  <1>4. recordFenceStopped \/ AdvanceFencedGeneration => ~ApplyRetry /\ asg'.state \notin Undecided
    <2>1. recordFenceStopped => asg'.state \in {"fenced", "released"}
      BY <1>0, AsgOutcome, Zenon
    <2>2. AdvanceFencedGeneration => asg'.state = "released"
      BY <1>0, AsgOutcome, Zenon
    <2>. QED BY <1>2, <2>1, <2>2, Zenon DEF Undecided
  <1>5. asg'.state \in {"none", "fenced", "released"} => Quiet'
    <2>1. asg.state \in {"none", "fenced", "released"} => Quiet
      BY <1>0, Zenon DEF QuietInv
    <2>2. asg'.state \in {"none", "fenced", "released"} => Quiet
      BY <1>1, <1>3, <2>1, Zenon DEF AsgChange
    <2>. QED BY <1>2, <2>2, <1>StaysQuiet, Zenon
  <1>6. ASSUME NEW e \in StopEffects, stop'[e].cmd = "advance" PROVE Quiet' /\ asg'.state \notin Undecided
    <2>1. StopChange(e)
      BY <1>0, StopDelta, Zenon
    <2>2. CASE stop[e].cmd = "advance"
      <3>1. Quiet /\ asg.state \notin Undecided
        BY <1>0, <2>2, Zenon DEF QuietInv
      <3>2. asg'.state \notin Undecided
        BY <1>1, <3>1, Zenon DEF AsgChange, Undecided
      <3>3. ~ApplyRetry
        BY <1>2, <3>1, Zenon DEF Undecided
      <3>. QED BY <3>1, <3>2, <3>3, <1>StaysQuiet, Zenon
    <2>3. CASE stop[e].cmd # "advance"
      <3>1. AdvanceFencedGeneration \/ recordFenceStopped
        BY <1>1, <1>6, <2>1, <2>3, Zenon DEF StopChange, StopSame
      <3>2. Quiet
        <4>1. AdvanceFencedGeneration => asg.state = "fenced"
          BY <1>0, NeedsInstance, Zenon
        <4>. QED BY <1>0, <1>3, <3>1, <4>1, Zenon DEF QuietInv
      <3>. QED BY <1>4, <3>1, <3>2, <1>StaysQuiet, Zenon
    <2>. QED BY <2>2, <2>3, Zenon
  <1>7. ASSUME NEW m \in Evidence', Proof(m) PROVE Quiet'
    <2>1. CASE m \in Evidence
      <3>1. Quiet
        BY <1>0, <1>7, <2>1, Zenon DEF QuietInv
      <3>2. Heard({"fence"})
        BY <1>7, <2>1, Zenon DEF Heard, Proof
      <3>3. asg.state # "failed"
        BY <1>0, <3>2, Zenon DEF StartInv, NotFencing, Undecided
      <3>. QED BY <1>2, <3>1, <3>3, <1>StaysQuiet, Zenon
    <2>2. CASE m \notin Evidence
      BY <1>7, <2>2, <1>FenceProves, Zenon DEF NewEvidence
    <2>. QED BY <2>1, <2>2, Zenon
  <1>8. \A m \in Evidence' : Proof(m)' => Quiet'
    BY <1>0, <1>7, Zenon DEF Proof
  <1>. QED BY <1>5, <1>6, <1>8, Zenon DEF QuietInv

(***************************************************************************)
(* An advance asked for, taken or receipted belongs to an effect that has  *)
(* its fence proof.                                                        *)
(***************************************************************************)

LEMMA AdvanceStays ==
  ASSUME LifecycleInv, KeptStep, NEW e \in StopEffects, stop[e].cmd = "advance"
  PROVE  stop'[e].cmd = "advance"
  <1>1. StopChange(e) /\ ~\E w \in Workers : ApplyFinishStop(w)
    BY StopDelta, Zenon DEF LifecycleInv, KeptStep
  <1>2. stop[e].state # "none"
    BY Zenon DEF LifecycleInv, InstanceInv
  <1>. QED BY <1>1, <1>2, Zenon DEF StopChange, StopSame

(* Advances asked for, in flight, answered or done belong to an effect.    *)
LEMMA AdvanceKept ==
  ASSUME LifecycleInv, KeptStep
  PROVE  AdvanceInv'
  (* Evidence of an advance: the Runner holds its receipt.                   *)
  <1>AdvanceSeen. ASSUME link \in LinkTypes, rn \in RnTypes, Runner, NEW m, NewEvidence(m), m.kind = "advance", m.ok
                  PROVE  <<m.effect, m.gen>> \in rn'.receipts
    <2>. USE <1>AdvanceSeen
    <2>1. handleAdvance
      BY NewKind, Zenon
    <2>2. link.down # <<>> /\ "advance" \in EventKinds
      BY <2>1, Zenon DEF handleAdvance, Receives, EventKinds
    <2>. DEFINE r == <<Head(link.down).effect, Head(link.down).gen>>
    <2>3. \/ r \in rn.receipts /\ rn' = rn /\ Reply(<<Answer("advance", TRUE)>>)
          \/ /\ rn' = [rn EXCEPT !.manifest = @ + 1, !.receipts = @ \cup {r}]
             /\ Reply(<<Answer("advance", TRUE)>>)
          \/ Reply(<<Answer("advance", FALSE)>>)
      BY <2>1, Zenon DEF handleAdvance
    <2>4. \A ok \in BOOLEAN : Reply(<<Answer("advance", ok)>>) =>
            m.ok = ok /\ m.gen = Head(link.down).gen /\ m.effect = Head(link.down).effect
      BY <2>2, AnsweredOnce, Zenon
    <2>5. TRUE \in BOOLEAN /\ FALSE \in BOOLEAN
      BY Zenon
    <2>6. r \in rn'.receipts /\ m.gen = Head(link.down).gen /\ m.effect = Head(link.down).effect
      <3>. HIDE DEF r
      <3>. QED BY <2>3, <2>4, <2>5, Zenon DEF RnTypes
    <2>. QED BY <2>6, Zenon
  (* The Runner keeps its receipts while there is an Instance.               *)
  <1>ReceiptsKept. ASSUME LifecycleInv, KeptStep, sb.inst
                   PROVE  rn.receipts \subseteq rn'.receipts
    <2>. USE <1>ReceiptsKept
    <2>1. (ComputeChange \/ ImageChange) /\ ~handleDelete
      BY RnDelta, TakingNeeds, Zenon DEF LifecycleInv, KeptStep
    <2>. QED BY <2>1, Zenon DEF ComputeChange, ImageChange, SameImage
  (* An advance is queued only for an effect that has turned to advancing.   *)
  <1>AddedAdvance. ASSUME LifecycleInv, KeptStep, NEW c, Added(c), c.kind = "advance"
                   PROVE  c.effect \in StopEffects /\ stop'[c.effect].cmd = "advance"
    <2>. USE <1>AddedAdvance
    <2>0. Types /\ InstanceInv /\ stop \in StopTypes /\ "loss" \in StopEffects /\ StopEffect \in StopEffects
      BY StopEffectIn, Zenon DEF LifecycleInv, Types, StopEffects
    <2>1. \A k, e : Command(k, e).kind = k /\ Command(k, e).effect = e
      BY CommandFields, Zenon
    <2>2. /\ Command("delete", "none").kind = "delete" /\ Command("assignment", "none").kind = "assignment"
          /\ Command("fence", "none").kind = "fence" /\ Fence.kind = "lifecycle_fence"
          /\ Command("advance", "loss").effect = "loss" /\ Command("advance", StopEffect).effect = StopEffect
          /\ Command("advance", slot.effect).effect = slot.effect
      BY <2>1, Zenon DEF Fence
    <2>3. \/ c.effect = StopEffect /\ stop[StopEffect].cmd = "advance"
          \/ /\ c.effect = "loss" /\ stop' = [stop EXCEPT !["loss"] =
                                       [state |-> "queued", cmd |-> "advance", left |-> StopRetryLimit]]
          \/ /\ c.effect = slot.effect /\ slot.effect \in StopEffects
             /\ stop' = [stop EXCEPT ![slot.effect].cmd = "advance"]
      BY <2>2, Zenon DEF Added
    <2>4. CASE c.effect = StopEffect /\ stop[StopEffect].cmd = "advance"
      BY <2>0, <2>4, AdvanceStays, Zenon
    <2>5. ASSUME NEW d \in StopEffects, c.effect = d, stop' = [stop EXCEPT ![d].cmd = "advance"]
          PROVE  c.effect \in StopEffects /\ stop'[c.effect].cmd = "advance"
      BY <2>0, <2>5, StopAdvanced, Zenon
    <2>6. ASSUME NEW d \in StopEffects, NEW x, c.effect = d, stop' = [stop EXCEPT ![d] = x], x.cmd = "advance"
          PROVE  c.effect \in StopEffects /\ stop'[c.effect].cmd = "advance"
      <3>1. stop'[d] = x
        BY <2>0, <2>6, Zenon DEF StopTypes
      <3>. QED BY <2>6, <3>1, Zenon
    <2>7. [state |-> "queued", cmd |-> "advance", left |-> StopRetryLimit].cmd = "advance"
      OBVIOUS
    <2>. QED BY <2>0, <2>3, <2>4, <2>5, <2>6, <2>7, Zenon
  <1>0. Types /\ InstanceInv /\ CurrentInv /\ AdvanceInv /\ [Next]_vars /\ sb'.gen = sb.gen
    BY Zenon DEF LifecycleInv, KeptStep, SbKept
  <1>1. link \in LinkTypes /\ rn \in RnTypes
    BY <1>0, Zenon DEF Types, LinkTypes
  <1>2. ASSUME NEW c \in Rows \cup Down \cup Evidence, c.kind = "advance", c.gen = sb.gen
        PROVE  c.effect \in StopEffects /\ stop'[c.effect].cmd = "advance"
    BY <1>0, <1>2, AdvanceStays, Zenon DEF AdvanceInv
  <1>3. ASSUME NEW c \in Rows' \cup Down' \cup Evidence', c.kind = "advance", c.gen = sb.gen
        PROVE  c.effect \in StopEffects /\ stop'[c.effect].cmd = "advance"
    <2>1. CASE c \in Rows'
      BY <1>0, <1>2, <1>3, <2>1, RowsAdded, <1>AddedAdvance, Zenon
    <2>2. CASE c \in Down'
      BY <1>0, <1>2, <1>3, <2>2, LinkDelta, Zenon
    <2>3. CASE c \in Evidence'
      <3>1. c \in Evidence \/ Source(c)
        BY <1>0, <2>3, LinkDelta, Zenon
      <3>2. Source(c) => \E d \in Down : d.kind = "advance" /\ d.gen = c.gen /\ d.effect = c.effect
        BY <1>3, Zenon DEF Source, Answers
      <3>. QED BY <1>2, <1>3, <3>1, <3>2, Zenon
    <2>. QED BY <1>3, <2>1, <2>2, <2>3, Zenon
  <1>4. ASSUME NEW m \in Evidence', m.kind = "advance", m.ok, m.gen = sb.gen
        PROVE  <<m.effect, m.gen>> \in rn'.receipts
    <2>1. CASE m \in Evidence
      <3>1. sb.inst
        BY <1>0, <1>4, <2>1, Zenon DEF CurrentInv, Heard, Placements
      <3>2. <<m.effect, m.gen>> \in rn.receipts
        BY <1>0, <1>4, <2>1, Zenon DEF AdvanceInv
      <3>. QED BY <3>1, <3>2, <1>ReceiptsKept, Zenon
    <2>2. CASE m \notin Evidence
      <3>1. Runner /\ NewEvidence(m)
        BY <1>0, <1>4, <2>2, LinkDelta, Zenon DEF NewEvidence
      <3>. QED BY <1>1, <1>4, <3>1, <1>AdvanceSeen, Zenon
    <2>. QED BY <2>1, <2>2, Zenon
  <1>5. ASSUME NEW e \in StopEffects, stop'[e].state = "runner_succeeded"
        PROVE  <<e, sb.gen>> \in rn'.receipts
    <2>1. StopChange(e) /\ ~\E w \in Workers : ApplyFinishStop(w)
      BY <1>0, StopDelta, Zenon DEF KeptStep
    <2>2. CASE stop[e].state = "runner_succeeded"
      <3>1. sb.inst
        BY <1>0, <2>2, Zenon DEF InstanceInv
      <3>. QED BY <1>0, <2>2, <3>1, <1>ReceiptsKept, Zenon DEF AdvanceInv
    <2>3. CASE stop[e].state # "runner_succeeded"
      <3>1. /\ msg.ok /\ e = msg.effect /\ AdvanceAuthority /\ Hears("advance")
            /\ recordLocalGenerationAdvanceResult
        BY <1>5, <2>1, <2>3, Zenon DEF StopChange, StopSame
      <3>2. msg \in Evidence /\ msg.kind = "advance" /\ msg.gen = sb.gen
        BY <1>1, <3>1, LinkLoss, Zenon DEF AdvanceAuthority, Hears, msg, RecordStep, WorkspaceResult
      <3>3. sb.inst
        BY <1>0, <3>1, NeedsInstance, Zenon
      <3>4. <<msg.effect, msg.gen>> \in rn.receipts
        BY <1>0, <3>1, <3>2, Zenon DEF AdvanceInv
      <3>. QED BY <3>1, <3>2, <3>3, <3>4, <1>ReceiptsKept, Zenon
    <2>. QED BY <2>2, <2>3, Zenon
  <1>. QED BY <1>0, <1>3, <1>4, <1>5, Zenon DEF AdvanceInv

(***************************************************************************)
(* The manifest and its receipts.                                          *)
(***************************************************************************)

(* Manifest, receipts and the committed generation agree.                  *)
LEMMA ReceiptKept ==
  ASSUME LifecycleInv, KeptStep
  PROVE  ReceiptInv'
  <1>WasReady. ASSUME LifecycleInv, KeptStep, ws' = "ready"
               PROVE  \/ ws = "ready"
                      \/ ws = "creating" /\ rn.manifest = 1 /\ sb.gen = 1 /\ rn' = rn
    <2>. USE <1>WasReady
    <2>0. Types /\ WorkspaceInv /\ EffectInv /\ [Next]_vars /\ link \in LinkTypes
      BY Zenon DEF LifecycleInv, KeptStep, Types, LinkTypes
    <2>1. SameWs \/ DeleteQueued \/ CreateDone \/ DeleteDone
      BY <2>0, WsDelta, Zenon
    <2>2. SameWs => ws = "ready"
      BY Zenon DEF SameWs
    <2>3. ~DeleteQueued
      <3>1. fx.delete \in {"queued", "runner_failed"} => ws = "deleting"
        BY <2>0, Zenon DEF EffectInv
      <3>. QED BY <3>1, Zenon DEF DeleteQueued
    <2>4. ~DeleteDone
      BY Zenon DEF DeleteDone
    <2>5. ASSUME CreateDone PROVE ws = "creating" /\ rn.manifest = 1 /\ sb.gen = 1 /\ rn' = rn
      <3>1. recordLocalWorkspaceResult /\ fx.create = "queued" /\ msg.ok
        BY <2>5, Zenon DEF CreateDone
      <3>2. msg \in Evidence /\ msg.kind = "create" /\ rn' = rn
        BY <2>0, <3>1, LinkLoss, Zenon DEF Hears, msg, RecordStep, WorkspaceResult, recordLocalWorkspaceResult
      <3>. QED BY <2>0, <3>1, <3>2, Zenon DEF WorkspaceInv
    <2>. QED BY <2>1, <2>2, <2>3, <2>4, <2>5, Zenon
  (* A receipt is of a generation below the manifest's.                      *)
  <1>Receipted. ASSUME LifecycleInv, KeptStep, NEW e \in StopEffects, NEW g \in Generations, <<e, g>> \in rn'.receipts
                PROVE  g < rn'.manifest /\ (g = sb.gen /\ ws = "ready" => stop'[e].cmd = "advance")
    <2>. USE <1>Receipted
    <2>0. Types /\ AdvanceInv /\ ReceiptInv /\ [Next]_vars /\ rn \in RnTypes
      BY Zenon DEF LifecycleInv, KeptStep, Types
    <2>1. rn.manifest \in 0 .. MaxGeneration /\ g \in Nat /\ g >= 1
      <3>1. rn.manifest \in 0 .. MaxGeneration
        BY <2>0, Zenon DEF RnTypes
      <3>2. g \in Nat /\ g >= 1
        BY Bounds DEF Generations
      <3>. QED BY <3>1, <3>2
    <2>2. ASSUME <<e, g>> \in rn.receipts
          PROVE  g < rn.manifest /\ (g = sb.gen /\ ws = "ready" => stop'[e].cmd = "advance")
      BY <2>0, <2>2, AdvanceStays, Zenon DEF ReceiptInv
    <2>3. ComputeChange \/ ImageChange
      BY <2>0, RnDelta, Zenon
    <2>4. CASE ComputeChange
      BY <2>2, <2>4, Zenon DEF ComputeChange, SameImage
    <2>5. ASSUME handleAdvance, rn.manifest = Head(link.down).gen, rn'.manifest = rn.manifest + 1,
                 rn'.receipts = rn.receipts \cup {<<Head(link.down).effect, Head(link.down).gen>>}
          PROVE  g < rn'.manifest /\ (g = sb.gen /\ ws = "ready" => stop'[e].cmd = "advance")
      <3>1. CASE <<e, g>> \in rn.receipts
        <4>1. g < rn.manifest
          BY <2>2, <3>1, Zenon
        <4>2. g < rn'.manifest
          BY <2>1, <2>5, <4>1
        <4>. QED BY <2>2, <3>1, <4>2, Zenon
      <3>2. CASE <<e, g>> \notin rn.receipts
        <4>1. <<e, g>> = <<Head(link.down).effect, Head(link.down).gen>>
          BY <2>5, <3>2, Zenon
        <4>2. e = Head(link.down).effect /\ g = Head(link.down).gen
          BY ONLY <4>1
        <4>3. g < rn'.manifest
          BY <2>1, <2>5, <4>2
        <4>4. Head(link.down) \in Down /\ Head(link.down).kind = "advance"
          BY <2>0, <2>5, Taking, Zenon
        <4>5. g = sb.gen => stop[e].cmd = "advance"
          BY <2>0, <4>2, <4>4, Zenon DEF AdvanceInv
        <4>. QED BY <4>3, <4>5, AdvanceStays, Zenon
      <3>. QED BY <3>1, <3>2, Zenon
    <2>6. ASSUME rn'.receipts = rn.receipts, rn'.manifest = IF rn.manifest = 0 THEN 1 ELSE rn.manifest
          PROVE  g < rn'.manifest /\ (g = sb.gen /\ ws = "ready" => stop'[e].cmd = "advance")
      <3>1. g < rn.manifest
        BY <2>2, <2>6, Zenon
      <3>2. g < rn'.manifest
        BY <2>1, <2>6, <3>1
      <3>. QED BY <2>2, <2>6, <3>2, Zenon
    <2>7. CASE ImageChange
      BY <2>5, <2>6, <2>7, Zenon DEF ImageChange
    <2>. QED BY <2>3, <2>4, <2>7, Zenon
  (* The manifest is at the committed generation, or one ahead with its      *)
  (* receipt.                                                                *)
  <1>ManifestKept. ASSUME LifecycleInv, KeptStep, ws = "ready"
                   PROVE  \/ rn'.manifest = sb.gen
                          \/ rn'.manifest = sb.gen + 1 /\ \E e \in StopEffects : <<e, sb.gen>> \in rn'.receipts
    <2>. USE <1>ManifestKept
    <2>0. Types /\ GenInv /\ AdvanceInv /\ ReceiptInv /\ [Next]_vars /\ rn \in RnTypes
      BY Zenon DEF LifecycleInv, KeptStep, Types
    <2>1. sb.gen \in Nat /\ sb.gen >= 1
      <3>1. sb.gen \in Generations
        BY <2>0, Zenon DEF Types, SbTypes
      <3>. QED BY <3>1, Bounds DEF Generations
    <2>2. \/ rn.manifest = sb.gen
          \/ rn.manifest = sb.gen + 1 /\ \E e \in StopEffects : <<e, sb.gen>> \in rn.receipts
      BY <2>0, Zenon DEF ReceiptInv
    <2>3. rn.manifest # 0
      BY <2>1, <2>2
    <2>4. (ComputeChange \/ ImageChange) /\ ~handleDelete
      BY <2>0, RnDelta, TakingNeeds, Zenon
    <2>5. SameImage => (\/ rn'.manifest = sb.gen
                        \/ rn'.manifest = sb.gen + 1 /\ \E e \in StopEffects : <<e, sb.gen>> \in rn'.receipts)
      BY <2>2, Zenon DEF SameImage
    <2>6. ASSUME handleAdvance, rn.manifest = Head(link.down).gen, rn'.manifest = rn.manifest + 1,
                 rn'.receipts = rn.receipts \cup {<<Head(link.down).effect, Head(link.down).gen>>}
          PROVE  rn'.manifest = sb.gen + 1 /\ \E e \in StopEffects : <<e, sb.gen>> \in rn'.receipts
      <3>1. Head(link.down) \in Down /\ Head(link.down).kind = "advance"
        BY <2>0, <2>6, Taking, Zenon
      <3>2. Head(link.down).gen <= sb.gen
        BY <2>0, <3>1, Zenon DEF GenInv
      <3>3. Head(link.down).gen = sb.gen
        BY <2>1, <2>2, <2>6, <3>2
      <3>4. Head(link.down).effect \in StopEffects
        BY <2>0, <3>1, <3>3, Zenon DEF AdvanceInv
      <3>. QED BY <2>6, <3>3, <3>4, Zenon
    <2>7. ImageChange => SameImage \/ (rn'.manifest = sb.gen + 1 /\ \E e \in StopEffects : <<e, sb.gen>> \in rn'.receipts)
      BY <2>3, <2>4, <2>6, Zenon DEF ImageChange, SameImage
    <2>. QED BY <2>4, <2>5, <2>7, Zenon DEF ComputeChange
  <1>0. ReceiptInv /\ sb'.gen = sb.gen
    BY Zenon DEF LifecycleInv, KeptStep, SbKept
  <1>1. ASSUME NEW e \in StopEffects, NEW g \in Generations, <<e, g>> \in rn'.receipts
        PROVE  g < rn'.manifest /\ (ws' = "ready" /\ g = sb'.gen => stop'[e].cmd = "advance")
    <2>1. g < rn'.manifest /\ (g = sb.gen /\ ws = "ready" => stop'[e].cmd = "advance")
      BY <1>1, <1>Receipted, Zenon
    <2>2. ~(rn.manifest = 1 /\ rn' = rn)
      <3>1. rn' = rn => g < rn.manifest
        BY <2>1, Zenon
      <3>2. ~(g < 1)
        BY Bounds DEF Generations
      <3>. QED BY <3>1, <3>2, Zenon
    <2>. QED BY <1>0, <2>1, <2>2, <1>WasReady, Zenon
  <1>2. ASSUME ws' = "ready"
        PROVE  \/ rn'.manifest = sb.gen
               \/ rn'.manifest = sb.gen + 1 /\ \E e \in StopEffects : <<e, sb.gen>> \in rn'.receipts
    BY <1>2, <1>WasReady, <1>ManifestKept, Zenon
  <1>. QED BY <1>0, <1>1, <1>2, Zenon DEF ReceiptInv

(***************************************************************************)
(* An effect that waits keeps the command it waits for.                    *)
(***************************************************************************)
AdvanceTaken == recordLocalGenerationAdvanceResult /\ Rows' = Removed("advance", msg.effect)
DeleteTaken == recordLocalWorkspaceDeleteResult /\ Rows' = Removed("delete", msg.effect)

(* Which steps remove a command that an effect may wait for.               *)
LEMMA RowKept ==
  ASSUME LifecycleInv, KeptStep, NEW c \in Rows, c \notin Rows', c.gen = sb.gen, c.kind \notin AssignmentCommands
  PROVE  \/ \E w \in Workers : StopStep(w)
         \/ c.kind = "lifecycle_fence" /\ (AdvanceFencedGeneration \/ recordFenceStopped)
         \/ c.kind = "lifecycle_fence" /\ acknowledgeRedundantFenceResult /\ msg.gen = sb.gen
         \/ c.kind = "advance" /\ AdvanceTaken
         \/ c.kind = "delete" /\ (DeleteTaken \/ \E w \in Workers : DeleteStep(w))
         \/ c.kind = "create" /\ recordLocalWorkspaceResult /\ fx.create = "queued"
  <1>0. Types /\ EffectInv /\ [Next]_vars /\ link \in LinkTypes
    BY Zenon DEF LifecycleInv, KeptStep, Types, LinkTypes
  <1>1. (UNCHANGED cmds \/ RowStep) /\ ~\E w \in Workers : scheduleOnce(w)
    BY <1>0, Steps, Zenon DEF KeptStep
  <1>2. ~UNCHANGED cmds
    BY Zenon DEF Rows, Contents
  <1>3. ASSUME NEW K, NEW x, Rows' = Dropped(K) \/ Rows' = Dropped(K) \cup {x} PROVE c.kind \in K
    BY <1>3, Zenon DEF Dropped
  <1>4. ASSUME NEW k, NEW e, NEW x, Rows' = Removed(k, e) \/ Rows' = Removed(k, e) \cup {x} PROVE c.kind = k
    BY <1>4, Zenon DEF Removed
  <1>5. ~FenceStep /\ ~TerminalStep
    BY <1>3, RowsReconciler, Zenon
  <1>6. ~ApplyRetry
    <2>1. c.kind \notin {"assignment"}
      BY Zenon DEF AssignmentCommands
    <2>. QED BY <1>3, <2>1, RowsReconciler, Zenon
  <1>7. ~OpenConnection /\ ~ClaimCommands
    BY RowsReconciler, Zenon
  <1>8. AdvanceFencedGeneration => c.kind = "lifecycle_fence"
    <2>. DEFINE K == AssignmentCommands \cup {"lifecycle_fence"}
    <2>1. AdvanceFencedGeneration => \E x : Rows' = Dropped(K) \/ Rows' = Dropped(K) \cup {x}
      BY RowsAdvance, Zenon
    <2>. HIDE DEF K
    <2>2. AdvanceFencedGeneration => c.kind \in K
      BY <1>3, <2>1, Zenon
    <2>. QED BY <2>2, Zenon DEF K
  <1>9. ~AssignmentStep
    <2>1. Rows' # Rows /\ Rows' # Unanswered
      BY Zenon DEF Unanswered, AssignmentCommands
    <2>. QED BY <2>1, RowsRecord, Zenon
  <1>10. AcknowledgeMatching => c.kind = msg.cmd /\ c.gen = msg.gen
    BY RowsMatching, Zenon
  <1>11. recordFenceStopped \/ acknowledgeRedundantFenceResult => msg.cmd \in FenceKinds
    <2>1. recordFenceStopped \/ acknowledgeRedundantFenceResult => msg \in Evidence
      BY <1>0, LinkLoss, Zenon DEF RecordStep
    <2>2. recordFenceStopped \/ acknowledgeRedundantFenceResult => msg.kind = "fence"
      BY Zenon DEF recordFenceStopped, acknowledgeRedundantFenceResult, Hears, msg
    <2>. QED BY <1>0, <2>1, <2>2, Zenon DEF EffectInv
  <1>12. c.kind \in FenceKinds => c.kind = "lifecycle_fence"
    BY Zenon DEF FenceKinds, AssignmentCommands
  <1>13. recordFenceStopped => c.kind = "lifecycle_fence"
    <2>1. recordFenceStopped =>
            \/ AcknowledgeMatching \/ Rows' = Rows
            \/ \E x : Rows' = Removed("lifecycle_fence", "stop") \cup {x}
      BY RowsFence, Zenon
    <2>2. AcknowledgeMatching /\ recordFenceStopped => c.kind = "lifecycle_fence"
      BY <1>10, <1>11, <1>12, Zenon
    <2>3. \A x : Rows' = Removed("lifecycle_fence", "stop") \cup {x} => c.kind = "lifecycle_fence"
      BY <1>4, Zenon
    <2>. QED BY <2>1, <2>2, <2>3, Zenon
  <1>14. acknowledgeRedundantFenceResult => c.kind = "lifecycle_fence" /\ msg.gen = sb.gen
    BY <1>10, <1>11, <1>12, Zenon DEF acknowledgeRedundantFenceResult
  <1>15. recordLocalGenerationAdvanceResult => AdvanceTaken /\ c.kind = "advance"
    BY <1>4, RowsRecord, Zenon DEF AdvanceTaken
  <1>16. recordLocalWorkspaceResult => fx.create = "queued" /\ c.kind = "create"
    <2>1. recordLocalWorkspaceResult => Rows' = Removed("create", msg.effect)
      BY RowsRecord, Zenon
    <2>2. recordLocalWorkspaceResult => fx.create = "queued"
      BY <1>2, Zenon DEF recordLocalWorkspaceResult
    <2>. QED BY <1>4, <2>1, <2>2, Zenon
  <1>17. recordLocalWorkspaceDeleteResult => DeleteTaken /\ c.kind = "delete"
    BY <1>4, RowsRecord, Zenon DEF DeleteTaken
  <1>18. ASSUME NEW w \in Workers, DeleteStep(w) PROVE c.kind = "delete"
    BY <1>4, <1>18, RowsWorker, Zenon DEF DeleteStep
  <1>. QED BY <1>1, <1>2, <1>5, <1>6, <1>7, <1>8, <1>9, <1>13, <1>14, <1>15, <1>16, <1>17, <1>18, Zenon
        DEF RowStep, WorkspaceResult

(* A stop step leaves its effect with a command or failed.                 *)
LEMMA StopOutcome ==
  ASSUME LifecycleInv, NEW w \in Workers, StopStep(w)
  PROVE  /\ stop'[StopEffect].state # "none"
         /\ slot'.kind = "none" => stop'[StopEffect].state = "runner_failed"
         /\ Rows \subseteq Rows' \/ StopCommand(StopEffect) \in Rows' \/ stop'[StopEffect].state = "runner_failed"
  <1>. DEFINE e == StopEffect
  <1>0. Types /\ InstanceInv /\ stop \in StopTypes /\ slot \in SlotTypes /\ e \in StopEffects
    BY StopEffectIn, Zenon DEF LifecycleInv, Types
  <1>1. AcquiresStop \/ slot.kind = "stop"
    BY <1>0, NeedsInstance, Zenon
  <1>2. slot' = StopSlot(e) \/ slot' = [StopSlot(e) EXCEPT !.state = "advancing"] => slot'.kind = "stop"
    BY <1>0, <1>1, SlotStop, Zenon
  <1>3. ASSUME NEW x, stop' = [stop EXCEPT ![e] = x], x.state = "queued" PROVE stop'[e].state = "queued"
    <2>1. stop'[e] = x
      BY <1>0, <1>3, Zenon DEF StopTypes
    <2>. QED BY <1>3, <2>1, Zenon
  <1>4. \A c, n : [state |-> "queued", cmd |-> c, left |-> n].state = "queued"
    OBVIOUS
  <1>5. stop' = [stop EXCEPT ![e].state = "runner_failed"] => stop'[e].state = "runner_failed"
    <2>1. "runner_failed" \in EffectStates
      BY Zenon DEF EffectStates
    <2>2. \A x \in EffectStates : stop' = [stop EXCEPT ![e].state = x] => stop'[e].state = x
      BY <1>0, StopAnswered, Zenon
    <2>. QED BY <2>1, <2>2, Zenon
  <1>6. ASSUME queueStop(w)
        PROVE  stop'[e].state = "queued" /\ slot'.kind = "stop" /\ Rows \subseteq Rows'
    <2>1. /\ slot' = StopSlot(e)
          /\ stop' = [stop EXCEPT ![e] = [state |-> "queued", cmd |-> "fence", left |-> StopRetryLimit]]
      BY <1>6, Zenon DEF queueStop
    <2>2. stop'[e].state = "queued"
      BY <1>3, <1>4, <2>1, Zenon
    <2>3. Rows' = Rows \cup {Fence}
      BY <1>6, RowsWorker, Zenon
    <2>. QED BY <1>2, <2>1, <2>2, <2>3, Zenon
  <1>7. ASSUME NEW p \in BOOLEAN, resumeStopEffect(w, p)
        PROVE  \/ stop'[e].state # "none" /\ slot'.kind = "stop" /\ Rows \subseteq Rows'
               \/ stop'[e].state = "runner_failed"
               \/ stop'[e].state = "queued" /\ slot'.kind = "stop" /\ StopCommand(e) \in Rows'
    <2>1. stop[e].state # "none"
      BY <1>7, Zenon DEF resumeStopEffect
    <2>. DEFINE k == IF stop[e].cmd = "advance" THEN Removed("advance", e)
                     ELSE Removed("lifecycle_fence", "stop")
    <2>2. \/ Rows' = Rows /\ stop' = stop /\ slot' = StopSlot(e)
          \/ stop' = [stop EXCEPT ![e].state = "runner_failed"]
          \/ /\ Rows' = k \cup {StopCommand(e)}
             /\ \E n \in 0 .. StopRetryLimit :
                  stop' = [stop EXCEPT ![e] = [state |-> "queued", cmd |-> stop[e].cmd, left |-> n]]
             /\ slot' = StopSlot(e) \/ slot' = [StopSlot(e) EXCEPT !.state = "advancing"]
      BY <1>0, <1>7, RowsResume, Zenon
    <2>. HIDE DEF k
    <2>3. ASSUME NEW n, stop' = [stop EXCEPT ![e] = [state |-> "queued", cmd |-> stop[e].cmd, left |-> n]]
          PROVE  stop'[e].state = "queued"
      BY <1>3, <1>4, <2>3, Zenon
    <2>. QED BY <1>2, <1>5, <2>1, <2>2, <2>3, Zenon
  <1>8. ("queued" # "none") /\ ("stop" # "none") /\ ("runner_failed" # "none")
    OBVIOUS
  <1>9. queueStop(w) \/ \E p \in BOOLEAN : resumeStopEffect(w, p)
    BY Zenon DEF StopStep
  <1>. QED BY <1>6, <1>7, <1>8, <1>9, Zenon

(* A stop effect that waits has its command and the slot.                  *)
LEMMA QueuedKept ==
  ASSUME LifecycleInv, KeptStep, NEW e \in StopEffects, stop'[e].state = "queued"
  PROVE  /\ slot'.kind = "stop" /\ slot'.effect = e /\ asg'.state # "fenced"
         /\ stop'[e].cmd = "advance" => Command("advance", e) \in Rows'
         /\ stop'[e].cmd # "advance" => Fence \in Rows'
  (* An effect that waits keeps the slot.                                    *)
  <1>AwaitedSlot. ASSUME LifecycleInv, KeptStep, NEW e0 \in StopEffects, slot.kind = "stop", slot.effect = e0,
                         stop[e0].state = "queued", stop'[e0].state = "queued"
                  PROVE  slot'.kind = "stop" /\ slot'.effect = e0
    <2>. USE <1>AwaitedSlot
    <2>0. Types /\ InstanceInv /\ WorkspaceInv /\ [Next]_vars /\ sb.inst /\ ws = "ready"
      BY Zenon DEF LifecycleInv, KeptStep, InstanceInv
    <2>1. SlotChange /\ ~\E w \in Workers : ApplyFinishStop(w) \/ scheduleOnce(w)
      BY <2>0, SlotDelta, Zenon DEF KeptStep
    <2>2. ~AcquiresStop /\ StopEffect = e0
      BY Zenon DEF AcquiresStop, ReplaceFailedStart, StopEffect
    <2>3. ASSUME NEW w \in Workers, StopStep(w) PROVE slot'.kind # "none"
      BY <2>2, <2>3, StopOutcome, Zenon
    <2>4. ASSUME NEW w \in Workers PROVE ~DeleteStep(w)
      BY <2>0, Zenon DEF DeleteStep, queueWorkspaceDelete, resumeWorkspaceDeleteEffect, DeleteAdmissible
    <2>5. fx.create # "queued"
      BY <2>0, Zenon DEF WorkspaceInv
    <2>6. SlotSame \/ ~SlotSame
      OBVIOUS
    <2>7. SlotSame => slot'.kind = "stop" /\ slot'.effect = e0
      BY Zenon DEF SlotSame
    <2>. QED BY <2>0, <2>1, <2>2, <2>3, <2>4, <2>5, <2>7, Zenon DEF SlotChange, Released0
  (* A recorded advance settles its effect.                                  *)
  <1>AdvanceOutcomes. ASSUME stop \in StopTypes, msg.effect \in StopEffects, AdvanceTaken, Rows' # Rows
                      PROVE  stop'[msg.effect].state # "queued"
    <2>. USE <1>AdvanceOutcomes
    <2>1. cmds' # cmds
      BY Zenon DEF Rows, Contents
    <2>2. stop' = [stop EXCEPT ![msg.effect].state = AdvanceOutcome]
      BY <2>1, Zenon DEF AdvanceTaken, recordLocalGenerationAdvanceResult
    <2>3. AdvanceOutcome \in EffectStates /\ AdvanceOutcome # "queued"
      BY DEF AdvanceOutcome, EffectStates
    <2>4. stop'[msg.effect].state = AdvanceOutcome
      <3>1. \A d \in StopEffects, x \in EffectStates :
              stop' = [stop EXCEPT ![d].state = x] => stop'[d].state = x
        BY StopAnswered, Zenon
      <3>. QED BY <2>2, <2>3, <3>1, Zenon
    <2>. QED BY <2>3, <2>4, Zenon
  (* An untouched effect keeps the command it waits for.                     *)
  <1>AwaitedRow. ASSUME LifecycleInv, KeptStep, NEW e0 \in StopEffects, StopSame(e0), stop[e0].state = "queued"
                 PROVE  /\ stop[e0].cmd = "advance" => Command("advance", e0) \in Rows'
                        /\ stop[e0].cmd # "advance" => Fence \in Rows'
    <2>. USE <1>AwaitedRow
    <2>0. Types /\ InstanceInv /\ EffectInv /\ [Next]_vars /\ stop \in StopTypes
      BY Zenon DEF LifecycleInv, KeptStep, Types
    <2>1. slot.kind = "stop" /\ slot.effect = e0 /\ asg.state # "fenced" /\ sb.inst
      BY <2>0, Zenon DEF EffectInv, InstanceInv
    <2>2. StopCommand(e0) \in Rows
      BY <2>0, Zenon DEF EffectInv, StopCommand
    <2>3. StopEffect = e0 /\ stop'[e0].state = "queued" /\ stop'[e0].cmd = stop[e0].cmd
      BY <2>1, Zenon DEF StopEffect, StopSame
    <2>4. /\ stop[e0].cmd = "advance" => StopCommand(e0) = Command("advance", e0) /\ StopCommand(e0).kind = "advance"
          /\ stop[e0].cmd # "advance" => StopCommand(e0) = Fence /\ StopCommand(e0).kind = "lifecycle_fence"
          /\ StopCommand(e0).gen = sb.gen
      <3>1. \A k, x : Command(k, x).kind = k /\ Command(k, x).gen = sb.gen
        BY CommandFields, Zenon
      <3>2. /\ Command("advance", e0).kind = "advance" /\ Command("lifecycle_fence", "stop").kind = "lifecycle_fence"
            /\ Command("advance", e0).gen = sb.gen /\ Command("lifecycle_fence", "stop").gen = sb.gen
        BY <3>1, Zenon
      <3>. QED BY <3>2, Zenon DEF StopCommand, Fence
    <2>5. ASSUME StopCommand(e0) \notin Rows' PROVE FALSE
      <3>. DEFINE c == StopCommand(e0)
      <3>1. c \in Rows /\ c \notin Rows' /\ c.gen = sb.gen /\ c.kind \in {"advance", "lifecycle_fence"}
        BY <2>2, <2>4, <2>5, Zenon
      <3>2. stop[e0].cmd = "advance" <=> c.kind = "advance"
        BY <2>4, Zenon
      <3>. HIDE DEF c
      <3>3. c.kind \notin AssignmentCommands /\ Rows' # Rows
        BY <3>1, Zenon DEF AssignmentCommands
      <3>4. ASSUME NEW w \in Workers, StopStep(w) PROVE FALSE
        <4>1. ~(Rows \subseteq Rows')
          BY <3>1, Zenon
        <4>. QED BY <2>3, <2>5, <3>4, <4>1, StopOutcome, Zenon
      <3>5. ~AdvanceFencedGeneration
        BY <2>0, <2>1, NeedsInstance, Zenon
      <3>6. recordFenceStopped => c.kind # "lifecycle_fence"
        <4>1. Authority # {}
          BY <2>0, <2>3, Zenon DEF Authority, StopSame
        <4>2. stop' = [stop EXCEPT ![e0].cmd = "advance"] => stop'[e0].cmd = "advance"
          BY <2>0, StopAdvanced, Zenon
        <4>. QED BY <2>1, <2>3, <3>2, <3>3, <4>1, <4>2, RowsFence, Zenon
      <3>7. acknowledgeRedundantFenceResult => msg.gen # sb.gen
        BY <2>1, Zenon DEF acknowledgeRedundantFenceResult, CurrentFence
      <3>8. ~AdvanceTaken
        <4>1. AdvanceTaken => msg.effect = e0
          BY <2>1, Zenon DEF AdvanceTaken, recordLocalGenerationAdvanceResult, AdvanceAuthority
        <4>. QED BY <2>0, <2>3, <3>3, <4>1, <1>AdvanceOutcomes, Zenon
      <3>. QED BY <3>1, <3>3, <3>4, <3>5, <3>6, <3>7, <3>8, RowKept, Zenon
    <2>. QED BY <2>4, <2>5, Zenon
  <1>0. Types /\ InstanceInv /\ EffectInv /\ [Next]_vars
    BY Zenon DEF LifecycleInv, KeptStep
  <1>1. StopChange(e) /\ ~\E w \in Workers : ApplyFinishStop(w)
    BY <1>0, StopDelta, Zenon DEF KeptStep
  <1>2. ("queued" # "none") /\ ("queued" # "runner_failed") /\ ("queued" # "runner_succeeded")
        /\ ("fence" # "advance")
    OBVIOUS
  <1>3. ASSUME stop[e].state = "queued", asg.state # "fenced" PROVE asg'.state # "fenced"
    <2>1. Authority # {}
      BY <1>3, Zenon DEF Authority
    <2>2. AsgChange
      BY <1>0, AsgDelta, Zenon
    <2>3. recordFenceStopped => asg'.state = "released"
      BY <1>0, <2>1, AsgOutcome, Zenon
    <2>. QED BY <1>3, <2>2, <2>3, Zenon DEF AsgChange
  <1>4. ASSUME NEW w \in Workers, StopStep(w) PROVE asg'.state # "fenced"
    <2>1. asg' = asg /\ asg.state \in StopStates
      BY <1>0, <1>4, NeedsInstance, Zenon
    <2>. QED BY <2>1, Zenon DEF StopStates
  <1>5. CASE StopSame(e)
    <2>1. stop[e].state = "queued" /\ stop'[e].cmd = stop[e].cmd
      BY <1>5, Zenon DEF StopSame
    <2>2. slot.kind = "stop" /\ slot.effect = e /\ asg.state # "fenced"
      BY <1>0, <2>1, Zenon DEF EffectInv
    <2>. QED BY <1>3, <1>5, <2>1, <2>2, <1>AwaitedSlot, <1>AwaitedRow, Zenon
  <1>6. CASE /\ stop'[e].cmd = "fence" /\ Fence \in Rows' /\ slot'.kind = "stop" /\ slot'.effect = e
             /\ \E w \in Workers : StopStep(w)
    BY <1>2, <1>4, <1>6, Zenon
  <1>7. CASE /\ stop'[e].cmd = stop[e].cmd /\ StopCommand(e) \in Rows' /\ slot'.kind = "stop" /\ slot'.effect = e
             /\ \E w \in Workers : StopStep(w)
    BY <1>4, <1>7, Zenon DEF StopCommand, Fence
  <1>8. CASE /\ stop'[e].cmd = "advance" /\ Command("advance", e) \in Rows' /\ slot'.kind = "stop" /\ slot'.effect = e
             /\ AdvanceFencedGeneration
    <2>1. asg'.state = "released"
      BY <1>0, <1>8, AsgOutcome, Zenon
    <2>. QED BY <1>8, <2>1, Zenon
  <1>9. CASE /\ stop'[e].cmd = "advance" /\ Command("advance", e) \in Rows' /\ slot'.kind = "stop" /\ slot'.effect = e
             /\ recordFenceStopped /\ stop[e].state = "queued"
    <2>1. asg'.state # "fenced"
      BY <1>0, <1>3, <1>9, Zenon DEF EffectInv
    <2>. QED BY <1>9, <2>1, Zenon
  <1>. QED BY <1>1, <1>2, <1>5, <1>6, <1>7, <1>8, <1>9, Zenon DEF StopChange

(* Create and delete effects that wait have their commands.                *)
LEMMA CreateAndDelete ==
  ASSUME LifecycleInv, KeptStep
  PROVE  /\ fx'.delete # "none" => ws' = IF fx'.delete = "succeeded" THEN "deleted" ELSE "deleting"
         /\ fx'.delete = "queued" => Command("delete", "none") \in Rows'
         /\ fx'.create = "queued" => Command("create", "none") \in Rows'
  (* A deletion step leaves the delete command queued.                       *)
  <1>DeleteRow. ASSUME Types, NEW w \in Workers, DeleteStep(w)
                PROVE  Command("delete", "none") \in Rows' \/ (Rows' = Rows /\ fx' = fx)
    <2>. USE <1>DeleteRow
    <2>1. \A p \in BOOLEAN : resumeWorkspaceDeleteEffect(w, p) =>
            (fx' = fx /\ cmds' = cmds) \/ cmds' = Queued(Without("delete", "none"), Command("delete", "none"))
      BY Zenon DEF resumeWorkspaceDeleteEffect
    <2>2. cmds' = cmds => Rows' = Rows
      BY Zenon DEF Rows, Contents
    <2>3. cmds' = Queued(Without("delete", "none"), Command("delete", "none")) => Command("delete", "none") \in Rows'
      <3>1. Contents(Queued(Without("delete", "none"), Command("delete", "none")))
              = Removed("delete", "none") \cup {Command("delete", "none")}
        BY QueuedContents, KeptRows
      <3>2. Rows' = Contents(cmds')
        BY Zenon DEF Rows
      <3>. QED BY <3>1, <3>2
    <2>4. queueWorkspaceDelete(w) => Command("delete", "none") \in Rows'
      BY RowsWorker, Zenon
    <2>. QED BY <2>1, <2>2, <2>3, <2>4, Zenon DEF DeleteStep
  <1>0. Types /\ InstanceInv /\ WorkspaceInv /\ EffectInv /\ [Next]_vars
    BY Zenon DEF LifecycleInv, KeptStep
  <1>1. SameWs \/ DeleteQueued \/ CreateDone \/ DeleteDone
    BY <1>0, WsDelta, Zenon
  <1>2. /\ fx.delete # "none" => ws = IF fx.delete = "succeeded" THEN "deleted" ELSE "deleting"
        /\ fx.delete = "queued" => Command("delete", "none") \in Rows
        /\ fx.create = "queued" => Command("create", "none") \in Rows
        /\ fx.create = "queued" => ws = "creating"
    BY <1>0, Zenon DEF EffectInv, WorkspaceInv
  <1>3. fx.create = "queued" => fx.delete = "none"
    BY <1>2, Zenon
  <1>4. fx'.delete # "none" => ws' = IF fx'.delete = "succeeded" THEN "deleted" ELSE "deleting"
    <2>1. CASE SameWs
      BY <1>2, <2>1, Zenon DEF SameWs
    <2>2. CASE DeleteQueued
      BY <1>2, <2>2, Zenon DEF DeleteQueued
    <2>3. CASE CreateDone
      BY <1>3, <2>3, Zenon DEF CreateDone
    <2>4. CASE DeleteDone
      BY <2>4, Zenon DEF DeleteDone
    <2>. QED BY <1>1, <2>1, <2>2, <2>3, <2>4, Zenon
  <1>5. /\ Command("delete", "none").kind = "delete" /\ Command("delete", "none").gen = sb.gen
        /\ Command("create", "none").kind = "create" /\ Command("create", "none").gen = sb.gen
    <2>1. \A k, e : Command(k, e).kind = k /\ Command(k, e).gen = sb.gen
      BY CommandFields, Zenon
    <2>. QED BY <2>1, Zenon
  <1>6. ASSUME NEW w \in Workers, StopStep(w) PROVE ws = "ready"
    BY <1>0, <1>6, NeedsInstance, Zenon
  <1>7. ASSUME fx'.delete = "queued" PROVE Command("delete", "none") \in Rows'
    <2>1. CASE \E w \in Workers : DeleteStep(w)
      BY <1>0, <1>2, <1>7, <2>1, <1>DeleteRow, Zenon
    <2>2. CASE ~\E w \in Workers : DeleteStep(w)
      <3>1. fx.delete = "queued"
        BY <1>1, <1>3, <1>7, <2>2, Zenon DEF SameWs, DeleteQueued, CreateDone, DeleteDone
      <3>2. ws = "deleting" /\ Command("delete", "none") \in Rows
        BY <1>2, <3>1, Zenon
      <3>3. recordLocalWorkspaceDeleteResult => fx'.delete # "queued"
        <4>1. fx \in FxTypes
          BY <1>0, Zenon DEF Types, FxTypes
        <4>2. recordLocalWorkspaceDeleteResult => fx' = [fx EXCEPT !.delete = "succeeded"]
          BY <3>1, Zenon DEF recordLocalWorkspaceDeleteResult
        <4>3. \A d : fx' = [fx EXCEPT !.delete = d] => fx'.delete = d
          BY <4>1, Zenon DEF FxTypes
        <4>. QED BY <4>2, <4>3, Zenon
      <3>4. ~DeleteTaken
        BY <1>7, <3>3, Zenon DEF DeleteTaken
      <3>. DEFINE c == Command("delete", "none")
      <3>5. c.kind = "delete" /\ c.gen = sb.gen /\ c.kind \notin AssignmentCommands /\ c \in Rows
        BY <1>5, <3>2, Zenon DEF AssignmentCommands
      <3>. HIDE DEF c
      <3>6. c \in Rows'
        BY <1>6, <2>2, <3>2, <3>4, <3>5, RowKept, Zenon
      <3>. QED BY <3>6, Zenon DEF c
    <2>. QED BY <2>1, <2>2, Zenon
  <1>8. ASSUME fx'.create = "queued" PROVE Command("create", "none") \in Rows'
    <2>1. fx.create = "queued"
      BY <1>1, <1>8, Zenon DEF SameWs, DeleteQueued, CreateDone, DeleteDone
    <2>2. ws = "creating" /\ Command("create", "none") \in Rows
      BY <1>2, <2>1, Zenon
    <2>3. recordLocalWorkspaceResult => fx'.create # "queued"
      <3>1. fx \in FxTypes
        BY <1>0, Zenon DEF Types, FxTypes
      <3>2. recordLocalWorkspaceResult =>
              fx' = [fx EXCEPT !.create = "succeeded"] \/ fx' = [fx EXCEPT !.create = "runner_failed"]
        BY <2>1, Zenon DEF recordLocalWorkspaceResult
      <3>3. \A d : fx' = [fx EXCEPT !.create = d] => fx'.create = d
        BY <3>1, Zenon DEF FxTypes
      <3>. QED BY <3>2, <3>3, Zenon
    <2>. DEFINE c == Command("create", "none")
    <2>4. c.kind = "create" /\ c.gen = sb.gen /\ c.kind \notin AssignmentCommands /\ c \in Rows
      BY <1>5, <2>2, Zenon DEF AssignmentCommands
    <2>. HIDE DEF c
    <2>5. c \in Rows'
      BY <1>6, <1>8, <2>2, <2>3, <2>4, RowKept, Zenon
    <2>. QED BY <2>5, Zenon DEF c
  <1>. QED BY <1>4, <1>7, <1>8, Zenon

(* Effects wait only for live commands, after every step.                  *)
LEMMA EffectKept ==
  ASSUME LifecycleInv, KeptStep
  PROVE  EffectInv'
  (* A stop that holds the slot has an effect.                               *)
  <1>StopHeld. ASSUME LifecycleInv, KeptStep, slot'.kind = "stop"
               PROVE  stop'[slot'.effect].state # "none"
    <2>. USE <1>StopHeld
    <2>0. Types /\ InstanceInv /\ WorkspaceInv /\ EffectInv /\ [Next]_vars
      BY Zenon DEF LifecycleInv, KeptStep
    <2>1. SlotChange /\ ~\E w \in Workers : ApplyFinishStop(w) \/ scheduleOnce(w)
      BY <2>0, SlotDelta, Zenon DEF KeptStep
    <2>2. CASE SlotSame
      <3>1. slot.kind = "stop" /\ slot'.effect = slot.effect
        BY <2>2, Zenon DEF SlotSame
      <3>2. slot.effect \in StopEffects /\ stop[slot.effect].state # "none"
        BY <2>0, <3>1, Zenon DEF InstanceInv, EffectInv
      <3>. DEFINE e == slot.effect
      <3>. HIDE DEF e
      <3>3. e \in StopEffects /\ stop[e].state # "none"
        BY <3>2, Zenon DEF e
      <3>4. StopChange(e)
        BY <2>0, <3>3, StopDelta, Zenon
      <3>5. stop'[e].state # "none"
        BY <2>1, <3>3, <3>4, Zenon DEF StopChange, StopSame
      <3>. QED BY <3>1, <3>5, Zenon DEF e
    <2>3. CASE slot'.effect = StopEffect /\ \E w \in Workers : StopStep(w)
      BY <2>3, StopOutcome, Zenon
    <2>4. CASE slot'.effect = "loss" /\ slot.kind \in {"none", "start"} /\ AdvanceFencedGeneration
      <3>1. stop' = [stop EXCEPT !["loss"] =
                       [state |-> "queued", cmd |-> "advance", left |-> StopRetryLimit]]
        BY <2>4, RowsAdvance, Zenon
      <3>2. "loss" \in StopEffects /\ stop \in StopTypes
        BY <2>0, Zenon DEF Types, StopEffects
      <3>3. \A d \in StopEffects : \A x : stop' = [stop EXCEPT ![d] = x] => stop'[d] = x
        BY <3>2, Zenon DEF StopTypes
      <3>4. stop'["loss"] = [state |-> "queued", cmd |-> "advance", left |-> StopRetryLimit]
        BY <3>1, <3>2, <3>3, Zenon
      <3>5. stop'["loss"].state = "queued"
        BY ONLY <3>4
      <3>. QED BY <2>4, <3>5, Zenon
    <2>. QED BY <2>1, <2>2, <2>3, <2>4, Zenon DEF SlotChange, Released0
  <1>0. Types /\ EffectInv /\ [Next]_vars /\ sb'.gen = sb.gen
    BY Zenon DEF LifecycleInv, KeptStep, SbKept
  <1>1. \A k, e : Command(k, e)' = Command(k, e)
    BY <1>0, Zenon DEF Command
  <1>2. ASSUME NEW m \in Evidence', m.kind = "fence" PROVE m.cmd \in FenceKinds
    <2>1. m \in Evidence \/ Source(m)
      BY <1>0, LinkDelta, Zenon
    <2>2. Source(m) => m.cmd \in FenceKinds
      BY <1>2, Zenon DEF Source, Answers
    <2>. QED BY <1>0, <1>2, <2>1, <2>2, Zenon DEF EffectInv
  <1>3. ASSUME NEW e \in StopEffects, stop'[e].state = "queued"
        PROVE  /\ slot'.kind = "stop" /\ slot'.effect = e /\ asg'.state # "fenced"
               /\ stop'[e].cmd = "advance" => Command("advance", e)' \in Rows'
               /\ stop'[e].cmd # "advance" => Command("lifecycle_fence", "stop")' \in Rows'
    BY <1>1, <1>3, QueuedKept, Zenon DEF Fence
  <1>4. /\ fx'.delete # "none" => ws' = IF fx'.delete = "succeeded" THEN "deleted" ELSE "deleting"
        /\ fx'.delete = "queued" => Command("delete", "none")' \in Rows'
        /\ fx'.create = "queued" => Command("create", "none")' \in Rows'
    BY <1>1, CreateAndDelete, Zenon
  <1>5. slot'.kind = "stop" => stop'[slot'.effect].state # "none"
    BY <1>StopHeld, Zenon
  <1>. QED BY <1>2, <1>3, <1>4, <1>5, Zenon DEF EffectInv

(***************************************************************************)
(* What a step does to the desired and observed state, the claim and the   *)
(* workers' plans.                                                         *)
(***************************************************************************)
OwnerKept == sb'.owner \in {sb.owner, Nobody}
Calm == sb'.state = sb.state /\ sb'.desired = sb.desired /\ sb'.issued = sb.issued
Moved(s) == sb'.state = s /\ sb'.desired = sb.desired /\ sb'.issued = sb.issued
Parked == /\ sb.desired = "running" /\ sb'.desired = "stopped" /\ sb'.issued = sb.issued
          /\ sb'.state \in {sb.state, "draining"}
Asks == /\ Intent /\ sb.desired # "deleted" /\ sb.state # "deleted" /\ sb'.state = sb.state
        /\ sb'.desired \in Desired /\ sb'.issued = sb.issued + 1
Transition ==
  \/ Calm \/ Parked \/ Asks
  \/ \E s \in States : Moved(s) /\ s \notin {"ready", "deleted"}
  \/ Moved("ready") /\ sb.desired = "running"
  \/ Moved("deleted") /\ sb.desired = "deleted" /\ ws' = "deleted"

(* How each form of writing the sandboxes row moves state and claim.       *)
LEMMA RowFields ==
  ASSUME sb \in SbTypes, NEW b, NEW s, NEW d, NEW c, NEW n
  PROVE  /\ sb' = sb \/ sb' = Released(b) \/ sb' = [sb EXCEPT !.due = b] => Calm /\ OwnerKept
         /\ sb' = [Released(b) EXCEPT !.state = s] => Moved(s) /\ OwnerKept
         /\ sb' = [Released(b) EXCEPT !.state = s, !.class = c] => Moved(s) /\ OwnerKept
         /\ sb' = [Released(b) EXCEPT !.state = s, !.inst = c] => Moved(s) /\ OwnerKept
         /\ sb' = [Released(b) EXCEPT !.state = s, !.desired = d] =>
              sb'.state = s /\ sb'.desired = d /\ sb'.issued = sb.issued /\ OwnerKept
         /\ sb' = [Released(b) EXCEPT !.desired = d] =>
              sb'.state = sb.state /\ sb'.desired = d /\ sb'.issued = sb.issued /\ OwnerKept
         /\ sb' = [sb EXCEPT !.desired = d, !.due = b, !.class = c, !.issued = n] =>
              sb'.state = sb.state /\ sb'.desired = d /\ sb'.issued = n /\ OwnerKept
         /\ sb' = [sb EXCEPT !.owner = d] => Calm /\ sb'.owner = d
  <1>. DEFINE r == Released(b)
  <1>1. /\ DOMAIN r = DOMAIN sb /\ r.owner = Nobody /\ r.state = sb.state /\ r.desired = sb.desired
        /\ r.issued = sb.issued
    BY Zenon DEF Released, SbTypes
  <1>2. {"desired", "state", "owner", "issued", "class", "inst", "due"} \subseteq DOMAIN sb
    BY Zenon DEF SbTypes
  <1>3. sb' = sb => Calm /\ OwnerKept
    BY Zenon DEF Calm, OwnerKept
  <1>4. sb' = [sb EXCEPT !.due = b] => Calm /\ OwnerKept
    BY <1>2, Zenon DEF Calm, OwnerKept
  <1>5. sb' = [sb EXCEPT !.owner = d] => Calm /\ sb'.owner = d
    BY <1>2, Zenon DEF Calm
  <1>6. sb' = [sb EXCEPT !.desired = d, !.due = b, !.class = c, !.issued = n] =>
          sb'.state = sb.state /\ sb'.desired = d /\ sb'.issued = n /\ OwnerKept
    BY <1>2, Zenon DEF OwnerKept
  <1>. HIDE DEF r
  <1>7. sb' = r => Calm /\ OwnerKept
    BY <1>1, Zenon DEF Calm, OwnerKept
  <1>8. sb' = [r EXCEPT !.state = s] => Moved(s) /\ OwnerKept
    BY <1>1, <1>2, Zenon DEF Moved, OwnerKept
  <1>9. sb' = [r EXCEPT !.state = s, !.class = c] => Moved(s) /\ OwnerKept
    BY <1>1, <1>2, Zenon DEF Moved, OwnerKept
  <1>10. sb' = [r EXCEPT !.state = s, !.inst = c] => Moved(s) /\ OwnerKept
    BY <1>1, <1>2, Zenon DEF Moved, OwnerKept
  <1>11. sb' = [r EXCEPT !.state = s, !.desired = d] =>
           sb'.state = s /\ sb'.desired = d /\ sb'.issued = sb.issued /\ OwnerKept
    BY <1>1, <1>2, Zenon DEF OwnerKept
  <1>12. sb' = [r EXCEPT !.desired = d] =>
           sb'.state = sb.state /\ sb'.desired = d /\ sb'.issued = sb.issued /\ OwnerKept
    BY <1>1, <1>2, Zenon DEF OwnerKept
  <1>. QED BY <1>3, <1>4, <1>5, <1>6, <1>7, <1>8, <1>9, <1>10, <1>11, <1>12, Zenon DEF r

WorkIdle == \E w \in Workers : work' = [work EXCEPT ![w] = Idle]
Claimed(w) == \E sessions, expired \in BOOLEAN : ClaimLifecycle(w, sessions, expired)
Outcome ==
  /\ Transition
  /\ \/ Dismissed /\ OwnerKept /\ work' \in [Workers -> WorkTypes]
     \/ (WorkIdle \/ work' = work) /\ Calm /\ OwnerKept

(* Ending a claim is one of the outcomes.                                  *)
LEMMA Finished ==
  ASSUME Types, Transition, OwnerKept
  PROVE  /\ \A w \in Workers : Finish(w, TRUE) => Outcome
         /\ \A w \in Workers : Finish(w, FALSE) /\ Calm => Outcome
         /\ AdvanceRevision => Outcome
         /\ work' = work /\ Calm => Outcome
         /\ WorkIdle /\ Calm => Outcome
  <1>0. work \in [Workers -> WorkTypes]
    BY Zenon DEF Types
  <1>1. \A w \in Workers : Finish(w, FALSE) => WorkIdle
    BY Zenon DEF Finish, WorkIdle
  <1>2. \A w \in Workers : Finish(w, TRUE) => Dismissed /\ work' \in [Workers -> WorkTypes]
    BY <1>0, Dismissal, Zenon
  <1>3. AdvanceRevision => Dismissed /\ work' \in [Workers -> WorkTypes]
    BY <1>0, Dismissal, Zenon
  <1>. QED BY <1>1, <1>2, <1>3, Zenon DEF Outcome

(* Moving to a state other than ready and deleted is a transition.         *)
LEMMA Becomes ==
  ASSUME NEW s \in States, s \notin {"ready", "deleted"}
  PROVE  Moved(s) => Transition
  BY Zenon DEF Transition

(* Steps that touch neither the row nor a worker.                          *)
LEMMA Aside ==
  ASSUME \/ UNCHANGED vars \/ MarkExpiredRunners \/ FenceStep \/ ApplyRetry \/ OpenConnection \/ ClaimCommands
         \/ Loss \/ RunnerRestart \/ GuestExit \/ Runner
         \/ recordFenceStopped \/ recordFenceFailed \/ acknowledgeRedundantFenceResult
         \/ reconcileRunnerActiveAssignments
  PROVE  sb' = sb /\ work' = work
  <1>1. UNCHANGED vars \/ MarkExpiredRunners \/ FenceStep \/ ApplyRetry \/ OpenConnection \/ ClaimCommands
        => sb' = sb /\ work' = work
    BY Zenon DEF vars, MarkExpiredRunners, FenceStep, ApplyFence, ApplyRetry, OpenConnection, ClaimCommands
  <1>2. Loss \/ RunnerRestart \/ GuestExit => sb' = sb /\ work' = work
    BY Zenon DEF Loss, CloseConnection, RefuseStep, RefuseAssignmentEvent, RefuseFenceEvent,
       RefuseLocalWorkspaceResult, RefuseInstanceTerminal, Refuse, RunnerRestart, GuestExit, database
  <1>3. Runner => sb' = sb /\ work' = work
    BY Zenon DEF Runner, handleAssignment, StartAssignment, handleFence, handleAdvance, handleCreate,
       handleDelete, sendHeartbeat, sendInstanceTerminal, OnlyConnection, database
  <1>4. recordFenceStopped \/ recordFenceFailed \/ acknowledgeRedundantFenceResult
        \/ reconcileRunnerActiveAssignments => sb' = sb /\ work' = work
    BY Zenon DEF recordFenceStopped, recordFenceFailed, acknowledgeRedundantFenceResult,
       reconcileRunnerActiveAssignments
  <1>. QED BY <1>1, <1>2, <1>3, <1>4, Zenon

(* Every step is an outcome, a claim or the loading of a plan.             *)
LEMMA WorkStep ==
  ASSUME LifecycleInv, KeptStep
  PROVE  Outcome \/ \E w \in Workers : Claimed(w) \/ loadStartPlan(w)
  (* Outcomes of the steps under a claim.                                    *)
  <1>WorkClaims. ASSUME Types, DeletedInv, NEW w \in Workers
                 PROVE  /\ RevisionConflict(w) \/ WorkerCrash(w) \/ RefuseSchedule(w) => Outcome
                        /\ ApplyWait(w) \/ DeferEffect(w) \/ deferUnavailableHomeRunnerStart(w) => Outcome
                        /\ ReplaySchedule(w) => Outcome
                        /\ ApplyTransition(w) => Outcome
                        /\ ApplyFail(w) => Outcome
    <2>. USE <1>WorkClaims
    <2>0. sb \in SbTypes
      BY Zenon DEF Types
    <2>1. RevisionConflict(w) \/ WorkerCrash(w) \/ RefuseSchedule(w) => sb' = sb /\ WorkIdle
      BY Zenon DEF RevisionConflict, WorkerCrash, RefuseSchedule, database, WorkIdle
    <2>2. sb' = sb \/ (\E b : sb' = Released(b)) => Calm /\ OwnerKept /\ Transition
      BY <2>0, RowFields, Zenon DEF Transition
    <2>3. ApplyWait(w) \/ DeferEffect(w) \/ deferUnavailableHomeRunnerStart(w) =>
            (\E b : sb' = Released(b)) /\ Finish(w, FALSE)
      BY Zenon DEF ApplyWait, DeferEffect, deferUnavailableHomeRunnerStart
    <2>4. ReplaySchedule(w) => \/ sb' = Released(TRUE) /\ Finish(w, TRUE)
                               \/ sb' = sb /\ Finish(w, FALSE)
      <3>1. CASE sb.owner = w
        <4>1. (sb.owner = w) = TRUE
          BY <3>1
        <4>. QED BY <3>1, <4>1, Zenon DEF ReplaySchedule
      <3>2. CASE sb.owner # w
        <4>1. (sb.owner = w) = FALSE
          BY <3>2
        <4>. QED BY <3>2, <4>1, Zenon DEF ReplaySchedule
      <3>. QED BY <3>1, <3>2, Zenon
    <2>5. ASSUME ApplyTransition(w) PROVE Transition /\ OwnerKept /\ Finish(w, TRUE)
      <3>. DEFINE s == IF work[w].act = "mark_ready" THEN "ready" ELSE "draining"
                  d == IF work[w].act = "expire" THEN "stopped" ELSE sb.desired
      <3>1. /\ work[w].fresh /\ Finish(w, TRUE) /\ work[w].act \in {"drain", "expire", "mark_ready"}
            /\ sb' = [Released(TRUE) EXCEPT !.state = s, !.desired = IF work[w].act = "expire" THEN "stopped" ELSE @]
        BY <2>5, Zenon DEF ApplyTransition, Holds
      <3>2. Released(TRUE).desired = sb.desired /\ "desired" \in DOMAIN Released(TRUE)
        BY <2>0, Zenon DEF Released, SbTypes
      <3>3. sb' = [Released(TRUE) EXCEPT !.state = s, !.desired = d]
        BY <3>1, <3>2, Zenon
      <3>4. work[w].act \in {"expire", "mark_ready"} => sb.desired = "running"
        BY <3>1, Zenon DEF DeletedInv
      <3>5. s \in States /\ (work[w].act # "mark_ready" => s = "draining") /\ (work[w].act = "mark_ready" => s = "ready")
        BY StateNames
      <3>6. (work[w].act # "expire" => d = sb.desired) /\ (work[w].act = "expire" => d = "stopped")
        BY Zenon
      <3>. HIDE DEF s, d
      <3>7. sb'.state = s /\ sb'.desired = d /\ sb'.issued = sb.issued /\ OwnerKept
        BY <2>0, <3>3, RowFields, Zenon
      <3>8. CASE work[w].act = "mark_ready"
        BY <3>1, <3>4, <3>5, <3>6, <3>7, <3>8, Zenon DEF Transition, Moved
      <3>9. CASE work[w].act = "expire"
        BY <3>1, <3>4, <3>5, <3>6, <3>7, <3>9, Zenon DEF Transition, Parked
      <3>10. CASE work[w].act = "drain"
        BY <3>1, <3>5, <3>6, <3>7, <3>10, Zenon DEF Transition, Moved
      <3>. QED BY <3>1, <3>8, <3>9, <3>10, <3>7, Zenon
    <2>6. ASSUME ApplyFail(w) PROVE Transition /\ OwnerKept /\ Finish(w, TRUE)
      <3>1. sb' = [Released(FALSE) EXCEPT !.state = "failed", !.class = TRUE] /\ Finish(w, TRUE)
        BY <2>6, Zenon DEF ApplyFail
      <3>2. Moved("failed") /\ OwnerKept
        BY <2>0, <3>1, RowFields, Zenon
      <3>. QED BY <3>1, <3>2, StateNames, Becomes, Zenon
    <2>. QED BY <2>1, <2>2, <2>3, <2>4, <2>5, <2>6, Finished, Zenon
  (* Outcomes of the stop, delete and start-ending steps.                    *)
  <1>WorkEffects. ASSUME Types, NEW w \in Workers
                  PROVE  /\ StopStep(w) => Outcome
                         /\ DeleteStep(w) => Outcome
                         /\ EndStart(w) => Outcome
    <2>. USE <1>WorkEffects
    <2>0. sb \in SbTypes
      BY Zenon DEF Types
    <2>1. \A s \in {"stopping", "deleting", "failed"} : Moved(s) => Transition
      BY StateNames, Becomes, Zenon
    <2>2. \A b : sb' = Released(b) => Calm /\ OwnerKept /\ Transition
      BY <2>0, RowFields, Zenon DEF Transition
    <2>3. \A b, s : sb' = [Released(b) EXCEPT !.state = s] => Moved(s) /\ OwnerKept
      BY <2>0, RowFields, Zenon
    <2>4. ASSUME queueStop(w) PROVE Outcome
      <3>1. sb' = [Released(TRUE) EXCEPT !.state = "stopping"] /\ Finish(w, TRUE)
        BY <2>4, Zenon DEF queueStop
      <3>. QED BY <2>1, <2>3, <3>1, Finished, Zenon
    <2>5. ASSUME NEW p \in BOOLEAN, resumeStopEffect(w, p) PROVE Outcome
      <3>1. /\ sb' = [Released(TRUE) EXCEPT !.state = Stopping]
            /\ Finish(w, TRUE) \/ Finish(w, AcquiresStop \/ sb.state = "failed")
        BY <2>5, Zenon DEF resumeStopEffect
      <3>2. Moved(Stopping) /\ OwnerKept
        BY <2>3, <3>1, Zenon
      <3>3. CASE sb.state = "failed"
        <4>1. (AcquiresStop \/ sb.state = "failed") = TRUE
          BY <3>3
        <4>2. Moved("stopping")
          BY <3>2, <3>3, Zenon DEF Stopping
        <4>. QED BY <2>1, <3>1, <3>2, <4>1, <4>2, Finished, Zenon
      <3>4. CASE sb.state # "failed"
        <4>1. Calm /\ Transition
          BY <3>2, <3>4, Zenon DEF Stopping, Moved, Calm, Transition
        <4>2. (AcquiresStop \/ sb.state = "failed") = TRUE \/ (AcquiresStop \/ sb.state = "failed") = FALSE
          OBVIOUS
        <4>. QED BY <3>1, <3>2, <4>1, <4>2, Finished, Zenon
      <3>. QED BY <3>3, <3>4, Zenon
    <2>6. ASSUME queueWorkspaceDelete(w) PROVE Outcome
      <3>1. sb' = [Released(TRUE) EXCEPT !.state = "deleting"] /\ Finish(w, TRUE)
        BY <2>6, Zenon DEF queueWorkspaceDelete
      <3>. QED BY <2>1, <2>3, <3>1, Finished, Zenon
    <2>7. ASSUME NEW p \in BOOLEAN, resumeWorkspaceDeleteEffect(w, p) PROVE Outcome
      <3>1. sb' = Released(TRUE) /\ (Finish(w, TRUE) \/ Finish(w, FALSE))
        BY <2>7, Zenon DEF resumeWorkspaceDeleteEffect
      <3>. QED BY <2>2, <3>1, Finished, Zenon
    <2>8. ASSUME failStartPreparation(w) PROVE Outcome
      <3>1. sb' = [Released(FALSE) EXCEPT !.state = "failed", !.class = TRUE] /\ Finish(w, TRUE)
        BY <2>8, Zenon DEF failStartPreparation
      <3>2. Moved("failed") /\ OwnerKept
        BY <2>0, <3>1, RowFields, Zenon
      <3>. QED BY <2>1, <3>1, <3>2, Finished, Zenon
    <2>9. ASSUME expireStartCapacityWait(w) PROVE Outcome
      <3>1. sb' = [Released(FALSE) EXCEPT !.desired = "stopped"] /\ Finish(w, TRUE) /\ sb.desired = "running"
        BY <2>9, Zenon DEF expireStartCapacityWait
      <3>2. sb'.state = sb.state /\ sb'.desired = "stopped" /\ sb'.issued = sb.issued /\ OwnerKept
        BY <2>0, <3>1, RowFields, Zenon
      <3>3. Transition
        BY <3>1, <3>2, Zenon DEF Transition, Parked
      <3>. QED BY <3>1, <3>2, <3>3, Finished, Zenon
    <2>. QED BY <2>4, <2>5, <2>6, <2>7, <2>8, <2>9, Zenon DEF StopStep, DeleteStep, EndStart
  (* Outcomes of the reconciler's steps and of intents.                      *)
  <1>WorkRecords. ASSUME Types
                  PROVE  /\ TerminalStep => Outcome
                         /\ AdvanceFencedGeneration => Outcome
                         /\ AssignmentStep => Outcome
                         /\ recordInstanceTerminal => Outcome
                         /\ Intent => Outcome
    <2>. USE <1>WorkRecords
    <2>0. sb \in SbTypes
      BY Zenon DEF Types
    <2>1. \A s \in {"stopping", "stopped", "failed"} : Moved(s) => Transition
      BY StateNames, Becomes, Zenon
    <2>2. \A b : sb' = sb \/ sb' = Released(b) \/ sb' = [sb EXCEPT !.due = b] => Calm /\ OwnerKept /\ Transition
      BY <2>0, RowFields, Zenon DEF Transition
    <2>3. \A b, s, c : sb' = [Released(b) EXCEPT !.state = s, !.class = c] => Moved(s) /\ OwnerKept
      <3>1. ASSUME NEW b, NEW s, NEW c, sb' = [Released(b) EXCEPT !.state = s, !.class = c]
            PROVE  Moved(s) /\ OwnerKept
        BY <2>0, <3>1, RowFields, Zenon
      <3>. QED BY <3>1, Zenon
    <2>4. TerminalStep => Outcome
      <3>1. TerminalStep => sb' = [Released(FALSE) EXCEPT !.state = "failed", !.class = TRUE] /\ AdvanceRevision
        BY Zenon DEF TerminalStep, ApplyFailTerminal
      <3>. QED BY <2>1, <2>3, <3>1, Finished, Zenon
    <2>5. AdvanceFencedGeneration => Outcome
      <3>1. AdvanceFencedGeneration =>
              sb' = [Released(TRUE) EXCEPT !.state = "stopping", !.class = FALSE] /\ AdvanceRevision
        BY Zenon DEF AdvanceFencedGeneration
      <3>. QED BY <2>1, <2>3, <3>1, Finished, Zenon
    <2>6. recordInstanceTerminal => Outcome
      <3>1. recordInstanceTerminal => sb' = [sb EXCEPT !.due = TRUE] /\ AdvanceRevision
        BY Zenon DEF recordInstanceTerminal
      <3>. QED BY <2>2, <3>1, Finished, Zenon
    <2>7. recordAssignmentAck \/ recordAssignmentFailed => Outcome
      <3>1. recordAssignmentAck \/ recordAssignmentFailed =>
              \/ sb' = sb /\ work' = work
              \/ sb' = Released(TRUE) /\ AdvanceRevision
        BY Zenon DEF recordAssignmentAck, recordAssignmentFailed, assignmentFails
      <3>. QED BY <2>2, <3>1, Finished, Zenon
    <2>8. recordAssignmentReady => Outcome
      <3>. DEFINE s == IF Projected THEN "ready" ELSE sb.state
      <3>1. Released(TRUE).state = sb.state /\ "state" \in DOMAIN Released(TRUE)
        BY <2>0, Zenon DEF Released, SbTypes
      <3>2. recordAssignmentReady =>
              \/ sb' = sb /\ work' = work
              \/ /\ sb' = [Released(TRUE) EXCEPT !.state = IF Projected THEN "ready" ELSE @]
                 /\ AdvanceRevision
        BY Zenon DEF recordAssignmentReady
      <3>3. sb' = [Released(TRUE) EXCEPT !.state = IF Projected THEN "ready" ELSE @] => Moved(s) /\ OwnerKept
        <4>1. sb' = [Released(TRUE) EXCEPT !.state = IF Projected THEN "ready" ELSE @] =>
                sb' = [Released(TRUE) EXCEPT !.state = s]
          BY <3>1, Zenon
        <4>. HIDE DEF s
        <4>. QED BY <2>0, <4>1, RowFields, Zenon
      <3>4. Moved(s) => Transition
        BY Zenon DEF Projected, Transition, Moved, Calm
      <3>. QED BY <2>2, <3>2, <3>3, <3>4, Finished, Zenon
    <2>9. Intent => Outcome
      <3>1. ASSUME NEW kind \in {"start", "stop", "delete"}, NEW wait \in BOOLEAN, SetSandboxDesiredState(kind, wait)
            PROVE  Outcome
        <4>. DEFINE d == CASE kind = "start" -> "running" [] kind = "stop" -> "stopped"
                           [] kind = "delete" -> "deleted"
        <4>1. /\ sb' = [sb EXCEPT !.desired = d, !.due = TRUE, !.class = FALSE, !.issued = sb.issued + 1]
              /\ sb.state # "deleted" /\ sb.desired # "deleted" /\ AdvanceRevision
          BY <3>1, Zenon DEF SetSandboxDesiredState
        <4>2. d \in Desired
          BY DEF Desired
        <4>. HIDE DEF d
        <4>3. sb'.state = sb.state /\ sb'.desired = d /\ sb'.issued = sb.issued + 1 /\ OwnerKept
          <5>1. ASSUME NEW b, NEW c, NEW n, sb' = [sb EXCEPT !.desired = d, !.due = b, !.class = c, !.issued = n]
                PROVE  sb'.state = sb.state /\ sb'.desired = d /\ sb'.issued = n /\ OwnerKept
            BY <2>0, <5>1, RowFields, Zenon
          <5>. QED BY <4>1, <5>1, Zenon
        <4>4. Transition
          BY <3>1, <4>1, <4>2, <4>3, Zenon DEF Transition, Asks, Intent
        <4>. QED BY <4>1, <4>3, <4>4, Finished, Zenon
      <3>. QED BY <3>1, Zenon DEF Intent
    <2>. QED BY <2>4, <2>5, <2>6, <2>7, <2>8, <2>9, Zenon DEF AssignmentStep
  (* Outcomes of recorded Workspace results.                                 *)
  <1>WorkResults. ASSUME Types
                  PROVE  /\ recordLocalGenerationAdvanceResult => Outcome
                         /\ recordLocalWorkspaceResult => Outcome
                         /\ recordLocalWorkspaceDeleteResult => Outcome
    <2>. USE <1>WorkResults
    <2>0. sb \in SbTypes
      BY Zenon DEF Types
    <2>1. \A s \in {"stopping", "stopped", "failed"} : Moved(s) => Transition
      BY StateNames, Becomes, Zenon
    <2>2. \A b : sb' = sb \/ sb' = Released(b) => Calm /\ OwnerKept /\ Transition
      BY <2>0, RowFields, Zenon DEF Transition
    <2>3. ASSUME NEW b, NEW s, NEW c, sb' = [Released(b) EXCEPT !.state = s, !.class = c]
          PROVE  Moved(s) /\ OwnerKept
      BY <2>0, <2>3, RowFields, Zenon
    <2>4. ASSUME recordLocalGenerationAdvanceResult PROVE Outcome
      <3>. DEFINE s == IF msg.ok THEN Stopping ELSE sb.state
                  c == sb.class /\ ~msg.ok
      <3>1. /\ Released(TRUE).state = sb.state /\ Released(TRUE).class = sb.class
            /\ "state" \in DOMAIN Released(TRUE) /\ "class" \in DOMAIN Released(TRUE)
        BY <2>0, Zenon DEF Released, SbTypes
      <3>2. \/ sb' = sb /\ work' = work
            \/ /\ AdvanceRevision
               /\ sb' = [Released(TRUE) EXCEPT !.state = IF msg.ok THEN Stopping ELSE @, !.class = @ /\ ~msg.ok]
        BY <2>4, Zenon DEF recordLocalGenerationAdvanceResult
      <3>3. sb' = [Released(TRUE) EXCEPT !.state = IF msg.ok THEN Stopping ELSE @, !.class = @ /\ ~msg.ok]
              => sb' = [Released(TRUE) EXCEPT !.state = s, !.class = c]
        BY <3>1, Zenon
      <3>4. Moved(s) => Transition
        <4>1. s \in {"stopping", sb.state}
          BY Zenon DEF Stopping
        <4>. HIDE DEF s
        <4>2. Moved(sb.state) => Transition
          BY Zenon DEF Moved, Calm, Transition
        <4>. QED BY <2>1, <4>1, <4>2, Zenon
      <3>. HIDE DEF s, c
      <3>5. sb' = [Released(TRUE) EXCEPT !.state = s, !.class = c] => Moved(s) /\ OwnerKept
        BY <2>3, Zenon
      <3>. QED BY <2>2, <3>2, <3>3, <3>4, <3>5, Finished, Zenon
    <2>5. ASSUME recordLocalWorkspaceResult PROVE Outcome
      <3>1. \/ sb' = sb /\ work' = work
            \/ AdvanceRevision /\ \E b : sb' = [Released(b) EXCEPT !.state = "stopped"]
            \/ AdvanceRevision /\ \E b : sb' = [Released(b) EXCEPT !.state = "failed", !.class = TRUE]
        BY <2>5, Zenon DEF recordLocalWorkspaceResult
      <3>2. ASSUME NEW b, sb' = [Released(b) EXCEPT !.state = "stopped"] PROVE Moved("stopped") /\ OwnerKept
        BY <2>0, <3>2, RowFields, Zenon
      <3>3. CASE AdvanceRevision /\ \E b : sb' = [Released(b) EXCEPT !.state = "stopped"]
        BY <2>1, <3>2, <3>3, Finished, Zenon
      <3>4. CASE AdvanceRevision /\ \E b : sb' = [Released(b) EXCEPT !.state = "failed", !.class = TRUE]
        BY <2>1, <2>3, <3>4, Finished, Zenon
      <3>. QED BY <2>2, <3>1, <3>3, <3>4, Finished, Zenon
    <2>6. ASSUME recordLocalWorkspaceDeleteResult PROVE Outcome
      <3>1. \/ sb' = sb /\ work' = work
            \/ /\ AdvanceRevision /\ sb' = [Released(FALSE) EXCEPT !.state = "deleted", !.inst = FALSE]
               /\ ws' = "deleted" /\ sb.desired = "deleted"
        BY <2>6, Zenon DEF recordLocalWorkspaceDeleteResult, DeleteAuthority
      <3>2. sb' = [Released(FALSE) EXCEPT !.state = "deleted", !.inst = FALSE] => Moved("deleted") /\ OwnerKept
        BY <2>0, RowFields, Zenon
      <3>3. ASSUME sb' = [Released(FALSE) EXCEPT !.state = "deleted", !.inst = FALSE],
                   ws' = "deleted", sb.desired = "deleted", AdvanceRevision
            PROVE  Outcome
        <4>1. Transition
          BY <3>2, <3>3, Zenon DEF Transition
        <4>. QED BY <3>2, <3>3, <4>1, Finished, Zenon
      <3>. QED BY <2>2, <3>1, <3>3, Finished, Zenon
    <2>. QED BY <2>4, <2>5, <2>6, Zenon
  <1>0. Types /\ DeletedInv /\ [Next]_vars /\ sb \in SbTypes
    BY Zenon DEF LifecycleInv, KeptStep, Types
  <1>1. sb' = sb /\ work' = work => Outcome
    <2>1. sb' = sb => Calm /\ OwnerKept /\ Transition
      BY <1>0, Zenon DEF Calm, OwnerKept, Transition
    <2>. QED BY <1>0, <2>1, Finished, Zenon
  <1>2. ASSUME NEW w \in Workers, Worker(w) \/ WorkerCrash(w) \/ EndStart(w)
        PROVE  Outcome \/ Claimed(w) \/ loadStartPlan(w)
    <2>1. ~ApplyFinishStop(w) /\ ~scheduleOnce(w)
      BY Zenon DEF KeptStep
    <2>. QED BY <1>0, <1>2, <2>1, <1>WorkClaims, <1>WorkEffects, Zenon DEF Worker, StopStep, DeleteStep, Claimed
  <1>3. Reconciler => Outcome
    BY <1>0, <1>1, Aside, <1>WorkRecords, Zenon DEF Reconciler, FenceStep, TerminalStep
  <1>4. RecordEvent => Outcome
    BY <1>0, <1>1, Aside, <1>WorkRecords, <1>WorkResults, Zenon DEF RecordEvent, AssignmentStep, Loss, RefuseStep
  <1>5. Environment => Outcome \/ \E w \in Workers : WorkerCrash(w) \/ EndStart(w)
    BY <1>0, <1>1, Aside, <1>WorkRecords, Zenon DEF Environment, EndStart, Loss, Intent
  <1>6. UNCHANGED vars \/ Runner \/ OpenConnection \/ ClaimCommands => Outcome
    BY <1>1, Aside, Zenon
  <1>. QED BY <1>0, <1>2, <1>3, <1>4, <1>5, <1>6, Zenon DEF Next

=============================================================================
