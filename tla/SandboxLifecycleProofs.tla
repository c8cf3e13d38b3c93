----------------------- MODULE SandboxLifecycleProofs -----------------------
(***************************************************************************)
(* Proofs about the lifecycle of one Sandbox, for any number of workers,   *)
(* generations, Operations, faults and retries: one writer per generation, *)
(* the committed generation never ahead of the Runner's manifest, an       *)
(* Instance retired only by a receipt, effects that wait only for live     *)
(* commands, deletion that dominates, and no wakeup lost.                  *)
(***************************************************************************)
EXTENDS SandboxLifecycleInvariant

(***************************************************************************)
(* Plans, claims and deletion.                                             *)
(***************************************************************************)

LEMMA IdleTypes ==
  Idle \in WorkTypes /\ ~Idle.fresh /\ Idle.gen = 0 /\ Idle.pc = "idle" /\ Idle.op = 0 /\ Idle.wait = FALSE
  <1>1. 0 \in 0 .. MaxGeneration /\ 0 \in 0 .. MaxOperations
    BY Bounds
  <1>2. Idle \in WorkTypes
    BY <1>1, Zenon DEF Idle, WorkTypes, Actions
  <1>. QED BY <1>2, Zenon DEF Idle

(* What claiming decides and writes.                                       *)
LEMMA ClaimEffects ==
  ASSUME Types, NEW w \in Workers, Claimed(w)
  PROVE  /\ sb.state # "deleted" /\ Calm /\ sb'.owner = w
         /\ work' \in [Workers -> WorkTypes]
         /\ \A v \in Workers \ {w} : work'[v] = work[v]
         /\ work'[w].pc = "claimed" /\ work'[w].gen = 0
         /\ work'[w].act = "start_instance" => sb.gen < MaxGeneration
         /\ work'[w].act \in {"expire", "mark_ready"} => sb.desired = "running"
  (* What the decision can be; only a Sandbox meant to run expires or is     *)
  (* marked ready.                                                           *)
  <1>Decided. ASSUME NEW v, v.desired \in Desired
              PROVE  /\ Decide(v) \in Actions
                     /\ Decide(v) \in {"expire", "mark_ready"} => v.desired = "running"
    <2>. USE <1>Decided
    <2>1. decideStopping(v) \in Actions \ {"expire", "mark_ready"}
      BY DEF decideStopping, Actions
    <2>2. decideRunning(v) \in Actions
      BY DEF decideRunning, Actions
    <2>3. decideStopped(v) \in Actions \ {"expire", "mark_ready"}
      BY DEF decideStopped, Actions
    <2>4. decideDeleted(v) \in Actions \ {"expire", "mark_ready"}
      BY DEF decideDeleted, Actions
    <2>5. {"wait", "stop_instance"} \subseteq Actions \ {"expire", "mark_ready"}
      BY DEF Actions
    <2>6. \/ Decide(v) \in {"wait", "stop_instance"} \/ Decide(v) = decideStopping(v)
          \/ Decide(v) = decideDeleted(v) /\ v.desired = "deleted"
          \/ Decide(v) = decideStopped(v) /\ v.desired = "stopped"
          \/ Decide(v) = decideRunning(v) /\ v.desired = "running"
      BY DEF Decide, Desired
    <2>. QED BY <2>1, <2>2, <2>3, <2>4, <2>5, <2>6, Zenon
  <1>0. sb \in SbTypes /\ work \in [Workers -> WorkTypes]
    BY Zenon DEF Types
  <1>1. PICK x \in BOOLEAN, y \in BOOLEAN : ClaimLifecycle(w, x, y)
    BY Zenon DEF Claimed
  <1>. DEFINE v == View(x, y)
              a == Decide(v)
              n == [Idle EXCEPT !.pc = "claimed", !.act = a, !.fresh = TRUE]
  <1>2. v.desired = sb.desired
    BY DEF View
  <1>3. sb.desired \in Desired
    BY <1>0, Zenon DEF SbTypes
  <1>4. /\ sb.state # "deleted" /\ (a = "start_instance" => sb.gen < MaxGeneration)
        /\ sb' = [sb EXCEPT !.owner = w] /\ work' = [work EXCEPT ![w] = n]
    BY <1>1, Zenon DEF ClaimLifecycle
  <1>. HIDE DEF v
  <1>5. a \in Actions /\ (a \in {"expire", "mark_ready"} => sb.desired = "running")
    BY <1>2, <1>3, <1>Decided, Zenon
  <1>. HIDE DEF a
  <1>6. n \in WorkTypes /\ n.pc = "claimed" /\ n.gen = 0 /\ n.act = a
    BY <1>5, IdleTypes, Zenon DEF WorkTypes
  <1>. HIDE DEF n
  <1>7. /\ work' \in [Workers -> WorkTypes] /\ work'[w] = n
        /\ \A u \in Workers \ {w} : work'[u] = work[u]
    BY <1>0, <1>4, <1>6, Zenon
  <1>8. Calm /\ sb'.owner = w
    BY <1>0, <1>4, RowFields, Zenon
  <1>. QED BY <1>4, <1>5, <1>6, <1>7, <1>8, Zenon

(* What loading a start plan writes.                                       *)
LEMMA PlanEffects ==
  ASSUME Types, NEW w \in Workers, loadStartPlan(w)
  PROVE  /\ sb' = sb /\ sb.owner = w /\ work[w].pc = "claimed" /\ work[w].act = "start_instance"
         /\ work' \in [Workers -> WorkTypes]
         /\ \A v \in Workers \ {w} : work'[v] = work[v]
         /\ work'[w].pc = "planned" /\ work'[w].gen = sb.gen
         /\ work'[w].act = work[w].act /\ work'[w].fresh = work[w].fresh
  <1>0. sb.gen \in 0 .. MaxGeneration /\ slot.op \in 0 .. MaxOperations /\ work \in [Workers -> WorkTypes]
    <2>1. sb.gen \in Generations /\ slot.op \in 0 .. MaxOperations /\ work \in [Workers -> WorkTypes]
      BY Zenon DEF Types, SbTypes, SlotTypes
    <2>. QED BY <2>1, Bounds DEF Generations
  <1>. DEFINE b == \E o \in ops : o.n = slot.op /\ o.wait
              n == [work[w] EXCEPT !.pc = "planned", !.gen = sb.gen, !.op = slot.op, !.wait = b]
  <1>1. /\ sb' = sb /\ sb.owner = w /\ work[w].pc = "claimed" /\ work[w].act = "start_instance"
        /\ work' = [work EXCEPT ![w] = [@ EXCEPT !.pc = "planned", !.gen = sb.gen, !.op = slot.op, !.wait = b]]
    BY Zenon DEF loadStartPlan, database
  <1>2. work' = [work EXCEPT ![w] = n]
    BY <1>0, <1>1, Zenon
  <1>3. b \in BOOLEAN
    OBVIOUS
  <1>. HIDE DEF b
  <1>4. n \in WorkTypes /\ n.pc = "planned" /\ n.gen = sb.gen /\ n.act = work[w].act /\ n.fresh = work[w].fresh
    BY <1>0, <1>3, Zenon DEF WorkTypes
  <1>. HIDE DEF n
  <1>5. /\ work' \in [Workers -> WorkTypes] /\ work'[w] = n
        /\ \A u \in Workers \ {w} : work'[u] = work[u]
    BY <1>0, <1>2, <1>4, Zenon
  <1>. QED BY <1>1, <1>4, <1>5, Zenon

(* Ending a claim changes one worker.                                      *)
LEMMA IdleEffects ==
  ASSUME Types, WorkIdle \/ work' = work
  PROVE  /\ work' \in [Workers -> WorkTypes]
         /\ \A v \in Workers : work'[v] = work[v] \/ work'[v] = Idle
  <1>0. work \in [Workers -> WorkTypes]
    BY Zenon DEF Types
  <1>. QED BY <1>0, IdleTypes, Zenon DEF WorkIdle

(* The workers stay typed.                                                 *)
LEMMA WorkTyped ==
  ASSUME LifecycleInv, KeptStep
  PROVE  work' \in [Workers -> WorkTypes]
  <1>0. Types
    BY Zenon DEF LifecycleInv
  <1>. QED BY <1>0, WorkStep, ClaimEffects, PlanEffects, IdleEffects, Zenon DEF Outcome

(* A plan is never of a later generation and never past the bound.         *)
LEMMA PlanKept ==
  ASSUME LifecycleInv, KeptStep
  PROVE  PlanInv'
  <1>0. Types /\ PlanInv /\ sb'.gen = sb.gen /\ Nobody \notin Workers
    BY Bounds, Zenon DEF LifecycleInv, KeptStep, SbKept
  <1>1. sb.gen \in Nat /\ sb.gen <= sb.gen /\ 0 <= sb.gen
    <2>1. sb.gen \in Generations
      BY <1>0, Zenon DEF Types, SbTypes
    <2>. QED BY <2>1, Bounds DEF Generations
  <1>. SUFFICES ASSUME NEW v \in Workers
                PROVE  /\ work'[v].pc = "claimed" /\ work'[v].act = "start_instance" /\ sb'.owner = v
                            => sb.gen < MaxGeneration
                       /\ work'[v].pc = "planned" /\ work'[v].gen = sb.gen => sb.gen < MaxGeneration
                       /\ work'[v].gen <= sb.gen
    BY <1>0, Zenon DEF PlanInv
  <1>2. /\ work[v].pc = "claimed" /\ work[v].act = "start_instance" /\ sb.owner = v => sb.gen < MaxGeneration
        /\ work[v].pc = "planned" /\ work[v].gen = sb.gen => sb.gen < MaxGeneration
        /\ work[v].gen <= sb.gen
    BY <1>0, Zenon DEF PlanInv
  <1>3. OwnerKept => (sb'.owner = v => sb.owner = v)
    BY <1>0, Zenon DEF OwnerKept
  <1>4. CASE Dismissed /\ OwnerKept
    <2>1. /\ work'[v].gen \in {0, work[v].gen}
          /\ work'[v].pc = "idle" \/ (work'[v].pc = work[v].pc /\ work'[v].act = work[v].act
                                       /\ work'[v].gen = work[v].gen)
      BY <1>4, Zenon DEF Dismissed
    <2>. QED BY <1>1, <1>2, <1>3, <1>4, <2>1, Zenon
  <1>5. CASE (WorkIdle \/ work' = work) /\ OwnerKept
    <2>1. work'[v] = work[v] \/ work'[v] = Idle
      BY <1>0, <1>5, IdleEffects, Zenon
    <2>2. CASE work'[v] = work[v]
      BY <1>2, <1>3, <1>5, <2>2, Zenon
    <2>3. CASE work'[v] = Idle
      <3>1. work'[v].pc = "idle" /\ work'[v].gen = 0
        BY <2>3, IdleTypes, Zenon
      <3>. QED BY <1>1, <3>1, Zenon
    <2>. QED BY <2>1, <2>2, <2>3, Zenon
  <1>6. ASSUME NEW w \in Workers, Claimed(w)
        PROVE  /\ work'[v].pc = "claimed" /\ work'[v].act = "start_instance" /\ sb'.owner = v
                    => sb.gen < MaxGeneration
               /\ work'[v].pc = "planned" /\ work'[v].gen = sb.gen => sb.gen < MaxGeneration
               /\ work'[v].gen <= sb.gen
    <2>1. CASE v = w
      <3>1. /\ work'[v].pc = "claimed" /\ work'[v].gen = 0
            /\ work'[v].act = "start_instance" => sb.gen < MaxGeneration
        <4>1. /\ work'[w].pc = "claimed" /\ work'[w].gen = 0
              /\ work'[w].act = "start_instance" => sb.gen < MaxGeneration
          BY <1>0, <1>6, ClaimEffects, Zenon
        <4>. QED BY <2>1, <4>1, Zenon
      <3>. QED BY <1>1, <3>1, Zenon
    <2>2. CASE v # w
      <3>1. work'[v] = work[v] /\ sb'.owner = w
        <4>1. (\A u \in Workers \ {w} : work'[u] = work[u]) /\ sb'.owner = w
          BY <1>0, <1>6, ClaimEffects, Zenon
        <4>. QED BY <2>2, <4>1, Zenon
      <3>. QED BY <1>2, <2>2, <3>1, Zenon
    <2>. QED BY <2>1, <2>2, Zenon
  <1>7. ASSUME NEW w \in Workers, loadStartPlan(w)
        PROVE  /\ work'[v].pc = "claimed" /\ work'[v].act = "start_instance" /\ sb'.owner = v
                    => sb.gen < MaxGeneration
               /\ work'[v].pc = "planned" /\ work'[v].gen = sb.gen => sb.gen < MaxGeneration
               /\ work'[v].gen <= sb.gen
    <2>1. CASE v = w
      <3>1. /\ work'[v].pc = "planned" /\ work'[v].gen = sb.gen
            /\ sb.owner = v /\ work[v].pc = "claimed" /\ work[v].act = "start_instance"
        <4>1. /\ work'[w].pc = "planned" /\ work'[w].gen = sb.gen
              /\ sb.owner = w /\ work[w].pc = "claimed" /\ work[w].act = "start_instance"
          BY <1>0, <1>7, PlanEffects, Zenon
        <4>. QED BY <2>1, <4>1, Zenon
      <3>. QED BY <1>1, <1>2, <3>1, Zenon
    <2>2. CASE v # w
      <3>1. work'[v] = work[v] /\ sb' = sb
        <4>1. (\A u \in Workers \ {w} : work'[u] = work[u]) /\ sb' = sb
          BY <1>0, <1>7, PlanEffects, Zenon
        <4>. QED BY <2>2, <4>1, Zenon
      <3>. QED BY <1>2, <3>1, Zenon
    <2>. QED BY <2>1, <2>2, Zenon
  <1>. QED BY <1>4, <1>5, <1>6, <1>7, WorkStep, Zenon DEF Outcome

(* A deleted Sandbox stays deleted, and no claim on it is current.         *)
LEMMA DeletedKept ==
  ASSUME LifecycleInv, KeptStep
  PROVE  DeletedInv'
  <1>0. Types /\ DeletedInv /\ WorkspaceInv /\ [Next]_vars
    BY Zenon DEF LifecycleInv, KeptStep
  <1>1. ws = "deleted" => ws' = "deleted"
    <2>1. fx.create = "queued" => ws = "creating"
      BY <1>0, Zenon DEF WorkspaceInv
    <2>2. EffectInv
      BY Zenon DEF LifecycleInv
    <2>3. fx.delete \in {"queued", "runner_failed"} => ws = "deleting"
      BY <2>2, Zenon DEF EffectInv
    <2>. QED BY <1>0, <2>1, <2>3, WsDelta, Zenon DEF SameWs, DeleteQueued, CreateDone, DeleteDone
  <1>2. sb.state = "deleted" => sb.desired = "deleted" /\ ws = "deleted"
    BY <1>0, Zenon DEF DeletedInv
  <1>3. Calm => (sb'.state = "deleted" => sb'.desired = "deleted" /\ ws' = "deleted")
    BY <1>1, <1>2, Zenon DEF Calm
  <1>4. Transition => (sb'.state = "deleted" => sb'.desired = "deleted" /\ ws' = "deleted")
    BY <1>2, <1>3, Zenon DEF Transition, Parked, Asks, Moved
  <1>5. ASSUME NEW w \in Workers, Claimed(w) \/ loadStartPlan(w) PROVE Calm
    BY <1>0, <1>5, ClaimEffects, PlanEffects, Zenon DEF Calm
  <1>6. sb'.state = "deleted" => sb'.desired = "deleted" /\ ws' = "deleted"
    BY <1>3, <1>4, <1>5, WorkStep, Zenon DEF Outcome
  <1>7. ASSUME NEW v \in Workers, work'[v].fresh
        PROVE  sb'.state # "deleted" /\ (work'[v].act \in {"expire", "mark_ready"} => sb'.desired = "running")
    <2>1. work[v].fresh => /\ sb.state # "deleted"
                           /\ work[v].act \in {"expire", "mark_ready"} => sb.desired = "running"
      BY <1>0, Zenon DEF DeletedInv
    <2>2. ~Dismissed
      BY <1>7, Zenon DEF Dismissed
    <2>3. ASSUME WorkIdle \/ work' = work, Calm PROVE work'[v] = work[v] /\ Calm
      BY <1>0, <1>7, <2>3, IdleEffects, IdleTypes, Zenon
    <2>4. ASSUME work'[v] = work[v], Calm
          PROVE  sb'.state # "deleted" /\ (work'[v].act \in {"expire", "mark_ready"} => sb'.desired = "running")
      BY <1>7, <2>1, <2>4, Zenon DEF Calm
    <2>5. ASSUME NEW w \in Workers, Claimed(w)
          PROVE  sb'.state # "deleted" /\ (work'[v].act \in {"expire", "mark_ready"} => sb'.desired = "running")
      <3>1. CASE v = w
        <4>1. /\ sb.state # "deleted" /\ Calm
              /\ work'[w].act \in {"expire", "mark_ready"} => sb.desired = "running"
          BY <1>0, <2>5, ClaimEffects, Zenon
        <4>. QED BY <3>1, <4>1, Zenon DEF Calm
      <3>2. CASE v # w
        <4>1. (\A u \in Workers \ {w} : work'[u] = work[u]) /\ Calm
          BY <1>0, <2>5, ClaimEffects, Zenon
        <4>. QED BY <2>4, <3>2, <4>1, Zenon
      <3>. QED BY <3>1, <3>2, Zenon
    <2>6. ASSUME NEW w \in Workers, loadStartPlan(w)
          PROVE  sb'.state # "deleted" /\ (work'[v].act \in {"expire", "mark_ready"} => sb'.desired = "running")
      <3>1. CASE v = w
        <4>1. sb' = sb /\ work'[w].act = work[w].act /\ work'[w].fresh = work[w].fresh
          BY <1>0, <2>6, PlanEffects, Zenon
        <4>. QED BY <1>7, <2>1, <3>1, <4>1, Zenon
      <3>2. CASE v # w
        <4>1. (\A u \in Workers \ {w} : work'[u] = work[u]) /\ Calm
          BY <1>0, <1>5, <2>6, PlanEffects, Zenon
        <4>. QED BY <2>4, <3>2, <4>1, Zenon
      <3>. QED BY <3>1, <3>2, Zenon
    <2>. QED BY <2>2, <2>3, <2>4, <2>5, <2>6, WorkStep, Zenon DEF Outcome
  <1>. QED BY <1>6, <1>7, Zenon DEF DeletedInv

(***************************************************************************)
(* Types.                                                                  *)
(***************************************************************************)
Elapses == faults' = faults \/ Fault

(* The fault budget stays typed.                                           *)
LEMMA FaultsTyped ==
  ASSUME Types, [Next]_vars
  PROVE  faults' \in 0 .. MaxFaults
  (* Faults are only spent.                                                  *)
  <1>FaultSteps. ASSUME [Next]_vars
                 PROVE  Elapses
    <2>. USE <1>FaultSteps
    <2>1. \A p : Elapsed(p) => Elapses
      BY Zenon DEF Elapsed, Elapses
    <2>2. ASSUME NEW w \in Workers
          PROVE  /\ Claimed(w) \/ RevisionConflict(w) \/ WorkerCrash(w) \/ ApplyWait(w) => Elapses
                 /\ ApplyTransition(w) \/ ApplyFail(w) \/ ApplyFinishStop(w) \/ DeferEffect(w) => Elapses
                 /\ StopStep(w) \/ DeleteStep(w) => Elapses
                 /\ loadStartPlan(w) \/ scheduleOnce(w) \/ ReplaySchedule(w) \/ RefuseSchedule(w) => Elapses
                 /\ deferUnavailableHomeRunnerStart(w) \/ EndStart(w) => Elapses
      <3>1. Claimed(w) => Elapses
        BY Zenon DEF Elapses, Claimed, ClaimLifecycle
      <3>2. RevisionConflict(w) \/ WorkerCrash(w) \/ ApplyWait(w) => Elapses
        BY Zenon DEF Elapses, RevisionConflict, WorkerCrash, ApplyWait
      <3>3. ApplyTransition(w) \/ ApplyFail(w) \/ ApplyFinishStop(w) \/ DeferEffect(w) => Elapses
        BY Zenon DEF Elapses, ApplyTransition, ApplyFail, ApplyFinishStop, DeferEffect
      <3>4. queueStop(w) \/ queueWorkspaceDelete(w) => Elapses
        BY Zenon DEF Elapses, queueStop, queueWorkspaceDelete
      <3>5. \A p \in BOOLEAN : resumeStopEffect(w, p) \/ resumeWorkspaceDeleteEffect(w, p) => Elapsed(p)
        BY Zenon DEF resumeStopEffect, resumeWorkspaceDeleteEffect
      <3>6. StopStep(w) \/ DeleteStep(w) => Elapses
        BY <2>1, <3>4, <3>5, Zenon DEF StopStep, DeleteStep
      <3>7. loadStartPlan(w) \/ scheduleOnce(w) \/ ReplaySchedule(w) \/ RefuseSchedule(w) => Elapses
        BY Zenon DEF Elapses, loadStartPlan, scheduleOnce, ReplaySchedule, RefuseSchedule
      <3>8. deferUnavailableHomeRunnerStart(w) \/ EndStart(w) => Fault \/ Elapsed(TRUE)
        BY Zenon DEF deferUnavailableHomeRunnerStart, EndStart, failStartPreparation, expireStartCapacityWait
      <3>9. Fault => Elapses
        BY Zenon DEF Elapses
      <3>. QED BY <2>1, <3>1, <3>2, <3>3, <3>6, <3>7, <3>8, <3>9, Zenon
    <2>3. \A w \in Workers : Worker(w) => Elapses
      BY <2>2, Zenon DEF Worker, Claimed, StopStep, DeleteStep
    <2>4. Reconciler => Elapses
      <3>1. MarkExpiredRunners \/ ApplyRetry \/ AdvanceFencedGeneration => Elapses
        BY Zenon DEF Elapses, MarkExpiredRunners, ApplyRetry, AdvanceFencedGeneration
      <3>2. \A late \in BOOLEAN : ApplyFence(late) \/ ApplyFailTerminal(late) => Elapsed(late)
        BY Zenon DEF ApplyFence, ApplyFailTerminal
      <3>. QED BY <2>1, <3>1, <3>2, Zenon DEF Reconciler
    <2>5. Runner => Elapses
      <3>1. handleAssignment \/ StartAssignment \/ handleFence => Elapses
        BY Zenon DEF Elapses, handleAssignment, StartAssignment, handleFence
      <3>2. handleAdvance \/ handleCreate \/ handleDelete => Elapses
        BY Zenon DEF Elapses, handleAdvance, handleCreate, handleDelete
      <3>3. sendHeartbeat \/ sendInstanceTerminal => Elapses
        BY Zenon DEF Elapses, sendHeartbeat, sendInstanceTerminal
      <3>. QED BY <3>1, <3>2, <3>3, Zenon DEF Runner
    <2>6. RecordEvent => faults' = faults
      BY Zenon DEF RecordEvent, recordAssignmentAck, recordAssignmentReady, recordAssignmentFailed,
         RefuseAssignmentEvent, recordFenceStopped, recordFenceFailed, acknowledgeRedundantFenceResult,
         RefuseFenceEvent, recordLocalGenerationAdvanceResult, recordLocalWorkspaceResult,
         recordLocalWorkspaceDeleteResult, RefuseLocalWorkspaceResult, recordInstanceTerminal,
         RefuseInstanceTerminal, reconcileRunnerActiveAssignments, Refuse
    <2>7. UNCHANGED vars \/ OpenConnection \/ ClaimCommands \/ Intent => faults' = faults
      BY Zenon DEF vars, OpenConnection, ClaimCommands, Intent, SetSandboxDesiredState
    <2>8. CloseConnection \/ RunnerRestart \/ GuestExit => Fault
      BY Zenon DEF CloseConnection, RunnerRestart, GuestExit
    <2>9. Environment => Elapses
      BY <2>2, <2>7, <2>8, Zenon DEF Environment, Elapses, Intent, EndStart
    <2>. QED BY <2>3, <2>4, <2>5, <2>6, <2>7, <2>9, Zenon DEF Next, Elapses
  <1>1. faults \in 0 .. MaxFaults
    BY Zenon DEF Types
  <1>. QED BY <1>1, <1>FaultSteps, Bounds DEF Elapses, Fault

LiveTypes == {"none", "starting", "ready", "stopped", "lost"}

(* Which steps write the Instance's liveness and the Operations. *)
LEMMA LiveStep ==
  ASSUME live \in LiveTypes, [Next]_vars
  PROVE  live' \in LiveTypes
  <1>1. ASSUME NEW w \in Workers, Worker(w) \/ WorkerCrash(w) \/ EndStart(w)
        PROVE  live' \in LiveTypes
    <2>1. Claimed(w) \/ RevisionConflict(w) \/ WorkerCrash(w) \/ ApplyWait(w) \/ ApplyTransition(w)
          \/ ApplyFail(w) \/ DeferEffect(w) \/ loadStartPlan(w) \/ ReplaySchedule(w) \/ RefuseSchedule(w)
          => live' = live
      BY Zenon DEF Claimed, ClaimLifecycle, RevisionConflict, WorkerCrash, ApplyWait, ApplyTransition,
         ApplyFail, DeferEffect, loadStartPlan, ReplaySchedule, RefuseSchedule, database
    <2>2. StopStep(w) \/ DeleteStep(w) \/ deferUnavailableHomeRunnerStart(w) \/ EndStart(w) => live' = live
      BY Zenon DEF StopStep, DeleteStep, queueStop, resumeStopEffect, queueWorkspaceDelete,
         resumeWorkspaceDeleteEffect, deferUnavailableHomeRunnerStart, EndStart,
         failStartPreparation, expireStartCapacityWait
    <2>3. ApplyFinishStop(w) \/ scheduleOnce(w) => live' \in LiveTypes
      BY Zenon DEF ApplyFinishStop, scheduleOnce, LiveTypes
    <2>. QED BY <1>1, <2>1, <2>2, <2>3, Zenon DEF Worker, Claimed, StopStep, DeleteStep
  <1>2. MarkExpiredRunners \/ FenceStep \/ ApplyRetry \/ OpenConnection \/ ClaimCommands \/ Intent
        \/ UNCHANGED vars => live' = live
    BY Zenon DEF MarkExpiredRunners, FenceStep, ApplyFence, ApplyRetry, OpenConnection, ClaimCommands,
       Intent, SetSandboxDesiredState, vars
  <1>3. Loss \/ RunnerRestart \/ GuestExit => live' = live
    BY Zenon DEF Loss, CloseConnection, RefuseStep, RefuseAssignmentEvent, RefuseFenceEvent,
       RefuseLocalWorkspaceResult, RefuseInstanceTerminal, Refuse, RunnerRestart, GuestExit, database
  <1>4. Runner => live' = live
    BY Zenon DEF Runner, handleAssignment, StartAssignment, handleFence, handleAdvance, handleCreate,
       handleDelete, sendHeartbeat, sendInstanceTerminal, OnlyConnection, database
  <1>5. TerminalStep \/ AdvanceFencedGeneration => live' \in LiveTypes
    BY Zenon DEF TerminalStep, ApplyFailTerminal, AdvanceFencedGeneration, LiveTypes
  <1>6. AssignmentStep => live' \in LiveTypes
    BY Zenon DEF AssignmentStep, recordAssignmentAck, recordAssignmentReady, recordAssignmentFailed,
       assignmentFails, LiveTypes
  <1>7. recordFenceStopped \/ recordInstanceTerminal => live' \in LiveTypes
    BY Zenon DEF recordFenceStopped, recordInstanceTerminal, LiveTypes
  <1>8. recordFenceFailed \/ acknowledgeRedundantFenceResult \/ WorkspaceResult
        \/ reconcileRunnerActiveAssignments => live' = live
    BY Zenon DEF recordFenceFailed, acknowledgeRedundantFenceResult, WorkspaceResult,
       recordLocalGenerationAdvanceResult, recordLocalWorkspaceResult, recordLocalWorkspaceDeleteResult,
       reconcileRunnerActiveAssignments
  <1>9. Reconciler => live' \in LiveTypes
    BY <1>2, <1>5, Zenon DEF Reconciler, FenceStep, TerminalStep
  <1>10. RecordEvent => live' \in LiveTypes
    BY <1>3, <1>6, <1>7, <1>8, Zenon DEF RecordEvent, AssignmentStep, WorkspaceResult, Loss, RefuseStep
  <1>11. Environment => live' \in LiveTypes
    BY <1>1, <1>2, <1>3, Zenon DEF Environment, EndStart, Loss, Intent
  <1>. QED BY <1>1, <1>2, <1>4, <1>9, <1>10, <1>11, Zenon DEF Next

OpsTyped == ops \subseteq OpsTypes /\ \A o \in ops : o.n <= sb.issued /\ (o.wait => o.kind = "start")

(* The Operations stay typed.                                              *)
LEMMA OpsKept ==
  ASSUME LifecycleInv, [Next]_vars
  PROVE  OpsTyped'
  (* Only an intent opens Operations.                                        *)
  <1>OpsStep. ASSUME [Next]_vars
              PROVE  ops' \subseteq ops \/ Intent
    <2>. USE <1>OpsStep
    <2>1. ASSUME NEW w \in Workers, Worker(w) \/ WorkerCrash(w) \/ EndStart(w)
          PROVE  ops' \subseteq ops
      <3>1. Claimed(w) \/ RevisionConflict(w) \/ WorkerCrash(w) \/ ApplyWait(w)
            \/ DeferEffect(w) \/ loadStartPlan(w) \/ ReplaySchedule(w) \/ RefuseSchedule(w)
            => ops' = ops
        BY Zenon DEF Claimed, ClaimLifecycle, RevisionConflict, WorkerCrash, ApplyWait,
           DeferEffect, loadStartPlan, ReplaySchedule, RefuseSchedule, database
      <3>2. StopStep(w) \/ DeleteStep(w) \/ deferUnavailableHomeRunnerStart(w) \/ scheduleOnce(w) => ops' = ops
        BY Zenon DEF StopStep, DeleteStep, queueStop, resumeStopEffect, queueWorkspaceDelete,
           resumeWorkspaceDeleteEffect, deferUnavailableHomeRunnerStart, scheduleOnce
      <3>3. ApplyTransition(w) \/ ApplyFail(w) \/ ApplyFinishStop(w) => ops' \subseteq ops
        BY Zenon DEF ApplyTransition, ApplyFail, ApplyFinishStop
      <3>4. EndStart(w) => ops' \subseteq ops
        BY Zenon DEF EndStart, failStartPreparation, expireStartCapacityWait
      <3>. QED BY <2>1, <3>1, <3>2, <3>3, <3>4, Zenon DEF Worker, Claimed, StopStep, DeleteStep
    <2>2. MarkExpiredRunners \/ FenceStep \/ ApplyRetry \/ AdvanceFencedGeneration \/ OpenConnection
          \/ ClaimCommands \/ UNCHANGED vars => ops' = ops
      BY Zenon DEF MarkExpiredRunners, FenceStep, ApplyFence, ApplyRetry, AdvanceFencedGeneration,
         OpenConnection, ClaimCommands, vars
    <2>3. Loss \/ RunnerRestart \/ GuestExit => ops' = ops
      BY Zenon DEF Loss, CloseConnection, RefuseStep, RefuseAssignmentEvent, RefuseFenceEvent,
         RefuseLocalWorkspaceResult, RefuseInstanceTerminal, Refuse, RunnerRestart, GuestExit, database
    <2>4. Runner => ops' = ops
      BY Zenon DEF Runner, handleAssignment, StartAssignment, handleFence, handleAdvance, handleCreate,
         handleDelete, sendHeartbeat, sendInstanceTerminal, OnlyConnection, database
    <2>5. TerminalStep => ops' \subseteq ops
      BY Zenon DEF TerminalStep, ApplyFailTerminal
    <2>6. AssignmentStep => ops' \subseteq ops
      BY Zenon DEF AssignmentStep, recordAssignmentAck, recordAssignmentReady, recordAssignmentFailed,
         assignmentFails
    <2>7. recordLocalWorkspaceResult \/ recordLocalWorkspaceDeleteResult => ops' \subseteq ops
      BY Zenon DEF recordLocalWorkspaceResult, recordLocalWorkspaceDeleteResult
    <2>8. recordFenceStopped \/ recordFenceFailed \/ acknowledgeRedundantFenceResult
          \/ recordLocalGenerationAdvanceResult \/ recordInstanceTerminal
          \/ reconcileRunnerActiveAssignments => ops' = ops
      BY Zenon DEF recordFenceStopped, recordFenceFailed, acknowledgeRedundantFenceResult,
         recordLocalGenerationAdvanceResult, recordInstanceTerminal, reconcileRunnerActiveAssignments
    <2>9. Reconciler => ops' \subseteq ops
      BY <2>2, <2>5, Zenon DEF Reconciler, FenceStep, TerminalStep
    <2>10. RecordEvent => ops' \subseteq ops
      BY <2>3, <2>6, <2>7, <2>8, Zenon DEF RecordEvent, AssignmentStep, Loss, RefuseStep
    <2>11. Environment => ops' \subseteq ops \/ Intent
      BY <2>1, <2>3, Zenon DEF Environment, EndStart, Loss, Intent
    <2>. QED BY <2>1, <2>2, <2>4, <2>9, <2>10, <2>11, Zenon DEF Next
  (* The Operations an intent opens are typed.                               *)
  <1>AskedOps. ASSUME Types, Intent
               PROVE  OpsTyped'
    <2>. USE <1>AskedOps
    <2>1. PICK k \in {"start", "stop", "delete"}, x \in BOOLEAN : SetSandboxDesiredState(k, x)
      BY Zenon DEF Intent
    <2>2. sb \in SbTypes /\ OpsTyped
      BY Zenon DEF Types, OpsTyped
    <2>. DEFINE n == sb.issued + 1
                o == [kind |-> k, n |-> n, wait |-> x]
                t == CASE k = "start" -> "running" [] k = "stop" -> "stopped" [] k = "delete" -> "deleted"
    <2>3. /\ sb.issued < MaxOperations /\ (x => k = "start")
          /\ sb' = [sb EXCEPT !.desired = t, !.due = TRUE, !.class = FALSE, !.issued = n]
          /\ ops' \subseteq ops \cup {o}
      BY <2>1, Zenon DEF SetSandboxDesiredState
    <2>4. sb'.issued = n
      <3>. HIDE DEF t, n
      <3>. QED BY <2>2, <2>3, Zenon DEF SbTypes
    <2>5. sb.issued \in 1 .. MaxOperations
      BY <2>2, Zenon DEF SbTypes
    <2>6. n \in 1 .. MaxOperations /\ n <= n /\ sb.issued <= n
      BY <2>3, <2>5, Bounds
    <2>7. \A p \in ops : p.n \in Nat
      <3>1. \A p \in ops : p.n \in 1 .. MaxOperations
        BY <2>2, Zenon DEF OpsTyped, OpsTypes
      <3>. QED BY <3>1, Bounds
    <2>8. \A p \in ops : p.n <= n
      <3>1. \A p \in ops : p.n <= sb.issued
        BY <2>2, Zenon DEF OpsTyped
      <3>. QED BY <2>5, <2>7, <3>1, Bounds
    <2>. HIDE DEF n
    <2>9. o \in OpsTypes /\ o.n = n /\ o.kind = k /\ o.wait = x
      BY <2>6, Zenon DEF OpsTypes
    <2>. HIDE DEF o
    <2>. QED BY <2>2, <2>3, <2>4, <2>6, <2>8, <2>9, Zenon DEF OpsTyped
  <1>0. Types /\ InstanceInv /\ WorkspaceInv /\ PlanInv /\ OpsTyped
    BY Zenon DEF LifecycleInv, Types, OpsTyped
  <1>1. sb'.issued = sb.issued \/ Intent
    <2>1. ASSUME NEW w \in Workers, ApplyFinishStop(w) PROVE sb'.issued = sb.issued
      BY <1>0, <2>1, FinishRow, Zenon
    <2>2. ASSUME NEW w \in Workers, scheduleOnce(w) PROVE sb'.issued = sb.issued
      BY <1>0, <2>2, PlacedRow, Zenon
    <2>3. CASE KeptStep
      <3>1. Transition => sb'.issued = sb.issued \/ Intent
        BY Zenon DEF Transition, Calm, Parked, Asks, Moved
      <3>2. ASSUME NEW w \in Workers, Claimed(w) \/ loadStartPlan(w) PROVE sb'.issued = sb.issued
        BY <1>0, <3>2, ClaimEffects, PlanEffects, Zenon DEF Calm
      <3>. QED BY <2>3, <3>1, <3>2, WorkStep, Zenon DEF Outcome
    <2>. QED BY <1>0, <2>1, <2>2, <2>3, Identity, Zenon DEF KeptStep
  <1>2. CASE sb'.issued = sb.issued /\ ops' \subseteq ops
    BY <1>0, <1>2, Zenon DEF OpsTyped
  <1>. QED BY <1>0, <1>1, <1>2, <1>OpsStep, <1>AskedOps, Zenon

(* The commands stay typed.                                                *)
LEMMA RowsTyped ==
  ASSUME Types, InstanceInv, [Next]_vars
  PROVE  Rows' \subseteq Deliveries
  <1>1. sb.gen \in Generations /\ Rows \subseteq Deliveries
    BY Zenon DEF Types, SbTypes
  <1>2. \A k \in CommandKinds, e \in Effects : Command(k, e) \in Deliveries
    BY <1>1, Zenon DEF Command, Deliveries
  <1>3. StopEffect \in StopEffects /\ StopEffects \subseteq Effects /\ "loss" \in Effects /\ "stop" \in Effects
        /\ "none" \in Effects
    BY StopEffectIn, Zenon DEF Effects, StopEffects
  <1>4. {"assignment", "fence", "lifecycle_fence", "advance", "create", "delete"} \subseteq CommandKinds
    BY Zenon DEF CommandKinds
  <1>5. ASSUME NEW c, Added(c) PROVE c \in Deliveries
    BY <1>2, <1>3, <1>4, <1>5, Zenon DEF Added, Fence
  <1>. QED BY <1>1, <1>5, RowsAdded, Zenon

(* The Runner's state stays typed.                                         *)
LEMMA RnTyped ==
  ASSUME LifecycleInv, [Next]_vars
  PROVE  rn' \in RnTypes
  (* Writing the Runner's state.                                             *)
  <1>RnWritten. ASSUME rn \in RnTypes, NEW g \in 0 .. MaxGeneration, NEW r \in SUBSET (Effects \X Generations)
                PROVE  /\ rn' = rn \/ rn' = [rn EXCEPT !.starting = g] => rn' \in RnTypes
                       /\ rn' = Started(g) => rn' \in RnTypes
                       /\ rn' = [rn EXCEPT !.run = 0, !.starting = 0, !.active = 0, !.exited = FALSE] => rn' \in RnTypes
                       /\ rn' = [rn EXCEPT !.run = 0, !.exited = TRUE] => rn' \in RnTypes
                       /\ rn' = [rn EXCEPT !.run = 0, !.active = 0] => rn' \in RnTypes
                       /\ rn' = [rn EXCEPT !.exited = FALSE, !.starting = g] => rn' \in RnTypes
                       /\ rn' = [rn EXCEPT !.manifest = g] => rn' \in RnTypes
                       /\ rn' = [rn EXCEPT !.manifest = g, !.receipts = r] => rn' \in RnTypes
    <2>. USE <1>RnWritten
    <2>0. 0 \in 0 .. MaxGeneration
      BY Bounds
    <2>1. rn' = rn \/ rn' = [rn EXCEPT !.starting = g] => rn' \in RnTypes
      BY Zenon DEF RnTypes
    <2>2. rn' = Started(g) => rn' \in RnTypes
      BY <2>0, Zenon DEF RnTypes, Started
    <2>3. rn' = [rn EXCEPT !.run = 0, !.starting = 0, !.active = 0, !.exited = FALSE] => rn' \in RnTypes
      BY <2>0, Zenon DEF RnTypes
    <2>4. rn' = [rn EXCEPT !.run = 0, !.exited = TRUE] => rn' \in RnTypes
      BY <2>0, Zenon DEF RnTypes
    <2>5. rn' = [rn EXCEPT !.run = 0, !.active = 0] => rn' \in RnTypes
      BY <2>0, Zenon DEF RnTypes
    <2>6. rn' = [rn EXCEPT !.exited = FALSE, !.starting = g] => rn' \in RnTypes
      BY Zenon DEF RnTypes
    <2>7. rn' = [rn EXCEPT !.manifest = g] => rn' \in RnTypes
      BY Zenon DEF RnTypes
    <2>8. rn' = [rn EXCEPT !.manifest = g, !.receipts = r] => rn' \in RnTypes
      BY Zenon DEF RnTypes
    <2>. QED BY <2>1, <2>2, <2>3, <2>4, <2>5, <2>6, <2>7, <2>8, Zenon
  <1>0. Types /\ InstanceInv /\ GenInv /\ rn \in RnTypes /\ sb.gen \in Generations
    BY Zenon DEF LifecycleInv, Types, SbTypes
  <1>1. 0 \in 0 .. MaxGeneration /\ 1 \in 0 .. MaxGeneration /\ {} \in SUBSET (Effects \X Generations)
    BY Bounds
  <1>2. rn.starting \in 0 .. MaxGeneration /\ rn.manifest \in 0 .. MaxGeneration
        /\ rn.receipts \in SUBSET (Effects \X Generations)
    BY <1>0, Zenon DEF RnTypes
  <1>3. CASE handleAssignment
    <2>1. rn' = rn \/ rn' = [rn EXCEPT !.starting = Head(link.down).gen]
      BY <1>3, Zenon DEF handleAssignment
    <2>2. Head(link.down).gen \in 0 .. MaxGeneration
      <3>1. Head(link.down).gen = sb.gen
        BY <1>3, TakingNeeds, Zenon
      <3>. QED BY <1>0, <3>1, Bounds DEF Generations
    <2>. QED BY <1>0, <1>1, <2>1, <2>2, <1>RnWritten, Zenon
  <1>4. CASE handleAdvance
    <2>. DEFINE c == Head(link.down)
                r == rn.receipts \cup {<<c.effect, c.gen>>}
    <2>1. c \in Deliveries /\ c \in Down
      <3>1. link \in LinkTypes /\ link.down # <<>>
        BY <1>0, <1>4, Zenon DEF Types, LinkTypes, handleAdvance, Receives
      <3>. QED BY <3>1, Replied, Zenon
    <2>2. \/ rn' = rn
          \/ /\ rn.manifest = c.gen
             /\ rn' = [rn EXCEPT !.manifest = @ + 1, !.receipts = @ \cup {<<c.effect, c.gen>>}]
      BY <1>4, Zenon DEF handleAdvance
    <2>3. c.gen <= sb.gen /\ (c.gen = sb.gen => sb.gen < MaxGeneration)
      <3>1. c.gen <= sb.gen
        BY <1>0, <2>1, Zenon DEF GenInv
      <3>2. c.gen = sb.gen => sb.gen < MaxGeneration
        BY <1>0, <1>4, TakingNeeds, Zenon DEF InstanceInv
      <3>. QED BY <3>1, <3>2, Zenon
    <2>4. c.gen \in Generations /\ c.effect \in Effects
      BY <2>1, Zenon DEF Deliveries
    <2>. HIDE DEF c
    <2>5. c.gen + 1 \in 0 .. MaxGeneration
      BY <1>0, <2>3, <2>4, Bounds DEF Generations
    <2>6. r \in SUBSET (Effects \X Generations)
      BY <1>2, <2>4
    <2>7. rn' = rn \/ rn' = [rn EXCEPT !.manifest = c.gen + 1, !.receipts = r]
      BY <1>0, <2>2, Zenon DEF RnTypes
    <2>. HIDE DEF r
    <2>. QED BY <1>0, <2>5, <2>6, <2>7, <1>RnWritten, Zenon
  <1>5. CASE handleCreate
    <2>. DEFINE m == IF rn.manifest = 0 THEN 1 ELSE rn.manifest
    <2>1. rn' = rn \/ rn' = [rn EXCEPT !.manifest = m]
      BY <1>0, <1>5, Zenon DEF handleCreate, RnTypes
    <2>2. m \in 0 .. MaxGeneration
      BY <1>1, <1>2, Zenon
    <2>. HIDE DEF m
    <2>. QED BY <1>0, <1>1, <2>1, <2>2, <1>RnWritten, Zenon
  <1>6. CASE handleDelete
    <2>1. rn' = rn \/ rn' = [rn EXCEPT !.manifest = 0, !.receipts = {}]
      BY <1>6, Zenon DEF handleDelete
    <2>. QED BY <1>0, <1>1, <2>1, <1>RnWritten, Zenon
  <1>7. CASE StartAssignment \/ Loss
    <2>1. \/ rn' = [rn EXCEPT !.starting = 0]
          \/ rn' = Started(rn.starting)
      BY <1>7, Zenon DEF StartAssignment, Loss, CloseConnection, RefuseStep, RefuseAssignmentEvent,
         RefuseFenceEvent, RefuseLocalWorkspaceResult, RefuseInstanceTerminal, Refuse, Drop
    <2>. QED BY <1>0, <1>1, <1>2, <2>1, <1>RnWritten, Zenon
  <1>8. CASE handleFence
    <2>1. rn' = rn \/ rn' = [rn EXCEPT !.run = 0, !.active = 0]
      BY <1>8, Zenon DEF handleFence
    <2>. QED BY <1>0, <1>1, <2>1, <1>RnWritten, Zenon
  <1>9. CASE sendInstanceTerminal
    <2>. DEFINE n == IF rn.active = 0 THEN 0 ELSE rn.starting
    <2>1. rn' = [rn EXCEPT !.exited = FALSE, !.starting = n]
      BY <1>0, <1>9, Zenon DEF sendInstanceTerminal, RnTypes
    <2>2. n \in 0 .. MaxGeneration
      BY <1>1, <1>2, Zenon
    <2>. HIDE DEF n
    <2>. QED BY <1>0, <1>1, <2>1, <2>2, <1>RnWritten, Zenon
  <1>10. sendHeartbeat => rn' = rn
    BY Zenon DEF sendHeartbeat
  <1>11. GuestExit => rn' = [rn EXCEPT !.run = 0, !.exited = TRUE]
    BY Zenon DEF GuestExit
  <1>12. RunnerRestart => rn' = [rn EXCEPT !.run = 0, !.starting = 0, !.active = 0, !.exited = FALSE]
    BY Zenon DEF RunnerRestart
  <1>13. sendHeartbeat \/ GuestExit \/ RunnerRestart => rn' \in RnTypes
    BY <1>0, <1>1, <1>10, <1>11, <1>12, <1>RnWritten, Zenon
  <1>14. RunnerStep => rn' \in RnTypes
    BY <1>3, <1>4, <1>5, <1>6, <1>7, <1>8, <1>9, <1>13, Zenon DEF RunnerStep, Runner
  <1>. QED BY <1>0, <1>14, Steps, Zenon

(* Every variable stays typed.                                             *)
LEMMA TypesKept ==
  ASSUME LifecycleInv, [Next]_vars
  PROVE  Types'
  <1>0. /\ Types /\ GenInv /\ InstanceInv /\ WorkspaceInv /\ PlanInv /\ RunInv
        /\ live \in LiveTypes
    BY Zenon DEF LifecycleInv, Types, LiveTypes
  <1>1. sb' \in SbTypes
    BY <1>0, GenStep, Zenon
  <1>2. slot' \in SlotTypes /\ asg' \in AsgTypes /\ stop' \in StopTypes
    BY <1>0, SlotDelta, AsgDelta, StopDelta, Zenon
  <1>3. ws' \in WsTypes /\ fx' \in FxTypes /\ live' \in LiveTypes
    BY <1>0, WsDelta, LiveStep, Zenon
  <1>4. work' \in [Workers -> WorkTypes]
    BY <1>0, Identity, WorkTyped, FinishEffects, PlaceEffects, Zenon DEF KeptStep
  <1>5. link' \in LinkTypes /\ rn' \in RnTypes /\ faults' \in 0 .. MaxFaults
    BY <1>0, LinkDelta, RnTyped, FaultsTyped, Zenon
  <1>6. OpsTyped' /\ Rows' \subseteq Deliveries
    BY <1>0, OpsKept, RowsTyped, Zenon
  <1>. QED BY <1>1, <1>2, <1>3, <1>4, <1>5, <1>6, Zenon
           DEF Types, WsTypes, FxTypes, LiveTypes, LinkTypes, OpsTyped

(***************************************************************************)
(* The invariant holds initially and is preserved.                         *)
(***************************************************************************)

LEMMA InitRow ==
  ASSUME Init
  PROVE  /\ sb \in SbTypes /\ sb.gen = 1 /\ sb.inst = FALSE /\ sb.owner = Nobody
         /\ sb.state = "creating" /\ sb.desired = "running" /\ sb.issued = 1
  <1>1. sb = [desired |-> "running", state |-> "creating", gen |-> 1, inst |-> FALSE,
              owner |-> Nobody, due |-> FALSE, class |-> FALSE, issued |-> 1]
    BY Zenon DEF Init
  <1>2. 1 \in Generations /\ 1 \in 1 .. MaxOperations
    BY Bounds DEF Generations
  <1>3. sb \in SbTypes
    BY <1>1, <1>2, Zenon DEF SbTypes, States, Desired
  <1>4. /\ sb.gen = 1 /\ sb.inst = FALSE /\ sb.owner = Nobody
        /\ sb.state = "creating" /\ sb.desired = "running" /\ sb.issued = 1
    BY ONLY <1>1
  <1>. QED BY <1>3, <1>4, Zenon

(* The initial states satisfy the invariant.                               *)
LEMMA InitInv ==
  ASSUME Init
  PROVE  LifecycleInv
  (* The initial state: a create in progress and nothing else.               *)
  <1>InitTypes. ASSUME Init
                PROVE  /\ Types /\ Rows = {Command("create", "none")} /\ Down = {} /\ Evidence = {}
                       /\ slot.kind = "create" /\ asg.state = "none" /\ link.down = <<>>
                       /\ \A e \in StopEffects : stop[e].state = "none" /\ stop[e].cmd = "none"
                       /\ rn.run = 0 /\ rn.starting = 0 /\ rn.active = 0 /\ rn.manifest = 0 /\ rn.receipts = {}
                       /\ fx.create = "queued" /\ fx.delete = "none"
                       /\ \A w \in Workers : ~work[w].fresh /\ work[w].pc = "idle" /\ work[w].gen = 0
    <2>. USE <1>InitTypes
    <2>0. /\ ws = "creating" /\ slot = [NoSlot EXCEPT !.kind = "create", !.state = "queued", !.op = 1]
          /\ asg = NoAssignment /\ live = "none" /\ stop = [e \in StopEffects |-> NoStop]
          /\ fx = [create |-> "queued", delete |-> "none"]
          /\ ops = {[kind |-> "create", n |-> 1, wait |-> FALSE]}
          /\ cmds = {Row(Command("create", "none"), 1, FALSE)}
          /\ work = [w \in Workers |-> Idle] /\ link = NoLink
          /\ rn = [run |-> 0, starting |-> 0, active |-> 0, exited |-> FALSE, manifest |-> 0, receipts |-> {}]
          /\ faults = 0
      BY Zenon DEF Init
    <2>1. 0 \in 0 .. MaxGeneration /\ 1 \in 0 .. MaxOperations /\ 1 \in 1 .. MaxOperations /\ 1 <= 1
          /\ 0 \in 0 .. FenceRetryLimit /\ 0 \in 0 .. StopRetryLimit /\ 0 \in 0 .. MaxFaults
          /\ 0 \in 0 .. MaxOperations
      BY Bounds
    <2>2. slot \in SlotTypes /\ slot.kind = "create"
      <3>1. slot = [kind |-> "create", state |-> "queued", effect |-> "none", op |-> 1]
        BY <2>0, Zenon DEF NoSlot
      <3>2. slot \in SlotTypes
        BY <2>1, <3>1, Zenon DEF SlotTypes
      <3>3. slot.kind = "create"
        BY ONLY <3>1
      <3>. QED BY <3>2, <3>3, Zenon
    <2>3. asg \in AsgTypes /\ asg.state = "none"
      BY <2>0, <2>1, Zenon DEF AsgTypes, NoAssignment
    <2>4. stop \in StopTypes /\ \A e \in StopEffects : stop[e].state = "none" /\ stop[e].cmd = "none"
      <3>1. NoStop.state = "none" /\ NoStop.cmd = "none" /\ NoStop \in Effect
        BY <2>1, Zenon DEF NoStop, Effect, EffectStates
      <3>. QED BY <2>0, <3>1, Zenon DEF StopTypes, Effect
    <2>5. fx \in FxTypes /\ fx.create = "queued" /\ fx.delete = "none" /\ ws \in WsTypes /\ live \in LiveTypes
      BY <2>0, Zenon DEF FxTypes, WsTypes, LiveTypes
    <2>6. OpsTyped
      <3>. DEFINE o == [kind |-> "create", n |-> 1, wait |-> FALSE]
      <3>1. o \in OpsTypes /\ o.n = 1 /\ o.wait = FALSE
        BY <2>1, Zenon DEF OpsTypes
      <3>2. ops = {o}
        BY <2>0, Zenon
      <3>. HIDE DEF o
      <3>. QED BY <2>1, <3>1, <3>2, InitRow, Zenon DEF OpsTyped
    <2>7. Rows = {Command("create", "none")} /\ Rows \subseteq Deliveries
      <3>1. Content(Row(Command("create", "none"), 1, FALSE)) = Command("create", "none")
        BY DEF Content, Row, Command
      <3>2. Rows = {Content(Row(Command("create", "none"), 1, FALSE))}
        BY <2>0, Zenon DEF Rows, Contents
      <3>3. sb.gen \in Generations
        BY InitRow, Zenon DEF SbTypes
      <3>4. Command("create", "none") \in Deliveries
        BY <3>3, Zenon DEF Command, Deliveries, CommandKinds, Effects
      <3>. QED BY <3>1, <3>2, <3>4, Zenon
    <2>8. work \in [Workers -> WorkTypes]
          /\ \A w \in Workers : ~work[w].fresh /\ work[w].pc = "idle" /\ work[w].gen = 0
      BY <2>0, IdleTypes, Zenon
    <2>9. link \in LinkTypes /\ Down = {} /\ Evidence = {} /\ link.down = <<>>
      <3>1. link.down = <<>> /\ link.in = <<>>
        BY <2>0 DEF NoLink
      <3>2. \A S : <<>> \in Seq(S)
        BY ONLY TRUE
      <3>3. link \in LinkTypes
        BY <2>0, <3>2, Zenon DEF LinkTypes, NoLink
      <3>4. Elems(<<>>) = {}
        BY DEF Elems
      <3>. QED BY <3>1, <3>3, <3>4, Zenon DEF Down, Evidence
    <2>10. rn \in RnTypes
      <3>1. {} \in SUBSET (Effects \X Generations)
        OBVIOUS
      <3>. QED BY <2>0, <2>1, <3>1, Zenon DEF RnTypes
    <2>11. rn.run = 0 /\ rn.starting = 0 /\ rn.active = 0 /\ rn.manifest = 0 /\ rn.receipts = {}
      BY <2>0, Zenon
    <2>12. faults \in 0 .. MaxFaults
      BY <2>0, <2>1, Zenon
    <2>13. Types
      BY <2>2, <2>3, <2>4, <2>5, <2>6, <2>7, <2>8, <2>9, <2>10, <2>12, InitRow, Zenon
         DEF Types, WsTypes, FxTypes, LiveTypes, LinkTypes, OpsTyped
    <2>. QED BY <2>2, <2>3, <2>4, <2>5, <2>7, <2>8, <2>9, <2>11, <2>13, Zenon
  <1>0. /\ Types /\ Rows = {Command("create", "none")} /\ Down = {} /\ Evidence = {}
        /\ slot.kind = "create" /\ asg.state = "none" /\ link.down = <<>>
        /\ \A e \in StopEffects : stop[e].state = "none" /\ stop[e].cmd = "none"
        /\ rn.run = 0 /\ rn.starting = 0 /\ rn.active = 0 /\ rn.manifest = 0 /\ rn.receipts = {}
        /\ fx.create = "queued" /\ fx.delete = "none" /\ ws = "creating"
        /\ \A w \in Workers : ~work[w].fresh /\ work[w].pc = "idle" /\ work[w].gen = 0
    BY <1>InitTypes, Zenon DEF Init
  <1>1. sb.gen = 1 /\ sb.inst = FALSE /\ sb.state = "creating"
    BY InitRow, Zenon
  <1>2. 0 <= 1 /\ 1 <= 1
    OBVIOUS
  <1>3. \A c \in Rows : c.kind = "create" /\ c.gen = 1
    <2>1. \A k, e : Command(k, e).kind = k /\ Command(k, e).gen = sb.gen
      BY CommandFields, Zenon
    <2>2. Command("create", "none").kind = "create" /\ Command("create", "none").gen = 1
      BY <1>1, <2>1, Zenon
    <2>. QED BY <1>0, <2>2, Zenon
  <1>4. GenInv
    BY <1>0, <1>1, <1>2, <1>3, Zenon DEF GenInv
  <1>5. InstanceInv
    BY <1>0, <1>1, Zenon DEF InstanceInv
  <1>6. WorkspaceInv
    BY <1>0, <1>1, <1>2, <1>3, Zenon DEF WorkspaceInv
  <1>7. PlanInv
    BY <1>0, <1>1, <1>2, Zenon DEF PlanInv
  <1>8. CurrentInv
    BY <1>0, <1>3, Zenon DEF CurrentInv, Asked, Sent, Heard, Placed
  <1>9. StartInv
    BY <1>0, <1>3, Zenon DEF StartInv, Undecided
  <1>10. OrderInv
    <2>1. DOMAIN link.down = {}
      BY <1>0
    <2>. QED BY <1>0, <2>1, Zenon DEF OrderInv
  <1>11. RunInv
    BY <1>0, <1>1, <1>2, Zenon DEF RunInv
  <1>12. QuietInv
    BY <1>0, <1>3, Zenon DEF QuietInv, Quiet
  <1>13. AdvanceInv
    BY <1>0, <1>3, Zenon DEF AdvanceInv
  <1>14. ReceiptInv
    BY <1>0, Zenon DEF ReceiptInv
  <1>15. EffectInv
    BY <1>0, Zenon DEF EffectInv
  <1>16. DeletedInv
    BY <1>0, <1>1, Zenon DEF DeletedInv
  <1>. QED BY <1>0, <1>4, <1>5, <1>6, <1>7, <1>8, <1>9, <1>10, <1>11, <1>12, <1>13, <1>14, <1>15, <1>16,
              Zenon DEF LifecycleInv

(* Every step preserves the invariant.                                     *)
LEMMA Preserved ==
  ASSUME LifecycleInv, [Next]_vars
  PROVE  LifecycleInv'
  <1>0. Types /\ InstanceInv /\ GenInv /\ RunInv /\ WorkspaceInv /\ PlanInv
    BY Zenon DEF LifecycleInv
  <1>1. Types' /\ GenInv'
    BY <1>0, TypesKept, GenStep, Zenon
  <1>2. CASE KeptStep
    BY <1>1, <1>2, InstanceKept, WorkspaceKept, PlanKept, CurrentKept, StartKept, OrderKept, RunKept,
       QuietKept, AdvanceKept, ReceiptKept, EffectKept, DeletedKept, Zenon DEF LifecycleInv
  <1>3. ASSUME NEW w \in Workers, ApplyFinishStop(w) \/ scheduleOnce(w) PROVE LifecycleInv'
    BY <1>1, <1>3, FinishInv, PlaceInv, Zenon DEF LifecycleInv
  <1>. QED BY <1>0, <1>2, <1>3, Identity, Zenon DEF KeptStep

(***************************************************************************)
(* A deleted Sandbox.                                                      *)
(***************************************************************************)
Frozen == UNCHANGED <<sb, ws, slot, asg, live, stop, fx, ops>> /\ Rows' \subseteq Rows

-----------------------------------------------------------------------------
(***************************************************************************)
(* LifecycleInv holds in every reachable state.                            *)
(***************************************************************************)

THEOREM Invariance ==
  Spec => []LifecycleInv
  <1>1. Init => LifecycleInv
    BY InitInv, Zenon
  <1>2. LifecycleInv /\ [Next]_vars => LifecycleInv'
    BY Preserved, Zenon
  <1>. QED BY <1>1, <1>2, PTL DEF Spec

(***************************************************************************)
(* The rows, the workers and the Runner keep their shapes, and every live  *)
(* command and every message in flight is of a generation that exists.     *)
(***************************************************************************)

THEOREM LifecycleTypes ==
  Spec => []TypeOK
  <1>1. ASSUME LifecycleInv PROVE TypeOK
    <2>0. Types /\ GenInv /\ sb.gen \in Generations /\ sb.issued \in 1 .. MaxOperations
      BY <1>1, Zenon DEF LifecycleInv, Types, SbTypes
    <2>1. \A o \in ops : o.n \in 1 .. sb.issued /\ (o.wait => o.kind = "start")
      <3>1. \A o \in ops : o.n \in 1 .. MaxOperations /\ o.n <= sb.issued /\ (o.wait => o.kind = "start")
        BY <2>0, Zenon DEF Types, OpsTypes
      <3>. QED BY <2>0, <3>1, Bounds
    <2>2. \A c \in cmds : c.gen \in 1 .. sb.gen
      <3>1. \A c \in cmds : Content(c) \in Rows /\ Content(c).gen = c.gen
        BY ContentFields, Zenon DEF Rows, Contents
      <3>2. \A c \in Rows : c.gen \in Generations /\ c.gen <= sb.gen
        BY <2>0, Zenon DEF Types, Deliveries, GenInv
      <3>3. \A c \in cmds : c.gen \in Generations /\ c.gen <= sb.gen
        BY <3>1, <3>2, Zenon
      <3>. QED BY <2>0, <3>3, Bounds DEF Generations
    <2>3. \A i \in DOMAIN link.in : link.in[i].gen \in 0 .. sb.gen
      <3>1. \A i \in DOMAIN link.in : link.in[i] \in Evidence
        BY Zenon DEF Evidence, Elems
      <3>2. link.in \in Seq(Events)
        BY <2>0, Zenon DEF Types
      <3>3. Evidence \subseteq Events
        BY <3>2, ElemsIn, Zenon DEF Evidence
      <3>4. \A m \in Evidence : m.gen \in 0 .. MaxGeneration /\ m.gen <= sb.gen
        BY <2>0, <3>3, Zenon DEF Events, GenInv
      <3>5. \A i \in DOMAIN link.in : link.in[i].gen \in 0 .. MaxGeneration /\ link.in[i].gen <= sb.gen
        BY <3>1, <3>4, Zenon
      <3>. QED BY <2>0, <3>5, Bounds DEF Generations
    <2>4. /\ sb \in SbTypes /\ slot \in SlotTypes /\ asg \in AsgTypes /\ stop \in StopTypes
          /\ ws \in {"creating", "ready", "failed", "deleting", "deleted"}
          /\ live \in {"none", "starting", "ready", "stopped", "lost"}
          /\ faults \in 0 .. MaxFaults
      BY <2>0, Zenon DEF Types
    <2>5. /\ fx.create \in {"queued", "succeeded", "runner_failed"}
          /\ fx.delete \in {"none", "queued", "succeeded", "runner_failed"}
          /\ \A w \in Workers : work[w].pc \in {"idle", "claimed", "planned"} /\ work[w].act \in Actions
          /\ rn.manifest \in 0 .. MaxGeneration
      BY <2>0, Zenon DEF Types, WorkTypes, RnTypes
    <2>. QED BY <2>1, <2>2, <2>3, <2>4, <2>5, Zenon DEF TypeOK, SbTypes, SlotTypes, AsgTypes, StopTypes
  <1>. QED BY <1>1, Invariance, PTL

(***************************************************************************)
(* The committed generation of a ready Workspace is the Runner's manifest  *)
(* generation, or one behind it while an advance's receipt is on its way:  *)
(* finish_stop never commits a generation the Runner has not published.    *)
(***************************************************************************)

THEOREM GenerationCommitted ==
  Spec => []GenerationNotAhead
  <1>1. ASSUME LifecycleInv PROVE GenerationNotAhead
    <2>1. ReceiptInv /\ sb.gen \in Generations
      BY <1>1, Zenon DEF LifecycleInv, Types, SbTypes
    <2>. QED BY <2>1, Zenon DEF ReceiptInv, GenerationNotAhead
  <1>. QED BY <1>1, Invariance, PTL

(***************************************************************************)
(* One writer: compute runs only for the Instance of the current           *)
(* generation over a manifest of that generation, and none runs or starts  *)
(* once the Assignment is gone, fenced or released, whatever commands were *)
(* retried, lost with the connection or delivered late.                    *)
(***************************************************************************)

THEOREM SingleWriter ==
  Spec => []OneWriter
  <1>1. ASSUME LifecycleInv PROVE OneWriter
    <2>1. RunInv /\ QuietInv
      BY <1>1, Zenon DEF LifecycleInv
    <2>. QED BY <2>1, Zenon DEF RunInv, QuietInv, Quiet, OneWriter
  <1>. QED BY <1>1, Invariance, PTL

(***************************************************************************)
(* Every effect that waits for the Runner has the command that produces    *)
(* its evidence among the live ones, and a waiting stop effect holds the   *)
(* mutation slot: no supersession, retry or acknowledgement orphans it.    *)
(***************************************************************************)

THEOREM CommandsOutlive ==
  Spec => []EffectsAwaited
  <1>1. ASSUME LifecycleInv PROVE EffectsAwaited
    <2>1. EffectInv /\ InstanceInv
      BY <1>1, Zenon DEF LifecycleInv
    <2>2. ASSUME NEW k, NEW e, Command(k, e) \in Rows PROVE LiveCommand(k, e)
      <3>1. PICK c \in cmds : Content(c) = Command(k, e)
        BY <2>2, Zenon DEF Rows, Contents
      <3>2. c.kind = k /\ c.effect = e /\ c.gen = sb.gen
        <4>1. Content(c).kind = c.kind /\ Content(c).gen = c.gen /\ Content(c).effect = c.effect
          BY ContentFields, Zenon
        <4>2. Command(k, e).kind = k /\ Command(k, e).gen = sb.gen /\ Command(k, e).effect = e
          BY CommandFields, Zenon
        <4>. QED BY <3>1, <4>1, <4>2, Zenon
      <3>. QED BY <3>2, Zenon DEF LiveCommand
    <2>. QED BY <2>1, <2>2, Zenon DEF EffectInv, InstanceInv, EffectsAwaited
  <1>. QED BY <1>1, Invariance, PTL

(***************************************************************************)
(* An Instance is retired only by finish_stop, one generation at a time,   *)
(* with compute stopped and the manifest already advanced: losing the      *)
(* Runner, running out of retries or failing never gives up an Instance.   *)
(***************************************************************************)

THEOREM RetirementByReceipt ==
  Spec => RetiredByReceipt
  <1>1. ASSUME LifecycleInv, [Next]_vars, sb.inst, ~sb'.inst \/ sb'.gen # sb.gen
        PROVE  /\ rn.run = 0 /\ rn.starting = 0
               /\ rn.manifest = sb.gen + 1 /\ sb'.gen = sb.gen + 1
    <2>0. Types /\ InstanceInv /\ WorkspaceInv /\ PlanInv
      BY <1>1, Zenon DEF LifecycleInv
    <2>1. ~SbKept
      BY <1>1, Zenon DEF SbKept
    <2>2. ASSUME NEW w \in Workers PROVE ~scheduleOnce(w)
      BY <1>1, <2>0, PlacedRow, Zenon
    <2>3. PICK w \in Workers : ApplyFinishStop(w)
      BY <1>1, <2>0, <2>1, <2>2, Identity, Zenon
    <2>. QED BY <1>1, <2>3, FinishEffects, Zenon DEF Retired, Quiet
  <1>. QED BY <1>1, Invariance, PTL DEF Spec, RetiredByReceipt

(***************************************************************************)
(* An accepted delete dominates every claim, expiry and late answer, and   *)
(* once the Sandbox is deleted no step writes its rows or queues a command *)
(* for it.                                                                 *)
(***************************************************************************)

THEOREM DeletionDominates ==
  Spec => DeleteDominates
  (* Nothing a deletion has settled changes after it.                        *)
  <1>DeletedFrozen. ASSUME LifecycleInv, [Next]_vars, sb.state = "deleted"
                    PROVE  Frozen
    <2>. USE <1>DeletedFrozen
    <2>0. Types /\ InstanceInv /\ WorkspaceInv /\ EffectInv /\ DeletedInv
      BY Zenon DEF LifecycleInv
    <2>1. /\ ws = "deleted" /\ ~sb.inst /\ asg.state = "none"
          /\ \A w \in Workers : ~work[w].fresh
          /\ fx.create # "queued" /\ fx.delete # "queued"
      <3>1. ws = "deleted" /\ \A w \in Workers : ~work[w].fresh
        BY <2>0, Zenon DEF DeletedInv
      <3>2. ~sb.inst /\ asg.state = "none"
        BY <2>0, <3>1, Zenon DEF InstanceInv
      <3>3. fx.create # "queued" /\ fx.delete # "queued"
        BY <2>0, <3>1, Zenon DEF WorkspaceInv, EffectInv
      <3>. QED BY <3>1, <3>2, <3>3, Zenon
    <2>2. UNCHANGED database => Frozen
      BY Zenon DEF database, Frozen, Rows
    <2>3. ASSUME NEW w \in Workers, Worker(w) \/ WorkerCrash(w) \/ EndStart(w) PROVE Frozen
      <3>1. RevisionConflict(w) \/ WorkerCrash(w) \/ loadStartPlan(w) \/ RefuseSchedule(w) => UNCHANGED database
        BY Zenon DEF RevisionConflict, WorkerCrash, loadStartPlan, RefuseSchedule
      <3>2. ~Claimed(w)
        BY Zenon DEF Claimed, ClaimLifecycle
      <3>3. \A a : ~Holds(w, a)
        BY <2>1, Zenon DEF Holds
      <3>4. ~ApplyWait(w) /\ ~ApplyTransition(w) /\ ~ApplyFail(w) /\ ~ApplyFinishStop(w) /\ ~DeferEffect(w)
        BY <3>3, Zenon DEF ApplyWait, ApplyTransition, ApplyFail, ApplyFinishStop, DeferEffect
      <3>5. ~StopStep(w) /\ ~DeleteStep(w)
        BY <3>3, Zenon DEF StopStep, DeleteStep, queueStop, resumeStopEffect, queueWorkspaceDelete,
           resumeWorkspaceDeleteEffect
      <3>6. ~scheduleOnce(w) /\ ~ReplaySchedule(w)
        BY <2>1, Zenon DEF scheduleOnce, ReplaySchedule, Mismatch
      <3>7. ~deferUnavailableHomeRunnerStart(w) /\ ~EndStart(w)
        BY <2>1, Zenon DEF deferUnavailableHomeRunnerStart, EndStart, failStartPreparation,
           expireStartCapacityWait, PlanCurrent
      <3>. QED BY <2>2, <2>3, <3>1, <3>2, <3>4, <3>5, <3>6, <3>7, Zenon DEF Worker, Claimed, StopStep, DeleteStep
    <2>4. Reconciler => Frozen
      <3>1. ~MarkExpiredRunners
        BY <2>1, Zenon DEF MarkExpiredRunners
      <3>. QED BY <2>0, <2>1, <3>1, NeedsInstance, Zenon DEF Reconciler, FenceStep, TerminalStep
    <2>5. Runner => UNCHANGED database
      BY Zenon DEF Runner, handleAssignment, StartAssignment, handleFence, handleAdvance, handleCreate,
         handleDelete, sendHeartbeat, sendInstanceTerminal, OnlyConnection
    <2>6. Loss \/ RunnerRestart \/ GuestExit => UNCHANGED database
      BY Zenon DEF Loss, CloseConnection, RefuseStep, RefuseAssignmentEvent, RefuseFenceEvent,
         RefuseLocalWorkspaceResult, RefuseInstanceTerminal, Refuse, RunnerRestart, GuestExit
    <2>7. OpenConnection \/ ClaimCommands => Frozen
      <3>1. OpenConnection \/ ClaimCommands => UNCHANGED <<sb, ws, slot, asg, live, stop, fx, ops>>
        BY Zenon DEF OpenConnection, ClaimCommands
      <3>. QED BY <3>1, RowsReconciler, Zenon DEF Frozen
    <2>8. acknowledgeRedundantFenceResult => Frozen
      <3>1. acknowledgeRedundantFenceResult =>
              UNCHANGED <<sb, ws, slot, asg, live, stop, fx, ops>> /\ AcknowledgeMatching
        BY Zenon DEF acknowledgeRedundantFenceResult
      <3>. QED BY <3>1, RowsMatching, Zenon DEF Frozen
    <2>9. recordLocalWorkspaceResult \/ recordLocalWorkspaceDeleteResult => UNCHANGED database
      BY <2>1, Zenon DEF recordLocalWorkspaceResult, recordLocalWorkspaceDeleteResult, database
    <2>10. reconcileRunnerActiveAssignments => UNCHANGED database
      BY <2>1, Zenon DEF reconcileRunnerActiveAssignments, database
    <2>11. ~recordInstanceTerminal
      BY <2>1, Zenon DEF recordInstanceTerminal, TerminalCurrent, CurrentFence
    <2>12. RecordEvent => Frozen
      BY <2>0, <2>1, <2>2, <2>6, <2>8, <2>9, <2>10, <2>11, NeedsInstance, Zenon
         DEF RecordEvent, AssignmentStep, Loss, RefuseStep
    <2>13. ~Intent
      BY Zenon DEF Intent, SetSandboxDesiredState
    <2>14. Environment => Frozen
      BY <2>2, <2>3, <2>6, <2>13, Zenon DEF Environment, EndStart, Loss, Intent
    <2>15. UNCHANGED vars => UNCHANGED database
      BY Zenon DEF vars, database
    <2>. QED BY <2>2, <2>3, <2>4, <2>5, <2>7, <2>12, <2>14, <2>15, Zenon DEF Next
  (* The deletion intent is final.                                           *)
  <1>StaysDeleted. ASSUME LifecycleInv, [Next]_vars, sb.desired = "deleted"
                   PROVE  sb'.desired = "deleted" /\ (sb'.state = "ready" => sb.state = "ready")
    <2>. USE <1>StaysDeleted
    <2>0. Types /\ InstanceInv /\ WorkspaceInv /\ PlanInv
      BY Zenon DEF LifecycleInv
    <2>1. ASSUME NEW w \in Workers, ApplyFinishStop(w) \/ scheduleOnce(w)
          PROVE  sb'.desired = sb.desired /\ sb'.state \in {"stopped", "starting"}
      BY <2>0, <2>1, FinishRow, PlacedRow, Zenon
    <2>2. CASE KeptStep
      <3>1. Transition => sb'.desired = "deleted" /\ (sb'.state = "ready" => sb.state = "ready")
        BY Zenon DEF Transition, Calm, Parked, Asks, Moved
      <3>2. ASSUME NEW w \in Workers, Claimed(w) \/ loadStartPlan(w)
            PROVE  sb'.desired = sb.desired /\ sb'.state = sb.state
        BY <2>0, <3>2, ClaimEffects, PlanEffects, Zenon DEF Calm
      <3>. QED BY <2>2, <3>1, <3>2, WorkStep, Zenon DEF Outcome
    <2>. QED BY <2>0, <2>1, <2>2, Identity, Zenon DEF KeptStep
  <1>1. ASSUME LifecycleInv, [Next]_vars
        PROVE  /\ sb.desired = "deleted" =>
                    sb'.desired = "deleted" /\ (sb'.state = "ready" => sb.state = "ready")
               /\ sb.state = "deleted" =>
                    /\ UNCHANGED <<sb, ws, slot, asg, live, stop, fx, ops>>
                    /\ \A c \in cmds' : \E d \in cmds : Content(c) = Content(d)
    <2>1. ASSUME Rows' \subseteq Rows, NEW c \in cmds' PROVE \E d \in cmds : Content(c) = Content(d)
      <3>1. Rows' = Contents(cmds')
        BY Zenon DEF Rows
      <3>2. Content(c) \in Contents(cmds')
        BY Zenon DEF Contents
      <3>3. Content(c) \in Contents(cmds)
        BY <2>1, <3>1, <3>2, Zenon DEF Rows
      <3>. QED BY <3>3, Zenon DEF Contents
    <2>. QED BY <1>1, <2>1, <1>StaysDeleted, <1>DeletedFrozen, Zenon DEF Frozen
  <1>. QED BY <1>1, Invariance, PTL DEF Spec, DeleteDominates

-----------------------------------------------------------------------------
(***************************************************************************)
(* Wakeups.  A Sandbox without a scheduled pass is at rest, or its         *)
(* Assignment is still owed evidence and no stop effect will consume it;   *)
(* a current claim that waits or starts was decided on the row as it is.   *)
(***************************************************************************)
Owed == /\ asg.state \in {"assigned", "starting", "uncertain", "failed", "fencing", "fenced"}
        /\ \A e \in StopEffects : stop[e].state # "queued"
Rest == sb.desired = "stopped" /\ (sb.state = "stopped" \/ (sb.state = "failed" /\ ~sb.inst))
ClaimInv ==
  \A w \in Workers :
    /\ work[w].pc = "planned" => work[w].act = "start_instance"
    /\ work[w].fresh /\ work[w].act = "wait" => ~(sb.state = "failed" /\ sb.inst)
    /\ work[w].fresh /\ work[w].act = "start_instance" => sb.state \in {"stopped", "failed", "starting"}
WakeInv ==
  /\ sb.state = "starting" => sb.inst
  /\ ClaimInv
  /\ Unscheduled => Rest \/ Owed

RowSame == /\ sb'.due = sb.due /\ sb'.class = sb.class /\ sb'.state = sb.state
           /\ sb'.desired = sb.desired /\ sb'.inst = sb.inst
Woken == /\ sb'.state \in {sb.state} \cup (States \ {"starting"})
         /\ RowSame \/ sb'.due \/ sb'.class \/ sb'.state = "deleted"

(* Which ways of writing the sandboxes row schedule a pass.                *)
LEMMA RowWakes ==
  ASSUME sb \in SbTypes, NEW b, NEW s, NEW d, NEW c, NEW n, s \in {sb.state} \cup (States \ {"starting"})
  PROVE  /\ sb' = sb \/ sb' = [sb EXCEPT !.owner = d] => Woken
         /\ sb' = Released(TRUE) \/ sb' = [sb EXCEPT !.due = TRUE] => Woken
         /\ sb' = [Released(b) EXCEPT !.state = s, !.class = TRUE] => Woken
         /\ sb' = [Released(TRUE) EXCEPT !.state = s] => Woken
         /\ sb' = [Released(TRUE) EXCEPT !.state = s, !.class = c] => Woken
         /\ sb' = [Released(TRUE) EXCEPT !.state = s, !.desired = d] => Woken
         /\ sb' = [Released(b) EXCEPT !.state = "deleted", !.inst = c] => Woken
         /\ sb' = [sb EXCEPT !.desired = d, !.due = TRUE, !.class = c, !.issued = n] => Woken
  <1>. DEFINE r == Released(TRUE)
              q == Released(b)
  <1>1. DOMAIN r = DOMAIN sb /\ r.due /\ r.state = sb.state /\ DOMAIN q = DOMAIN sb
    BY Zenon DEF Released, SbTypes
  <1>2. /\ {"desired", "state", "owner", "issued", "class", "inst", "due"} \subseteq DOMAIN sb
        /\ sb.state \in {sb.state} \cup (States \ {"starting"})
        /\ "deleted" \in {sb.state} \cup (States \ {"starting"})
    BY Zenon DEF SbTypes, States
  <1>. DEFINE T == {sb.state} \cup (States \ {"starting"})
  <1>0. s \in T /\ sb.state \in T /\ "deleted" \in T
    BY <1>2, Zenon
  <1>. HIDE DEF T
  <1>3. sb' = sb \/ sb' = [sb EXCEPT !.owner = d] => Woken
    <2>1. sb' = sb \/ sb' = [sb EXCEPT !.owner = d] => RowSame
      BY <1>2, Zenon DEF RowSame
    <2>. QED BY <1>2, <2>1, Zenon DEF Woken, RowSame
  <1>4. sb' = [sb EXCEPT !.due = TRUE] => sb'.due /\ sb'.state = sb.state
    BY <1>2, Zenon
  <1>5. sb' = [sb EXCEPT !.desired = d, !.due = TRUE, !.class = c, !.issued = n] => sb'.due /\ sb'.state = sb.state
    BY <1>2, Zenon
  <1>. HIDE DEF r, q
  <1>6. sb' = r => sb'.due /\ sb'.state = sb.state
    BY <1>1, Zenon
  <1>7. sb' = [q EXCEPT !.state = s, !.class = TRUE] => sb'.class /\ sb'.state = s
    BY <1>1, <1>2, Zenon
  <1>8. sb' = [r EXCEPT !.state = s] => sb'.due /\ sb'.state = s
    BY <1>1, <1>2, Zenon
  <1>9. sb' = [r EXCEPT !.state = s, !.class = c] => sb'.due /\ sb'.state = s
    BY <1>1, <1>2, Zenon
  <1>10. sb' = [r EXCEPT !.state = s, !.desired = d] => sb'.due /\ sb'.state = s
    BY <1>1, <1>2, Zenon
  <1>11. sb' = [q EXCEPT !.state = "deleted", !.inst = c] => sb'.state = "deleted"
    BY <1>1, <1>2, Zenon
  <1>12. sb'.state \in T /\ (sb'.due \/ sb'.class \/ sb'.state = "deleted") => Woken
    BY Zenon DEF Woken, T
  <1>. QED BY <1>0, <1>3, <1>4, <1>5, <1>6, <1>7, <1>8, <1>9, <1>10, <1>11, <1>12, Zenon DEF r, q

(* The steps that may leave the Sandbox without a pass leave it at rest.   *)
Rests == sb'.state # "starting" /\ Rest'

(* A finished stop without a next pass leaves the Sandbox at rest.         *)
LEMMA FinishRests ==
  ASSUME LifecycleInv, NEW w \in Workers, ApplyFinishStop(w)
  PROVE  Woken \/ Rests
  <1>. DEFINE b == sb.desired # "stopped"
  <1>0. sb \in SbTypes /\ sb' = [Released(b) EXCEPT !.state = "stopped", !.gen = @ + 1, !.inst = FALSE]
    BY Zenon DEF LifecycleInv, Types, ApplyFinishStop
  <1>1. b \in BOOLEAN
    OBVIOUS
  <1>2. b => b = TRUE
    BY <1>1
  <1>. HIDE DEF b
  <1>3. sb'.state = "stopped" /\ sb'.desired = sb.desired /\ sb'.due = b
    BY <1>0, Zenon DEF SbTypes, Released
  <1>4. CASE b
    <2>1. sb'.due
      BY <1>2, <1>3, <1>4
    <2>2. sb'.state \in {sb.state} \cup (States \ {"starting"})
      BY <1>3, Zenon DEF States
    <2>. QED BY <2>1, <2>2, Zenon DEF Woken
  <1>5. CASE ~b
    <2>1. sb.desired = "stopped"
      BY <1>5, Zenon DEF b
    <2>. QED BY <1>3, <2>1, Zenon DEF Rests, Rest
  <1>. QED BY <1>4, <1>5, Zenon

(* Every step but the placing of an Instance wakes the Sandbox, leaves its *)
(* row, or leaves it at rest.                                              *)
LEMMA SbWakes ==
  ASSUME LifecycleInv, WakeInv, [Next]_vars
  PROVE  Woken \/ Rests \/ \E w \in Workers : scheduleOnce(w)
  (* A worker's steps that leave the Sandbox scheduled or the row as it is.  *)
  <1>WakesWorker. ASSUME sb \in SbTypes, NEW w \in Workers
                  PROVE  /\ Claimed(w) \/ RevisionConflict(w) \/ WorkerCrash(w) \/ RefuseSchedule(w) \/ loadStartPlan(w) => Woken
                         /\ DeferEffect(w) \/ deferUnavailableHomeRunnerStart(w) \/ ReplaySchedule(w) => Woken
                         /\ ApplyTransition(w) => Woken
                         /\ ApplyFail(w) \/ failStartPreparation(w) => Woken
                         /\ StopStep(w) => Woken
                         /\ DeleteStep(w) => Woken
    <2>. USE <1>WakesWorker
    <2>. DEFINE T == {sb.state} \cup (States \ {"starting"})
    <2>0. sb.state \in T /\ {"ready", "draining", "stopping", "failed", "deleting"} \subseteq T
      BY Zenon DEF SbTypes, States
    <2>1. Claimed(w) \/ RevisionConflict(w) \/ WorkerCrash(w) \/ RefuseSchedule(w) \/ loadStartPlan(w) => Woken
      <3>1. Claimed(w) \/ RevisionConflict(w) \/ WorkerCrash(w) \/ RefuseSchedule(w) \/ loadStartPlan(w) =>
              sb' = sb \/ sb' = [sb EXCEPT !.owner = w]
        BY Zenon DEF Claimed, ClaimLifecycle, RevisionConflict, WorkerCrash, RefuseSchedule, loadStartPlan, database
      <3>. QED BY <2>0, <3>1, RowWakes, Zenon
    <2>2. DeferEffect(w) \/ deferUnavailableHomeRunnerStart(w) \/ ReplaySchedule(w) => Woken
      <3>1. DeferEffect(w) \/ deferUnavailableHomeRunnerStart(w) \/ ReplaySchedule(w) => sb' = sb \/ sb' = Released(TRUE)
        BY Zenon DEF DeferEffect, deferUnavailableHomeRunnerStart, ReplaySchedule
      <3>. QED BY <2>0, <3>1, RowWakes, Zenon
    <2>3. ASSUME ApplyTransition(w) PROVE Woken
      <3>. DEFINE s == IF work[w].act = "mark_ready" THEN "ready" ELSE "draining"
                  d == IF work[w].act = "expire" THEN "stopped" ELSE sb.desired
      <3>1. sb' = [Released(TRUE) EXCEPT !.state = s, !.desired = IF work[w].act = "expire" THEN "stopped" ELSE @]
        BY <2>3, Zenon DEF ApplyTransition
      <3>2. Released(TRUE).desired = sb.desired /\ "desired" \in DOMAIN Released(TRUE)
        BY Zenon DEF Released, SbTypes
      <3>3. sb' = [Released(TRUE) EXCEPT !.state = s, !.desired = d]
        BY <3>1, <3>2, Zenon
      <3>4. s \in T
        BY <2>0, Zenon
      <3>. HIDE DEF s, d, T
      <3>. QED BY <3>3, <3>4, RowWakes, Zenon DEF T
    <2>4. ApplyFail(w) \/ failStartPreparation(w) => Woken
      <3>1. ApplyFail(w) \/ failStartPreparation(w) => sb' = [Released(FALSE) EXCEPT !.state = "failed", !.class = TRUE]
        BY Zenon DEF ApplyFail, failStartPreparation
      <3>2. \A s \in T : sb' = [Released(FALSE) EXCEPT !.state = s, !.class = TRUE] => Woken
        BY RowWakes, Zenon
      <3>. QED BY <2>0, <3>1, <3>2, Zenon
    <2>5. \A s \in T : sb' = [Released(TRUE) EXCEPT !.state = s] => Woken
      BY RowWakes, Zenon
    <2>6. StopStep(w) => Woken
      <3>1. StopStep(w) => \/ sb' = [Released(TRUE) EXCEPT !.state = "stopping"]
                           \/ sb' = [Released(TRUE) EXCEPT !.state = Stopping]
        BY Zenon DEF StopStep, queueStop, resumeStopEffect
      <3>2. Stopping \in T
        BY <2>0, Zenon DEF Stopping
      <3>. HIDE DEF T
      <3>. QED BY <2>0, <2>5, <3>1, <3>2, Zenon
    <2>7. DeleteStep(w) => Woken
      <3>1. DeleteStep(w) => \/ sb' = [Released(TRUE) EXCEPT !.state = "deleting"]
                             \/ sb' = Released(TRUE)
        BY Zenon DEF DeleteStep, queueWorkspaceDelete, resumeWorkspaceDeleteEffect
      <3>2. sb' = Released(TRUE) => Woken
        BY <2>0, RowWakes, Zenon
      <3>. QED BY <2>0, <2>5, <3>1, <3>2, Zenon
    <2>. QED BY <2>1, <2>2, <2>3, <2>4, <2>6, <2>7, Zenon
  (* A recorded or reconciled event wakes the Sandbox or leaves its row.     *)
  <1>WakesRecord. ASSUME sb \in SbTypes
                  PROVE  /\ TerminalStep \/ AdvanceFencedGeneration => Woken
                         /\ AssignmentStep => Woken
                         /\ recordInstanceTerminal \/ Intent => Woken
                         /\ recordLocalGenerationAdvanceResult => Woken
                         /\ recordLocalWorkspaceDeleteResult => Woken
    <2>. USE <1>WakesRecord
    <2>. DEFINE T == {sb.state} \cup (States \ {"starting"})
    <2>0. sb.state \in T /\ {"ready", "stopping", "failed", "stopped"} \subseteq T
      BY Zenon DEF SbTypes, States
    <2>1. sb' = sb \/ sb' = Released(TRUE) \/ sb' = [sb EXCEPT !.due = TRUE] => Woken
      BY <2>0, RowWakes, Zenon
    <2>2. /\ \A s \in T : sb' = [Released(FALSE) EXCEPT !.state = s, !.class = TRUE] => Woken
          /\ \A s \in T : sb' = [Released(TRUE) EXCEPT !.state = s] => Woken
          /\ \A s \in T : \A c : sb' = [Released(TRUE) EXCEPT !.state = s, !.class = c] => Woken
      <3>1. ASSUME NEW s \in T, sb' = [Released(FALSE) EXCEPT !.state = s, !.class = TRUE] PROVE Woken
        BY <3>1, RowWakes, Zenon
      <3>2. ASSUME NEW s \in T, sb' = [Released(TRUE) EXCEPT !.state = s] PROVE Woken
        BY <3>2, RowWakes, Zenon
      <3>3. ASSUME NEW s \in T, NEW c, sb' = [Released(TRUE) EXCEPT !.state = s, !.class = c] PROVE Woken
        BY <3>3, RowWakes, Zenon
      <3>. HIDE DEF T
      <3>. QED BY <3>1, <3>2, <3>3, Zenon
    <2>3. TerminalStep \/ AdvanceFencedGeneration => Woken
      <3>1. TerminalStep => sb' = [Released(FALSE) EXCEPT !.state = "failed", !.class = TRUE]
        BY Zenon DEF TerminalStep, ApplyFailTerminal
      <3>2. AdvanceFencedGeneration => sb' = [Released(TRUE) EXCEPT !.state = "stopping", !.class = FALSE]
        BY Zenon DEF AdvanceFencedGeneration
      <3>. QED BY <2>0, <2>2, <3>1, <3>2, Zenon
    <2>4. AssignmentStep => Woken
      <3>1. recordAssignmentAck \/ recordAssignmentFailed => sb' = sb \/ sb' = Released(TRUE)
        BY Zenon DEF recordAssignmentAck, recordAssignmentFailed, assignmentFails
      <3>. DEFINE s == IF Projected THEN "ready" ELSE sb.state
      <3>2. Released(TRUE).state = sb.state /\ "state" \in DOMAIN Released(TRUE)
        BY Zenon DEF Released, SbTypes
      <3>3. recordAssignmentReady =>
              sb' = sb \/ sb' = [Released(TRUE) EXCEPT !.state = IF Projected THEN "ready" ELSE @]
        BY Zenon DEF recordAssignmentReady
      <3>4. sb' = [Released(TRUE) EXCEPT !.state = IF Projected THEN "ready" ELSE @] =>
              sb' = [Released(TRUE) EXCEPT !.state = s]
        BY <3>2, Zenon
      <3>5. s \in T
        BY <2>0, Zenon
      <3>. HIDE DEF s, T
      <3>. QED BY <2>1, <2>2, <3>1, <3>3, <3>4, <3>5, Zenon DEF AssignmentStep
    <2>5. recordInstanceTerminal \/ Intent => Woken
      <3>1. recordInstanceTerminal => sb' = [sb EXCEPT !.due = TRUE]
        BY Zenon DEF recordInstanceTerminal
      <3>2. ASSUME NEW d, NEW n, sb' = [sb EXCEPT !.desired = d, !.due = TRUE, !.class = FALSE, !.issued = n]
            PROVE  Woken
        BY <2>0, <3>2, RowWakes, Zenon
      <3>3. ASSUME NEW kind \in {"start", "stop", "delete"}, NEW wait \in BOOLEAN, SetSandboxDesiredState(kind, wait)
            PROVE  Woken
        <4>. DEFINE d == CASE kind = "start" -> "running" [] kind = "stop" -> "stopped"
                           [] kind = "delete" -> "deleted"
        <4>1. sb' = [sb EXCEPT !.desired = d, !.due = TRUE, !.class = FALSE, !.issued = sb.issued + 1]
          BY <3>3, Zenon DEF SetSandboxDesiredState
        <4>. HIDE DEF d
        <4>. QED BY <3>2, <4>1, Zenon
      <3>. QED BY <2>1, <3>1, <3>3, Zenon DEF Intent
    <2>6. ASSUME recordLocalGenerationAdvanceResult PROVE Woken
      <3>. DEFINE s == IF msg.ok THEN Stopping ELSE sb.state
                  c == sb.class /\ ~msg.ok
      <3>1. /\ Released(TRUE).state = sb.state /\ Released(TRUE).class = sb.class
            /\ "state" \in DOMAIN Released(TRUE) /\ "class" \in DOMAIN Released(TRUE)
        BY Zenon DEF Released, SbTypes
      <3>2. \/ sb' = sb
            \/ sb' = [Released(TRUE) EXCEPT !.state = IF msg.ok THEN Stopping ELSE @, !.class = @ /\ ~msg.ok]
        BY <2>6, Zenon DEF recordLocalGenerationAdvanceResult
      <3>3. sb' = [Released(TRUE) EXCEPT !.state = IF msg.ok THEN Stopping ELSE @, !.class = @ /\ ~msg.ok]
              => sb' = [Released(TRUE) EXCEPT !.state = s, !.class = c]
        BY <3>1, Zenon
      <3>4. s \in T
        BY <2>0, Zenon DEF Stopping
      <3>. HIDE DEF s, c, T
      <3>. QED BY <2>1, <2>2, <3>2, <3>3, <3>4, Zenon
    <2>7. recordLocalWorkspaceDeleteResult => Woken
      <3>1. recordLocalWorkspaceDeleteResult =>
              sb' = sb \/ sb' = [Released(FALSE) EXCEPT !.state = "deleted", !.inst = FALSE]
        BY Zenon DEF recordLocalWorkspaceDeleteResult
      <3>2. sb' = [Released(FALSE) EXCEPT !.state = "deleted", !.inst = FALSE] => Woken
        BY <2>0, RowWakes, Zenon
      <3>. QED BY <2>1, <3>1, <3>2, Zenon
    <2>. QED BY <2>3, <2>4, <2>5, <2>6, <2>7, Zenon
  (* A wait without a next pass leaves the Sandbox at rest.                  *)
  <1>WaitRests. ASSUME LifecycleInv, ClaimInv, NEW w \in Workers, ApplyWait(w)
                PROVE  Woken \/ Rests
    <2>. USE <1>WaitRests
    <2>0. sb \in SbTypes /\ sb' = Released(~stateIsAtRest(sb.desired, sb.state)) /\ Holds(w, "wait")
      BY Zenon DEF LifecycleInv, Types, ApplyWait
    <2>1. ~(sb.state = "failed" /\ sb.inst) /\ work[w].fresh
      BY <2>0, Zenon DEF Holds, ClaimInv
    <2>2. sb.state # "deleted"
      BY <2>1, Zenon DEF LifecycleInv, DeletedInv
    <2>3. \A b : Released(b).state = sb.state /\ Released(b).desired = sb.desired /\ Released(b).inst = sb.inst
      BY <2>0, Zenon DEF Released, SbTypes
    <2>4. CASE ~stateIsAtRest(sb.desired, sb.state)
      <3>1. sb' = Released(TRUE)
        <4>1. (~stateIsAtRest(sb.desired, sb.state)) = TRUE
          BY <2>4
        <4>. QED BY <2>0, <4>1
      <3>2. sb.state \in {sb.state} \cup (States \ {"starting"})
        BY Zenon
      <3>. QED BY <2>0, <3>1, <3>2, RowWakes, Zenon
    <2>5. CASE stateIsAtRest(sb.desired, sb.state)
      <3>1. sb.desired = "stopped" /\ sb.state \in {"stopped", "failed"}
        BY <2>2, <2>5, Zenon DEF stateIsAtRest
      <3>2. sb'.state = sb.state /\ sb'.desired = sb.desired /\ sb'.inst = sb.inst
        BY <2>0, <2>3, Zenon
      <3>. QED BY <2>1, <3>1, <3>2, Zenon DEF Rests, Rest
    <2>. QED BY <2>4, <2>5, Zenon
  (* A start parked after its capacity wait leaves the Sandbox at rest.      *)
  <1>ParkedRests. ASSUME LifecycleInv, WakeInv, NEW w \in Workers, expireStartCapacityWait(w)
                  PROVE  Rests
    <2>. USE <1>ParkedRests
    <2>0. /\ sb \in SbTypes /\ sb' = [Released(FALSE) EXCEPT !.desired = "stopped"]
          /\ work[w].pc = "planned" /\ work[w].fresh /\ ~sb.inst
      BY Zenon DEF LifecycleInv, Types, expireStartCapacityWait, Plans, PlanCurrent
    <2>1. work[w].act = "start_instance"
      BY <2>0, Zenon DEF WakeInv, ClaimInv
    <2>2. sb.state \in {"stopped", "failed", "starting"}
      BY <2>0, <2>1, Zenon DEF WakeInv, ClaimInv
    <2>3. sb.state # "starting"
      BY <2>0, Zenon DEF WakeInv
    <2>4. sb'.state = sb.state /\ sb'.desired = "stopped" /\ sb'.inst = sb.inst
      BY <2>0, Zenon DEF Released, SbTypes
    <2>. QED BY <2>0, <2>2, <2>3, <2>4, Zenon DEF Rests, Rest
  (* A create result without a next pass leaves the Sandbox at rest.         *)
  <1>CreateRests. ASSUME sb \in SbTypes, recordLocalWorkspaceResult
                  PROVE  Woken \/ Rests
    <2>. USE <1>CreateRests
    <2>. DEFINE b == sb.desired \in {"running", "deleted"}
                T == {sb.state} \cup (States \ {"starting"})
    <2>0. sb.state \in T /\ "failed" \in T /\ "stopped" \in T
      BY Zenon DEF States
    <2>1. \/ sb' = sb
          \/ sb' = [Released(b) EXCEPT !.state = "stopped"]
          \/ \E c : sb' = [Released(c) EXCEPT !.state = "failed", !.class = TRUE]
      BY Zenon DEF recordLocalWorkspaceResult
    <2>2. sb' = sb => Woken
      BY <2>0, RowWakes, Zenon
    <2>3. ASSUME NEW c, sb' = [Released(c) EXCEPT !.state = "failed", !.class = TRUE] PROVE Woken
      <3>1. \A s \in T : sb' = [Released(c) EXCEPT !.state = s, !.class = TRUE] => Woken
        BY RowWakes, Zenon
      <3>. QED BY <2>0, <2>3, <3>1, Zenon
    <2>4. ASSUME sb' = [Released(b) EXCEPT !.state = "stopped"] PROVE Woken \/ Rests
      <3>1. b \/ sb.desired = "stopped"
        BY DEF SbTypes, Desired
      <3>2. b => b = TRUE
        OBVIOUS
      <3>. HIDE DEF b
      <3>3. sb'.state = "stopped" /\ sb'.desired = sb.desired /\ sb'.due = b
        BY <2>4, Zenon DEF SbTypes, Released
      <3>4. CASE b
        <4>1. sb'.due
          BY <3>2, <3>3, <3>4
        <4>. QED BY <2>0, <3>3, <4>1, Zenon DEF Woken
      <3>5. CASE sb.desired = "stopped"
        BY <3>3, <3>5, Zenon DEF Rests, Rest
      <3>. QED BY <3>1, <3>4, <3>5, Zenon
    <2>. HIDE DEF b
    <2>. QED BY <2>1, <2>2, <2>3, <2>4, Zenon
  <1>0. sb \in SbTypes /\ ClaimInv
    BY Zenon DEF LifecycleInv, Types, WakeInv
  <1>1. sb' = sb => Woken
    <2>1. sb.state \in {sb.state} \cup (States \ {"starting"})
      BY Zenon
    <2>. QED BY <1>0, <2>1, RowWakes, Zenon
  <1>2. ASSUME NEW w \in Workers, Worker(w) \/ WorkerCrash(w) \/ EndStart(w)
        PROVE  Woken \/ Rests \/ scheduleOnce(w)
    BY <1>0, <1>2, <1>WakesWorker, <1>WaitRests, FinishRests, <1>ParkedRests, Zenon
       DEF Worker, StopStep, DeleteStep, Claimed, EndStart
  <1>3. Reconciler => Woken
    BY <1>0, <1>1, Aside, <1>WakesRecord, Zenon DEF Reconciler, FenceStep, TerminalStep
  <1>4. RecordEvent => Woken \/ Rests
    BY <1>0, <1>1, Aside, <1>WakesRecord, <1>CreateRests, Zenon DEF RecordEvent, AssignmentStep, Loss, RefuseStep
  <1>5. Environment => Woken \/ \E w \in Workers : WorkerCrash(w) \/ EndStart(w)
    BY <1>0, <1>1, Aside, <1>WakesRecord, Zenon DEF Environment, EndStart, Loss, Intent
  <1>6. UNCHANGED vars \/ Runner \/ OpenConnection \/ ClaimCommands => Woken
    BY <1>1, Aside, Zenon
  <1>. QED BY <1>2, <1>3, <1>4, <1>5, <1>6, Zenon DEF Next

(* Evidence owed stays owed until a step schedules the Sandbox.            *)
LEMMA OwedKept ==
  ASSUME LifecycleInv, [Next]_vars, Owed, Unscheduled', sb'.inst = sb.inst
  PROVE  Owed'
  (* Steps that end what an Assignment is owed schedule or fail the Sandbox. *)
  <1>Wakers. ASSUME sb \in SbTypes
             PROVE  /\ TerminalStep => ~Unscheduled'
                    /\ AdvanceFencedGeneration => ~Unscheduled'
                    /\ recordAssignmentReady /\ asg.state \in {"assigned", "starting"} => ~Unscheduled'
                    /\ \A w \in Workers : StopStep(w) => ~Unscheduled'
    <2>. USE <1>Wakers
    <2>1. ASSUME NEW s, sb' = [Released(TRUE) EXCEPT !.state = s] PROVE ~Unscheduled'
      <3>1. sb'.due
        BY <2>1, Zenon DEF Released, SbTypes
      <3>. QED BY <3>1, Zenon DEF Unscheduled
    <2>2. TerminalStep => ~Unscheduled'
      <3>1. TerminalStep => sb' = [Released(FALSE) EXCEPT !.state = "failed", !.class = TRUE]
        BY Zenon DEF TerminalStep, ApplyFailTerminal
      <3>2. sb' = [Released(FALSE) EXCEPT !.state = "failed", !.class = TRUE] => sb'.class
        BY Zenon DEF Released, SbTypes
      <3>. QED BY <3>1, <3>2, Zenon DEF Unscheduled
    <2>3. AdvanceFencedGeneration => ~Unscheduled'
      <3>1. AdvanceFencedGeneration => sb' = [Released(TRUE) EXCEPT !.state = "stopping", !.class = FALSE]
        BY Zenon DEF AdvanceFencedGeneration
      <3>2. sb' = [Released(TRUE) EXCEPT !.state = "stopping", !.class = FALSE] => sb'.due
        BY Zenon DEF Released, SbTypes
      <3>. QED BY <3>1, <3>2, Zenon DEF Unscheduled
    <2>4. recordAssignmentReady /\ asg.state \in {"assigned", "starting"} => ~Unscheduled'
      <3>. DEFINE s == IF Projected THEN "ready" ELSE sb.state
      <3>1. Released(TRUE).state = sb.state /\ "state" \in DOMAIN Released(TRUE)
        BY Zenon DEF Released, SbTypes
      <3>2. recordAssignmentReady /\ asg.state \in {"assigned", "starting"} =>
              sb' = [Released(TRUE) EXCEPT !.state = IF Projected THEN "ready" ELSE @]
        BY Zenon DEF recordAssignmentReady
      <3>3. sb' = [Released(TRUE) EXCEPT !.state = IF Projected THEN "ready" ELSE @] =>
              sb' = [Released(TRUE) EXCEPT !.state = s]
        BY <3>1, Zenon
      <3>. HIDE DEF s
      <3>. QED BY <2>1, <3>2, <3>3, Zenon
    <2>5. ASSUME NEW w \in Workers, StopStep(w) PROVE ~Unscheduled'
      <3>1. \/ sb' = [Released(TRUE) EXCEPT !.state = "stopping"]
            \/ sb' = [Released(TRUE) EXCEPT !.state = Stopping]
        BY <2>5, Zenon DEF StopStep, queueStop, resumeStopEffect
      <3>. QED BY <2>1, <3>1, Zenon
    <2>. QED BY <2>2, <2>3, <2>4, <2>5, Zenon
  <1>0. Types /\ InstanceInv /\ WorkspaceInv /\ PlanInv /\ sb \in SbTypes
    BY Zenon DEF LifecycleInv, Types
  <1>1. AsgChange /\ \A e \in StopEffects : StopChange(e)
    BY <1>0, AsgDelta, StopDelta, Zenon
  <1>2. \A w \in Workers : ~ApplyFinishStop(w) /\ ~scheduleOnce(w) /\ ~StopStep(w)
    <2>1. ASSUME NEW w \in Workers, ApplyFinishStop(w) PROVE FALSE
      BY <1>0, <2>1, FinishRow, Zenon
    <2>2. ASSUME NEW w \in Workers, scheduleOnce(w) PROVE FALSE
      BY <1>0, <2>2, PlacedRow, Zenon
    <2>3. ASSUME NEW w \in Workers, StopStep(w) PROVE FALSE
      BY <1>0, <2>3, <1>Wakers, Zenon
    <2>. QED BY <2>1, <2>2, <2>3, Zenon
  <1>3. ~TerminalStep /\ ~AdvanceFencedGeneration
        /\ ~(recordAssignmentReady /\ asg.state \in {"assigned", "starting"})
    BY <1>0, <1>Wakers, Zenon
  <1>4. recordFenceStopped => asg'.state = "fenced"
    <2>1. Authority = {}
      BY Zenon DEF Owed, Authority
    <2>2. recordFenceStopped => asg' = [asg EXCEPT !.state = "fenced"]
      BY <2>1, Zenon DEF recordFenceStopped
    <2>. QED BY <1>0, <2>2, AsgRecord, Zenon DEF Types
  <1>5. asg'.state \in {"assigned", "starting", "uncertain", "failed", "fencing", "fenced"}
    BY <1>1, <1>2, <1>3, <1>4, Zenon DEF AsgChange, Owed
  <1>6. ASSUME NEW e \in StopEffects PROVE stop'[e].state # "queued"
    <2>1. stop[e].state # "queued"
      BY Zenon DEF Owed
    <2>2. StopChange(e)
      BY <1>1, Zenon
    <2>. QED BY <1>2, <1>3, <2>1, <2>2, Zenon DEF StopChange, StopSame
  <1>. QED BY <1>5, <1>6, Zenon DEF Owed

(* A current claim was decided on the row as it is.                        *)
LEMMA ClaimsKept ==
  ASSUME LifecycleInv, ClaimInv, KeptStep
  PROVE  ClaimInv'
  (* What a waiting and a starting decision say of the row.                  *)
  <1>DecidedRow. ASSUME NEW v, v.desired \in Desired
                 PROVE  /\ Decide(v) = "wait" => ~(v.observed = "failed" /\ v.inst)
                        /\ Decide(v) = "start_instance" => v.observed \in {"stopped", "failed", "starting"}
    <2>. USE <1>DecidedRow
    <2>1. decideStopping(v) # "start_instance"
      BY DEF decideStopping
    <2>2. decideRunning(v) = "start_instance" => v.observed \in {"stopped", "failed", "starting"}
      BY DEF decideRunning
    <2>3. decideStopped(v) # "start_instance"
      BY DEF decideStopped
    <2>4. decideDeleted(v) # "start_instance"
      BY DEF decideDeleted
    <2>5. Decide(v) = "wait" => ~(v.observed = "failed" /\ v.inst)
      BY DEF Decide
    <2>6. \/ Decide(v) \in {"wait", "stop_instance"} \/ Decide(v) = decideStopping(v)
          \/ Decide(v) = decideDeleted(v) \/ Decide(v) = decideStopped(v)
          \/ Decide(v) = decideRunning(v)
      BY DEF Decide, Desired
    <2>. QED BY <2>1, <2>2, <2>3, <2>4, <2>5, <2>6, Zenon
  (* What a new claim says of the row it was decided on.                     *)
  <1>ClaimRow. ASSUME Types, NEW w \in Workers, Claimed(w)
               PROVE  /\ work'[w].act = "wait" => ~(sb.state = "failed" /\ sb.inst)
                      /\ work'[w].act = "start_instance" => sb.state \in {"stopped", "failed", "starting"}
    <2>. USE <1>ClaimRow
    <2>0. sb \in SbTypes /\ work \in [Workers -> WorkTypes]
      BY Zenon DEF Types
    <2>1. PICK x \in BOOLEAN, y \in BOOLEAN : ClaimLifecycle(w, x, y)
      BY Zenon DEF Claimed
    <2>. DEFINE v == View(x, y)
                a == Decide(v)
                n == [Idle EXCEPT !.pc = "claimed", !.act = a, !.fresh = TRUE]
    <2>2. v.desired = sb.desired /\ v.observed = sb.state /\ v.inst = sb.inst
      BY DEF View
    <2>3. sb.desired \in Desired
      BY <2>0, Zenon DEF SbTypes
    <2>4. work' = [work EXCEPT ![w] = n]
      BY <2>1, Zenon DEF ClaimLifecycle
    <2>. HIDE DEF v
    <2>5. /\ a = "wait" => ~(sb.state = "failed" /\ sb.inst)
          /\ a = "start_instance" => sb.state \in {"stopped", "failed", "starting"}
      BY <2>2, <2>3, <1>DecidedRow, Zenon
    <2>. HIDE DEF a
    <2>6. n.act = a
      BY IdleTypes, Zenon DEF WorkTypes
    <2>. HIDE DEF n
    <2>7. work'[w] = n
      BY <2>0, <2>4, Zenon
    <2>. QED BY <2>5, <2>6, <2>7, Zenon
  <1>0. Types /\ sb'.inst = sb.inst
    BY Zenon DEF LifecycleInv, KeptStep, SbKept
  <1>. DEFINE P(v) == /\ work'[v].pc = "planned" => work'[v].act = "start_instance"
                      /\ work'[v].fresh /\ work'[v].act = "wait" => ~(sb'.state = "failed" /\ sb'.inst)
                      /\ work'[v].fresh /\ work'[v].act = "start_instance" =>
                           sb'.state \in {"stopped", "failed", "starting"}
  <1>1. ASSUME NEW v \in Workers
        PROVE  /\ work[v].pc = "planned" => work[v].act = "start_instance"
               /\ work[v].fresh /\ work[v].act = "wait" => ~(sb.state = "failed" /\ sb.inst)
               /\ work[v].fresh /\ work[v].act = "start_instance" => sb.state \in {"stopped", "failed", "starting"}
    BY Zenon DEF ClaimInv
  <1>2. ASSUME Dismissed, NEW v \in Workers PROVE P(v)
    <2>1. ~work'[v].fresh /\ (work'[v].pc = "idle" \/ (work'[v].pc = work[v].pc /\ work'[v].act = work[v].act))
      BY <1>2, Zenon DEF Dismissed
    <2>. QED BY <1>1, <2>1, Zenon
  <1>3. ASSUME Calm, NEW v \in Workers, work'[v] = work[v] PROVE P(v)
    BY <1>0, <1>1, <1>3, Zenon DEF Calm
  <1>4. ASSUME WorkIdle \/ work' = work, Calm, NEW v \in Workers PROVE P(v)
    <2>1. CASE work'[v] = work[v]
      BY <1>3, <1>4, <2>1
    <2>2. CASE work'[v] = Idle
      <3>1. work'[v].pc = "idle" /\ ~work'[v].fresh
        BY <2>2, IdleTypes, Zenon
      <3>. QED BY <3>1, Zenon
    <2>. QED BY <1>0, <1>4, <2>1, <2>2, IdleEffects, Zenon
  <1>5. ASSUME NEW w \in Workers, Claimed(w), NEW v \in Workers PROVE P(v)
    <2>1. Calm /\ work'[w].pc = "claimed" /\ \A u \in Workers \ {w} : work'[u] = work[u]
      BY <1>0, <1>5, ClaimEffects, Zenon
    <2>2. CASE v = w
      <3>1. P(w)
        BY <1>0, <1>5, <2>1, <1>ClaimRow, Zenon DEF Calm
      <3>. QED BY <2>2, <3>1
    <2>3. CASE v # w
      <3>1. work'[v] = work[v]
        BY <2>1, <2>3, Zenon
      <3>. QED BY <1>3, <2>1, <3>1
    <2>. QED BY <2>2, <2>3
  <1>6. ASSUME NEW w \in Workers, loadStartPlan(w), NEW v \in Workers PROVE P(v)
    <2>1. /\ Calm /\ \A u \in Workers \ {w} : work'[u] = work[u]
          /\ work[w].act = "start_instance" /\ work'[w].act = work[w].act /\ work'[w].fresh = work[w].fresh
      BY <1>0, <1>6, PlanEffects, Zenon DEF Calm
    <2>2. CASE v = w
      <3>1. P(w)
        BY <1>0, <1>1, <2>1, Zenon DEF Calm
      <3>. QED BY <2>2, <3>1
    <2>3. CASE v # w
      <3>1. work'[v] = work[v]
        BY <2>1, <2>3, Zenon
      <3>. QED BY <1>3, <2>1, <3>1
    <2>. QED BY <2>2, <2>3
  <1>7. \A v \in Workers : P(v)
    <2>1. CASE Outcome
      BY <1>2, <1>4, <2>1 DEF Outcome
    <2>2. CASE \E w \in Workers : Claimed(w) \/ loadStartPlan(w)
      BY <1>5, <1>6, <2>2
    <2>. QED BY <2>1, <2>2, WorkStep, Zenon
  <1>. QED BY <1>7, Zenon DEF ClaimInv

(* Every step preserves the wakeup invariant.                              *)
LEMMA WakeKept ==
  ASSUME LifecycleInv, WakeInv, [Next]_vars
  PROVE  WakeInv'
  <1>0. Types /\ InstanceInv /\ WorkspaceInv /\ PlanInv /\ ClaimInv /\ sb \in SbTypes
    BY Zenon DEF LifecycleInv, Types, WakeInv
  <1>1. ASSUME NEW w \in Workers, scheduleOnce(w) PROVE WakeInv'
    <2>1. Assigned /\ Unplaced /\ Dismissed
      BY <1>1, PlaceEffects, Zenon
    <2>2. sb'.inst
      BY <2>1, Zenon DEF Assigned
    <2>3. ClaimInv'
      BY <1>0, <2>1, Zenon DEF Dismissed, ClaimInv
    <2>4. Owed'
      BY <2>1, Zenon DEF Owed, Assigned, Unplaced
    <2>. QED BY <2>2, <2>3, <2>4, Zenon DEF WakeInv
  <1>2. ASSUME NEW w \in Workers, ApplyFinishStop(w) PROVE WakeInv'
    <2>1. Dismissed /\ Retired
      BY <1>2, FinishEffects, Zenon
    <2>2. sb'.state = "stopped" /\ sb'.inst # sb.inst
      BY <2>1, Zenon DEF Retired
    <2>3. ClaimInv'
      BY <1>0, <2>1, Zenon DEF Dismissed, ClaimInv
    <2>4. Woken \/ Rests
      BY <1>2, FinishRests, Zenon
    <2>5. Unscheduled' => Rest'
      BY <2>2, <2>4, Zenon DEF Woken, RowSame, Rests, Unscheduled
    <2>. QED BY <2>2, <2>3, <2>5, Zenon DEF WakeInv
  <1>3. ASSUME ~\E w \in Workers : ApplyFinishStop(w) \/ scheduleOnce(w) PROVE WakeInv'
    <2>1. SbKept /\ KeptStep
      BY <1>0, <1>3, Identity, Zenon DEF KeptStep
    <2>2. ClaimInv'
      BY <1>0, <2>1, ClaimsKept, Zenon
    <2>3. Woken \/ Rests
      BY <1>3, SbWakes, Zenon
    <2>4. sb'.state = "starting" => sb'.inst
      <3>1. sb'.state = "starting" => sb.state = "starting"
        BY <2>3, Zenon DEF Woken, Rests
      <3>. QED BY <2>1, <3>1, Zenon DEF SbKept, WakeInv
    <2>5. ASSUME Unscheduled' PROVE Rest' \/ Owed'
      <3>1. CASE Rests
        BY <3>1, Zenon DEF Rests
      <3>2. CASE Woken
        <4>1. RowSame
          BY <2>5, <3>2, Zenon DEF Woken, Unscheduled
        <4>2. Unscheduled
          BY <2>5, <4>1, Zenon DEF Unscheduled, RowSame
        <4>3. Rest => Rest'
          BY <4>1, Zenon DEF Rest, RowSame
        <4>4. Owed => Owed'
          BY <2>5, <4>1, OwedKept, Zenon DEF RowSame
        <4>. QED BY <4>2, <4>3, <4>4, Zenon DEF WakeInv
      <3>. QED BY <2>3, <3>1, <3>2, Zenon
    <2>. QED BY <2>2, <2>4, <2>5, Zenon DEF WakeInv
  <1>. QED BY <1>1, <1>2, <1>3, Zenon

(***************************************************************************)
(* No wakeup is lost.  A Sandbox that no pass is scheduled for, and that   *)
(* has no failure class, is one for which Decide would only wait, or whose *)
(* Assignment is still owed evidence: whatever finish_stop, a wait, a      *)
(* parked start and the recorded results release without a next pass, no   *)
(* other step can leave work behind unseen.                                *)
(***************************************************************************)

THEOREM WakeupsKept ==
  Spec => []NoLostWakeup
  <1>1. Init => WakeInv
    <2>1. Init => sb.state = "creating"
      BY DEF Init
    <2>2. Init => work = [w \in Workers |-> Idle]
      BY Zenon DEF Init
    <2>3. Init => ClaimInv
      BY <2>2, IdleTypes, Zenon DEF ClaimInv
    <2>. QED BY <2>1, <2>3, Zenon DEF WakeInv, Unscheduled
  <1>2. ASSUME LifecycleInv, WakeInv PROVE NoLostWakeup
    <2>1. ASSUME Rest, NEW b \in BOOLEAN PROVE Decide(View(FALSE, b)) = "wait"
      <3>. DEFINE v == View(FALSE, b)
      <3>1. v.desired = sb.desired /\ v.observed = sb.state /\ v.inst = sb.inst
        BY DEF View
      <3>. HIDE DEF v
      <3>2. v.desired = "stopped" /\ (v.observed = "stopped" \/ (v.observed = "failed" /\ ~v.inst))
        BY <2>1, <3>1, Zenon DEF Rest
      <3>3. Decide(v) = "wait"
        BY <3>2 DEF Decide, decideStopped
      <3>. QED BY <3>3, Zenon DEF v
    <2>. QED BY <1>2, <2>1, Zenon DEF WakeInv, NoLostWakeup, Quiescent, Owed
  <1>3. LifecycleInv /\ WakeInv /\ [Next]_vars => WakeInv'
    BY WakeKept, Zenon
  <1>. QED BY <1>1, <1>2, <1>3, Invariance, PTL DEF Spec

=============================================================================
