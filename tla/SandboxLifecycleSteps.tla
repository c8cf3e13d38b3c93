----------------------- MODULE SandboxLifecycleSteps -----------------------
(***************************************************************************)
(* What each kind of step of a Sandbox's lifecycle writes: the inductive   *)
(* invariant, one lemma per variable that says how any step may change it, *)
(* how a generation ends and gets its Assignment, and where commands,      *)
(* deliveries and evidence come from.                                      *)
(***************************************************************************)
EXTENDS SandboxLifecycle, TLAPS

Elems(s) == {s[i] : i \in DOMAIN s}
Contents(R) == {Content(c) : c \in R}
Rows == Contents(cmds)
Down == Elems(link.down)
Evidence == Elems(link.in)

CommandKinds == {"assignment", "fence", "lifecycle_fence", "advance", "create", "delete"}
EventKinds == {"ack", "result", "fence", "advance", "create", "delete", "heartbeat", "terminal"}
Effects == {"none"} \cup StopEffects
Deliveries == [kind : CommandKinds, gen : Generations, effect : Effects]
Events == [kind : EventKinds, gen : 0 .. MaxGeneration, effect : Effects,
           cmd : CommandKinds \cup {"none"}, ok : BOOLEAN]

(* What a sequence holds is of its element type.                           *)
LEMMA ElemsIn ==
  ASSUME NEW S, NEW s \in Seq(S)
  PROVE  Elems(s) \subseteq S
  BY DEF Elems

(* Taking the head of a queue: it was in the queue, and nothing is added.  *)
LEMMA HeadIn ==
  ASSUME NEW S, NEW s \in Seq(S), s # <<>>
  PROVE  /\ Head(s) \in S /\ Head(s) \in Elems(s) /\ Tail(s) \in Seq(S)
         /\ Elems(Tail(s)) \subseteq Elems(s)
  <1>1. Head(s) = s[1] /\ 1 \in DOMAIN s /\ Tail(s) \in Seq(S) /\ s[1] \in S
    OBVIOUS
  <1>2. \A i \in DOMAIN Tail(s) : i + 1 \in DOMAIN s /\ Tail(s)[i] = s[i + 1]
    OBVIOUS
  <1>3. Elems(Tail(s)) \subseteq Elems(s)
    BY <1>2, Zenon DEF Elems
  <1>. QED BY <1>1, <1>3, Zenon DEF Elems

(* Appending to a queue adds exactly the appended element.                 *)
LEMMA AppendIn ==
  ASSUME NEW S, NEW s \in Seq(S), NEW x \in S
  PROVE  Append(s, x) \in Seq(S) /\ Elems(Append(s, x)) = Elems(s) \cup {x}
  <1>1. Append(s, x) \in Seq(S)
    OBVIOUS
  <1>2. Elems(Append(s, x)) \subseteq Elems(s) \cup {x}
    BY DEF Elems
  <1>3. x \in Elems(Append(s, x))
    <2>1. Len(s) + 1 \in DOMAIN Append(s, x) /\ Append(s, x)[Len(s) + 1] = x
      OBVIOUS
    <2>. QED BY <2>1 DEF Elems
  <1>4. ASSUME NEW y \in Elems(s) PROVE y \in Elems(Append(s, x))
    <2>1. PICK i \in DOMAIN s : y = s[i]
      BY DEF Elems
    <2>2. i \in DOMAIN Append(s, x) /\ Append(s, x)[i] = y
      BY <2>1
    <2>. QED BY <2>2 DEF Elems
  <1>. QED BY <1>1, <1>2, <1>3, <1>4

(* The content of a command row keeps its kind, generation and effect.     *)
LEMMA ContentFields ==
  ASSUME NEW c
  PROVE  Content(c).kind = c.kind /\ Content(c).gen = c.gen /\ Content(c).effect = c.effect
  BY DEF Content

(* Renumbering the rows changes no content.                                *)
LEMMA RankedContents ==
  ASSUME NEW R
  PROVE  Contents(Ranked(R)) = Contents(R)
  <1>1. \A c, a, b : Content(Row(c, a, b)) = Content(c)
    BY DEF Content, Row
  <1>2. ASSUME NEW c \in R PROVE Content(c) \in Contents(Ranked(R))
    <2>. DEFINE rank == Cardinality({d \in R : d.at <= c.at})
    <2>1. Row(c, rank, c.sent) \in Ranked(R)
      BY Zenon DEF Ranked
    <2>2. Content(Row(c, rank, c.sent)) = Content(c)
      BY <1>1, Zenon
    <2>. QED BY <2>1, <2>2, Zenon DEF Contents
  <1>3. ASSUME NEW r \in Ranked(R) PROVE Content(r) \in Contents(R)
    <2>1. PICK c \in R : r = Row(c, Cardinality({d \in R : d.at <= c.at}), c.sent)
      BY Zenon DEF Ranked
    <2>. QED BY <1>1, <2>1, Zenon DEF Contents
  <1>. QED BY <1>2, <1>3, Zenon DEF Contents

(* enqueueCommand adds one content and removes none.                       *)
LEMMA QueuedContents ==
  ASSUME NEW R, NEW k, NEW e
  PROVE  Contents(Queued(R, Command(k, e))) = Contents(R) \cup {Command(k, e)}
  <1>1. \A a : Content(Row(Command(k, e), a, FALSE)) = Command(k, e)
    BY DEF Content, Row, Command
  <1>. QED BY <1>1, Zenon DEF Contents, Queued

(***************************************************************************)
(* The inductive invariant.  Fences, assignments and advances are those of *)
(* the current generation; what earlier ones left behind is harmless.      *)
(***************************************************************************)
SbTypes == [desired : Desired, state : States, gen : Generations, inst : BOOLEAN,
            owner : Workers \cup {Nobody}, due : BOOLEAN, class : BOOLEAN,
            issued : 1 .. MaxOperations]
SlotTypes == [kind : {"none", "create", "start", "stop", "delete"},
              state : {"none", "queued", "assigned", "stopping", "advancing",
                       "runner_succeeded", "failed", "deleting"},
              effect : {"none", "live", "acknowledged", "expired"} \cup StopEffects,
              op : 0 .. MaxOperations]
AsgTypes == [state : {"none", "assigned", "starting", "ready", "uncertain", "failed",
                      "fencing", "fenced", "released", "failed_terminal"},
             class : {"none", "transient", "other", "fencing", "startup_timeout"},
             retries : 0 .. FenceRetryLimit]
StopTypes == [StopEffects -> [state : EffectStates, cmd : {"none", "fence", "advance"},
                              left : 0 .. StopRetryLimit]]
WorkTypes == [pc : {"idle", "claimed", "planned"}, act : Actions, fresh : BOOLEAN,
              gen : 0 .. MaxGeneration, op : 0 .. MaxOperations, wait : BOOLEAN]
OpsTypes == [kind : {"create", "start", "stop", "delete"}, n : 1 .. MaxOperations, wait : BOOLEAN]
RnTypes == [run : 0 .. MaxGeneration, starting : 0 .. MaxGeneration,
            active : 0 .. MaxGeneration, exited : BOOLEAN, manifest : 0 .. MaxGeneration,
            receipts : SUBSET (Effects \X Generations)]

Types ==
  /\ sb \in SbTypes /\ slot \in SlotTypes /\ asg \in AsgTypes /\ stop \in StopTypes
  /\ ws \in {"creating", "ready", "failed", "deleting", "deleted"}
  /\ live \in {"none", "starting", "ready", "stopped", "lost"}
  /\ fx \in [create : {"queued", "succeeded", "runner_failed"},
             delete : {"none", "queued", "succeeded", "runner_failed"}]
  /\ ops \subseteq OpsTypes /\ \A o \in ops : o.n <= sb.issued /\ (o.wait => o.kind = "start")
  /\ Rows \subseteq Deliveries
  /\ work \in [Workers -> WorkTypes]
  /\ link \in [up : BOOLEAN, down : Seq(Deliveries), in : Seq(Events)]
  /\ rn \in RnTypes
  /\ faults \in 0 .. MaxFaults

(* No command or evidence is of a generation to come. *)
GenInv == \A m \in Rows \cup Down \cup Evidence : m.gen <= sb.gen

FenceKinds == {"fence", "lifecycle_fence"}
Placed == {"assignment", "fence", "lifecycle_fence", "advance"}
Placements == {"ack", "result", "fence", "advance"}
Undecided == {"assigned", "starting", "failed"}

Asked(kinds) == \E c \in Rows : c.kind \in kinds /\ c.gen = sb.gen
Sent(kinds) == \E c \in Down : c.kind \in kinds /\ c.gen = sb.gen
Heard(kinds) == \E m \in Evidence : m.kind \in kinds /\ m.gen = sb.gen

InstanceInv ==
  /\ sb.inst <=> asg.state # "none"
  /\ sb.inst => ws = "ready" /\ sb.gen < MaxGeneration
  /\ \A e \in StopEffects : (~sb.inst => stop[e].state = "none")
                            /\ (stop[e].state = "none" => stop[e].cmd = "none")
  /\ slot.kind = "stop" => sb.inst /\ slot.effect \in StopEffects

WorkspaceInv ==
  /\ ws = "creating" <=> fx.create = "queued"
  /\ ws = "creating" => slot.kind = "create" /\ sb.gen = 1 /\ rn.manifest <= 1
  /\ ws = "creating" => \A m \in Evidence : m.kind = "create" /\ m.ok => rn.manifest = 1
  /\ \A c \in Rows \cup Down : c.kind = "delete" => ws \in {"deleting", "deleted"}

PlanInv ==
  \A w \in Workers :
    /\ work[w].pc = "claimed" /\ work[w].act = "start_instance" /\ sb.owner = w
         => sb.gen < MaxGeneration
    /\ work[w].pc = "planned" /\ work[w].gen = sb.gen => sb.gen < MaxGeneration
    /\ work[w].gen <= sb.gen

CurrentInv == Asked(Placed) \/ Sent(Placed) \/ Heard(Placements) => sb.inst

(* While the start is undecided nobody asked for a fence. *)
NotFencing == ~Asked(FenceKinds) /\ ~Sent(FenceKinds) /\ ~Heard({"fence"})
StartHeld == slot.kind = "start" /\ slot.state = "assigned"
StartInv ==
  /\ asg.state \in Undecided => StartHeld /\ NotFencing
  /\ \A c \in Rows : c.kind = "assignment" =>
       /\ c.gen = sb.gen /\ asg.state \in {"assigned", "starting", "uncertain"}
       /\ StartHeld /\ NotFencing

(* An assignment the Runner has yet to take came before any fence. *)
OrderInv ==
  /\ \A c \in Down : c.kind = "assignment" => c.gen = sb.gen
  /\ \A i, j \in DOMAIN link.down :
       i < j /\ link.down[i].kind \in FenceKinds /\ link.down[i].gen = sb.gen
         => link.down[j].kind # "assignment"

RunInv ==
  /\ rn.active <= sb.gen
  /\ rn.starting # 0 => rn.starting = sb.gen /\ sb.inst
  /\ rn.run # 0 => rn.run = sb.gen /\ rn.manifest = sb.gen /\ rn.active = sb.gen /\ sb.inst

(* Compute is stopped and nothing can start it again. *)
Quiet == /\ rn.run = 0 /\ rn.starting = 0
         /\ \A c \in Rows \cup Down : c.kind # "assignment"
Proof(m) == m.kind = "fence" /\ m.ok /\ m.gen = sb.gen
QuietInv ==
  /\ asg.state \in {"none", "fenced", "released"} => Quiet
  /\ \A e \in StopEffects : stop[e].cmd = "advance" => Quiet /\ asg.state \notin Undecided
  /\ \A m \in Evidence : Proof(m) => Quiet

AdvanceInv ==
  /\ \A c \in Rows \cup Down \cup Evidence :
       c.kind = "advance" /\ c.gen = sb.gen =>
         c.effect \in StopEffects /\ stop[c.effect].cmd = "advance"
  /\ \A m \in Evidence :
       m.kind = "advance" /\ m.ok /\ m.gen = sb.gen => <<m.effect, m.gen>> \in rn.receipts
  /\ \A e \in StopEffects : stop[e].state = "runner_succeeded" => <<e, sb.gen>> \in rn.receipts

ReceiptInv ==
  /\ \A e \in StopEffects, g \in Generations : <<e, g>> \in rn.receipts =>
       g < rn.manifest /\ (ws = "ready" /\ g = sb.gen => stop[e].cmd = "advance")
  /\ ws = "ready" =>
       \/ rn.manifest = sb.gen
       \/ rn.manifest = sb.gen + 1 /\ \E e \in StopEffects : <<e, sb.gen>> \in rn.receipts

EffectInv ==
  /\ \A e \in StopEffects : stop[e].state = "queued" =>
       /\ slot.kind = "stop" /\ slot.effect = e /\ asg.state # "fenced"
       /\ stop[e].cmd = "advance" => Command("advance", e) \in Rows
       /\ stop[e].cmd # "advance" => Command("lifecycle_fence", "stop") \in Rows
  /\ slot.kind = "stop" => stop[slot.effect].state # "none"
  /\ \A m \in Evidence : m.kind = "fence" => m.cmd \in FenceKinds
  /\ fx.delete # "none" => ws = IF fx.delete = "succeeded" THEN "deleted" ELSE "deleting"
  /\ fx.delete = "queued" => Command("delete", "none") \in Rows
  /\ fx.create = "queued" => Command("create", "none") \in Rows

DeletedInv ==
  /\ sb.state = "deleted" => sb.desired = "deleted" /\ ws = "deleted"
  /\ \A w \in Workers :
       /\ work[w].fresh => sb.state # "deleted"
       /\ work[w].fresh /\ work[w].act \in {"expire", "mark_ready"} => sb.desired = "running"

LifecycleInv ==
  /\ Types /\ GenInv /\ InstanceInv /\ WorkspaceInv /\ PlanInv /\ CurrentInv /\ StartInv
  /\ OrderInv /\ RunInv /\ QuietInv /\ AdvanceInv /\ ReceiptInv /\ EffectInv /\ DeletedInv

(***************************************************************************)
(* Which steps change what.                                                *)
(***************************************************************************)
StopStep(w) == queueStop(w) \/ \E passed \in BOOLEAN : resumeStopEffect(w, passed)
DeleteStep(w) ==
  queueWorkspaceDelete(w) \/ \E passed \in BOOLEAN : resumeWorkspaceDeleteEffect(w, passed)
EndStart(w) == failStartPreparation(w) \/ expireStartCapacityWait(w)
FenceStep == \E late \in BOOLEAN : ApplyFence(late)
TerminalStep == \E late \in BOOLEAN : ApplyFailTerminal(late)
Intent == \E kind \in {"start", "stop", "delete"}, wait \in BOOLEAN : SetSandboxDesiredState(kind, wait)
AssignmentStep == recordAssignmentAck \/ recordAssignmentReady \/ recordAssignmentFailed
WorkspaceResult ==
  recordLocalGenerationAdvanceResult \/ recordLocalWorkspaceResult \/ recordLocalWorkspaceDeleteResult
RefuseStep ==
  RefuseAssignmentEvent \/ RefuseFenceEvent \/ RefuseLocalWorkspaceResult \/ RefuseInstanceTerminal
Loss == CloseConnection \/ RefuseStep
RecordStep ==
  \/ AssignmentStep \/ recordFenceStopped \/ recordFenceFailed \/ acknowledgeRedundantFenceResult
  \/ WorkspaceResult \/ recordInstanceTerminal \/ reconcileRunnerActiveAssignments

Bookkeeping == UNCHANGED <<ws, slot, asg, stop, fx, cmds, link, rn>>
RowStep ==
  \/ \E w \in Workers : StopStep(w) \/ DeleteStep(w) \/ scheduleOnce(w)
  \/ FenceStep \/ ApplyRetry \/ TerminalStep \/ AdvanceFencedGeneration
  \/ OpenConnection \/ ClaimCommands
  \/ AssignmentStep \/ recordFenceStopped \/ acknowledgeRedundantFenceResult \/ WorkspaceResult
SlotStep ==
  \/ \E w \in Workers : ApplyFinishStop(w) \/ StopStep(w) \/ DeleteStep(w) \/ scheduleOnce(w) \/ EndStart(w)
  \/ FenceStep \/ ApplyRetry \/ TerminalStep \/ AdvanceFencedGeneration
  \/ AssignmentStep \/ recordFenceStopped \/ WorkspaceResult \/ Intent
AsgStep ==
  \/ \E w \in Workers : ApplyFinishStop(w) \/ scheduleOnce(w)
  \/ MarkExpiredRunners \/ FenceStep \/ ApplyRetry \/ TerminalStep \/ AdvanceFencedGeneration
  \/ AssignmentStep \/ recordFenceStopped \/ recordFenceFailed \/ reconcileRunnerActiveAssignments
EffectStep ==
  \/ \E w \in Workers : ApplyFinishStop(w) \/ StopStep(w)
  \/ AdvanceFencedGeneration \/ recordFenceStopped \/ recordLocalGenerationAdvanceResult
WorkspaceStep ==
  (\E w \in Workers : DeleteStep(w)) \/ recordLocalWorkspaceResult \/ recordLocalWorkspaceDeleteResult
LinkStep == OpenConnection \/ ClaimCommands \/ Loss \/ RunnerRestart \/ Runner \/ RecordStep
RunnerStep == Runner \/ Loss \/ RunnerRestart \/ GuestExit

(* Which kinds of steps write each variable.                               *)
LEMMA Steps ==
  ASSUME [Next]_vars
  PROVE  /\ UNCHANGED cmds \/ RowStep
         /\ UNCHANGED slot \/ SlotStep
         /\ UNCHANGED asg \/ AsgStep
         /\ UNCHANGED stop \/ EffectStep
         /\ UNCHANGED <<ws, fx>> \/ WorkspaceStep
         /\ UNCHANGED link \/ LinkStep
         /\ UNCHANGED rn \/ RunnerStep
  (* Every step is of one of the kinds that the lemmas below treat.          *)
  <1>Classified. ASSUME [Next]_vars
                 PROVE  \/ Bookkeeping
                        \/ \E w \in Workers : ApplyFinishStop(w) \/ StopStep(w) \/ DeleteStep(w)
                                              \/ scheduleOnce(w) \/ EndStart(w)
                        \/ MarkExpiredRunners \/ FenceStep \/ ApplyRetry \/ TerminalStep
                        \/ AdvanceFencedGeneration \/ OpenConnection \/ ClaimCommands \/ Loss
                        \/ RunnerRestart \/ GuestExit \/ Runner \/ RecordStep \/ Intent
    <2>. USE <1>Classified
    <2>1. UNCHANGED vars => Bookkeeping
      BY Zenon DEF vars, Bookkeeping
    <2>2. ASSUME NEW w \in Workers, Worker(w) \/ WorkerCrash(w)
          PROVE  Bookkeeping \/ ApplyFinishStop(w) \/ StopStep(w) \/ DeleteStep(w) \/ scheduleOnce(w)
      <3>1. \/ \E sessions, expired \in BOOLEAN : ClaimLifecycle(w, sessions, expired)
            \/ RevisionConflict(w) \/ WorkerCrash(w) \/ ApplyWait(w) \/ ApplyTransition(w)
            \/ ApplyFail(w) \/ DeferEffect(w) \/ loadStartPlan(w) \/ ReplaySchedule(w)
            \/ RefuseSchedule(w) \/ deferUnavailableHomeRunnerStart(w)
            => Bookkeeping
        BY Zenon DEF Bookkeeping, ClaimLifecycle, RevisionConflict, WorkerCrash, ApplyWait,
           ApplyTransition, ApplyFail, DeferEffect, loadStartPlan, ReplaySchedule, RefuseSchedule,
           deferUnavailableHomeRunnerStart, database
      <3>. QED BY <2>2, <3>1, Zenon DEF Worker, StopStep, DeleteStep
    <2>3. RecordEvent => RecordStep \/ Loss
      BY Zenon DEF RecordEvent, RecordStep, AssignmentStep, WorkspaceResult, Loss, RefuseStep
    <2>4. Reconciler => MarkExpiredRunners \/ FenceStep \/ ApplyRetry \/ TerminalStep
                        \/ AdvanceFencedGeneration
      BY Zenon DEF Reconciler, FenceStep, TerminalStep
    <2>5. Environment => \/ \E w \in Workers : WorkerCrash(w) \/ EndStart(w)
                         \/ Loss \/ RunnerRestart \/ GuestExit \/ Intent
      BY Zenon DEF Environment, EndStart, Loss, Intent
    <2>. QED BY <2>1, <2>2, <2>3, <2>4, <2>5, Zenon DEF Next
  <1>1. UNCHANGED cmds \/ RowStep
    BY <1>Classified, Zenon DEF RowStep, Bookkeeping, database, Loss, RecordStep, WorkspaceResult,
       ApplyFinishStop, EndStart, failStartPreparation,
       expireStartCapacityWait, MarkExpiredRunners, CloseConnection,
       RefuseStep, RefuseAssignmentEvent, RefuseFenceEvent,
       RefuseLocalWorkspaceResult, RefuseInstanceTerminal, Refuse,
       RunnerRestart, GuestExit, Runner, handleAssignment, StartAssignment,
       handleFence, handleAdvance, handleCreate, handleDelete, sendHeartbeat,
       sendInstanceTerminal, OnlyConnection, recordFenceFailed,
       recordInstanceTerminal, reconcileRunnerActiveAssignments, Intent,
       SetSandboxDesiredState
  <1>2. UNCHANGED slot \/ SlotStep
    BY <1>Classified, Zenon DEF SlotStep, Bookkeeping, database, Loss, RecordStep, WorkspaceResult,
       MarkExpiredRunners, OpenConnection, ClaimCommands, CloseConnection,
       RefuseStep, RefuseAssignmentEvent, RefuseFenceEvent,
       RefuseLocalWorkspaceResult, RefuseInstanceTerminal, Refuse,
       RunnerRestart, GuestExit, Runner, handleAssignment, StartAssignment,
       handleFence, handleAdvance, handleCreate, handleDelete, sendHeartbeat,
       sendInstanceTerminal, OnlyConnection, recordFenceFailed,
       acknowledgeRedundantFenceResult, recordInstanceTerminal,
       reconcileRunnerActiveAssignments
  <1>3. UNCHANGED asg \/ AsgStep
    BY <1>Classified, Zenon DEF AsgStep, Bookkeeping, database, Loss, RecordStep, WorkspaceResult, StopStep,
       queueStop, resumeStopEffect, DeleteStep, queueWorkspaceDelete,
       resumeWorkspaceDeleteEffect, EndStart, failStartPreparation,
       expireStartCapacityWait, OpenConnection, ClaimCommands,
       CloseConnection, RefuseStep, RefuseAssignmentEvent, RefuseFenceEvent,
       RefuseLocalWorkspaceResult, RefuseInstanceTerminal, Refuse,
       RunnerRestart, GuestExit, Runner, handleAssignment, StartAssignment,
       handleFence, handleAdvance, handleCreate, handleDelete, sendHeartbeat,
       sendInstanceTerminal, OnlyConnection, acknowledgeRedundantFenceResult,
       recordLocalGenerationAdvanceResult, recordLocalWorkspaceResult,
       recordLocalWorkspaceDeleteResult, recordInstanceTerminal, Intent,
       SetSandboxDesiredState
  <1>4. UNCHANGED stop \/ EffectStep
    BY <1>Classified, Zenon DEF EffectStep, Bookkeeping, database, Loss, RecordStep, WorkspaceResult,
       DeleteStep, queueWorkspaceDelete, resumeWorkspaceDeleteEffect,
       scheduleOnce, EndStart, failStartPreparation, expireStartCapacityWait,
       MarkExpiredRunners, FenceStep, ApplyFence, ApplyRetry, TerminalStep,
       ApplyFailTerminal, OpenConnection, ClaimCommands, CloseConnection,
       RefuseStep, RefuseAssignmentEvent, RefuseFenceEvent,
       RefuseLocalWorkspaceResult, RefuseInstanceTerminal, Refuse,
       RunnerRestart, GuestExit, Runner, handleAssignment, StartAssignment,
       handleFence, handleAdvance, handleCreate, handleDelete, sendHeartbeat,
       sendInstanceTerminal, OnlyConnection, AssignmentStep,
       recordAssignmentAck, recordAssignmentReady, recordAssignmentFailed,
       assignmentFails, recordFenceFailed, acknowledgeRedundantFenceResult,
       recordLocalWorkspaceResult, recordLocalWorkspaceDeleteResult,
       recordInstanceTerminal, reconcileRunnerActiveAssignments, Intent,
       SetSandboxDesiredState
  <1>5. UNCHANGED <<ws, fx>> \/ WorkspaceStep
    <2>1. RecordStep => UNCHANGED <<ws, fx>> \/ WorkspaceStep
      BY Zenon DEF WorkspaceStep, RecordStep, WorkspaceResult, OnlyConnection, AssignmentStep,
         recordAssignmentAck, recordAssignmentReady, recordAssignmentFailed, assignmentFails,
         recordFenceStopped, recordFenceFailed, acknowledgeRedundantFenceResult,
         recordLocalGenerationAdvanceResult, recordInstanceTerminal,
         reconcileRunnerActiveAssignments
    <2>2. \A w \in Workers : ApplyFinishStop(w) \/ StopStep(w) \/ scheduleOnce(w) \/ EndStart(w)
            => UNCHANGED <<ws, fx>>
      BY Zenon DEF ApplyFinishStop, StopStep, queueStop, resumeStopEffect, scheduleOnce, EndStart,
         failStartPreparation, expireStartCapacityWait
    <2>3. \/ MarkExpiredRunners \/ FenceStep \/ ApplyRetry \/ TerminalStep
          \/ AdvanceFencedGeneration \/ OpenConnection \/ ClaimCommands \/ Intent
          => UNCHANGED <<ws, fx>>
      BY Zenon DEF database, MarkExpiredRunners, FenceStep, ApplyFence, ApplyRetry, TerminalStep,
         ApplyFailTerminal, AdvanceFencedGeneration, OpenConnection, ClaimCommands, Intent,
         SetSandboxDesiredState
    <2>4. Loss \/ RunnerRestart \/ GuestExit \/ Runner => UNCHANGED <<ws, fx>>
      BY Zenon DEF database, Loss, CloseConnection, RefuseStep, RefuseAssignmentEvent,
         RefuseFenceEvent, RefuseLocalWorkspaceResult, RefuseInstanceTerminal, Refuse,
         RunnerRestart, GuestExit, Runner, handleAssignment, StartAssignment, handleFence,
         handleAdvance, handleCreate, handleDelete, sendHeartbeat, sendInstanceTerminal,
         OnlyConnection
    <2>. QED BY <2>1, <2>2, <2>3, <2>4, <1>Classified, Zenon DEF WorkspaceStep, Bookkeeping
  <1>6. UNCHANGED link \/ LinkStep
    BY <1>Classified, Zenon DEF LinkStep, Bookkeeping, database, Loss, RecordStep, WorkspaceResult,
       ApplyFinishStop, StopStep, queueStop, resumeStopEffect, DeleteStep,
       queueWorkspaceDelete, resumeWorkspaceDeleteEffect, scheduleOnce,
       EndStart, failStartPreparation, expireStartCapacityWait,
       MarkExpiredRunners, FenceStep, ApplyFence, ApplyRetry, TerminalStep,
       ApplyFailTerminal, AdvanceFencedGeneration, GuestExit, Intent,
       SetSandboxDesiredState
  <1>7. UNCHANGED rn \/ RunnerStep
    BY <1>Classified, Zenon DEF RunnerStep, Bookkeeping, database, Loss, RecordStep, WorkspaceResult,
       ApplyFinishStop, StopStep, queueStop, resumeStopEffect, DeleteStep,
       queueWorkspaceDelete, resumeWorkspaceDeleteEffect, scheduleOnce,
       EndStart, failStartPreparation, expireStartCapacityWait,
       MarkExpiredRunners, FenceStep, ApplyFence, ApplyRetry, TerminalStep,
       ApplyFailTerminal, AdvanceFencedGeneration, OpenConnection,
       ClaimCommands, AssignmentStep, recordAssignmentAck,
       recordAssignmentReady, recordAssignmentFailed, assignmentFails,
       recordFenceStopped, recordFenceFailed,
       acknowledgeRedundantFenceResult, recordLocalGenerationAdvanceResult,
       recordLocalWorkspaceResult, recordLocalWorkspaceDeleteResult,
       recordInstanceTerminal, reconcileRunnerActiveAssignments, Intent,
       SetSandboxDesiredState
  <1>. QED BY <1>1, <1>2, <1>3, <1>4, <1>5, <1>6, <1>7, Zenon

(***************************************************************************)
(* The sandboxes row: its generation and Instance are written by           *)
(* finish_stop, placement and the deletion's commit only.                  *)
(***************************************************************************)
SbKept == sb' \in SbTypes /\ sb'.gen = sb.gen /\ sb'.inst = sb.inst

(* What the assumptions say of each bound.                                 *)
LEMMA Bounds ==
  /\ MaxGeneration \in Nat /\ MaxGeneration > 0 /\ MaxOperations \in Nat /\ MaxOperations > 0
  /\ MaxFaults \in Nat /\ StopRetryLimit \in Nat /\ FenceRetryLimit \in Nat
  /\ Nobody \notin Workers
  BY LifecycleAssumption

(* The states named below are states.                                      *)
LEMMA StateNames ==
  /\ {"stopping", "deleting", "failed", "stopped", "ready", "starting", "draining"} \subseteq States
  /\ {"running", "stopped", "deleted"} \subseteq Desired
  BY Zenon DEF States, Desired

(* Finishing a stop: the generation advances and the Instance is gone.     *)
LEMMA FinishRow ==
  ASSUME Types, InstanceInv, NEW w \in Workers, ApplyFinishStop(w)
  PROVE  /\ sb' \in SbTypes /\ sb'.gen = sb.gen + 1 /\ ~sb'.inst /\ sb'.owner = Nobody
         /\ sb'.state = "stopped" /\ sb'.desired = sb.desired /\ sb'.issued = sb.issued
         /\ sb.inst /\ ws = "ready" /\ StopCompleted /\ slot.effect \in StopEffects
  <1>1. sb \in SbTypes /\ StopCompleted
        /\ sb' = [Released(sb.desired # "stopped") EXCEPT !.state = "stopped", !.gen = @ + 1, !.inst = FALSE]
    BY Zenon DEF Types, ApplyFinishStop
  <1>2. sb.inst /\ ws = "ready" /\ sb.gen < MaxGeneration /\ slot.effect \in StopEffects
    BY <1>1, Zenon DEF InstanceInv, StopCompleted
  <1>3. Released(sb.desired # "stopped").gen = sb.gen
    BY <1>1, Zenon DEF SbTypes, Released
  <1>4. sb.gen + 1 \in Generations
    <2>1. sb.gen \in Generations
      BY <1>1, Zenon DEF SbTypes
    <2>. QED BY <1>2, <2>1, Bounds DEF Generations
  <1>5. (sb.desired # "stopped") \in BOOLEAN
    OBVIOUS
  <1>6. sb' = [Released(sb.desired # "stopped") EXCEPT !.state = "stopped", !.gen = sb.gen + 1, !.inst = FALSE]
    BY <1>1, <1>3, Zenon
  <1>7. sb' \in SbTypes /\ sb'.gen = sb.gen + 1 /\ ~sb'.inst /\ sb'.owner = Nobody
        /\ sb'.state = "stopped" /\ sb'.desired = sb.desired /\ sb'.issued = sb.issued
    BY <1>1, <1>4, <1>5, <1>6, StateNames, Zenon DEF SbTypes, Released
  <1>. QED BY <1>1, <1>2, <1>7, Zenon

(* Placing an Instance: the generation stays and had no Instance.          *)
LEMMA PlacedRow ==
  ASSUME Types, InstanceInv, WorkspaceInv, PlanInv, NEW w \in Workers, scheduleOnce(w)
  PROVE  /\ sb' \in SbTypes /\ sb'.gen = sb.gen /\ sb'.inst
         /\ ~sb.inst /\ asg.state = "none" /\ ws = "ready" /\ sb.gen < MaxGeneration
         /\ sb'.state = "starting" /\ sb'.desired = sb.desired /\ sb'.issued = sb.issued
         /\ sb'.owner \in {sb.owner, Nobody}
  <1>1. sb \in SbTypes
    BY Zenon DEF Types
  <1>. DEFINE o == IF sb.owner = w THEN Nobody ELSE sb.owner
              u == sb.due \/ sb.owner = w
  <1>2. /\ Plans(w) /\ ~Mismatch(w) /\ SlotFree(w) /\ asg.state = "none" /\ ~sb.inst
        /\ sb' = [sb EXCEPT !.state = "starting", !.inst = TRUE, !.owner = o, !.due = u]
    BY Zenon DEF scheduleOnce
  <1>3. o \in Workers \cup {Nobody} /\ o \in {sb.owner, Nobody} /\ u \in BOOLEAN
    BY <1>1 DEF SbTypes
  <1>4. sb' \in SbTypes /\ sb'.gen = sb.gen /\ sb'.inst /\ sb'.state = "starting"
        /\ sb'.desired = sb.desired /\ sb'.issued = sb.issued /\ sb'.owner = o
    <2>. HIDE DEF o, u
    <2>. QED BY <1>1, <1>2, <1>3, StateNames, Zenon DEF SbTypes
  <1>5. sb.gen < MaxGeneration
    BY <1>2, Zenon DEF Plans, Mismatch, PlanInv
  <1>6. ws = "ready"
    BY <1>2, Zenon DEF Mismatch, SlotFree, WorkspaceInv
  <1>. QED BY <1>2, <1>3, <1>4, <1>5, <1>6, Zenon

(* Only finishing a stop and placing an Instance change the generation     *)
(* and the Instance.                                                       *)
LEMMA Identity ==
  ASSUME Types, InstanceInv, [Next]_vars
  PROVE  SbKept \/ \E w \in Workers : ApplyFinishStop(w) \/ scheduleOnce(w)
  (* Releasing the claim changes neither the generation nor the Instance.    *)
  <1>Written. ASSUME sb \in SbTypes, NEW b \in BOOLEAN, NEW s \in States, NEW c \in BOOLEAN
              PROVE  /\ Released(b).state = sb.state /\ Released(b).class = sb.class
                     /\ sb' = Released(b) => SbKept
                     /\ sb' = [Released(b) EXCEPT !.state = s] => SbKept
                     /\ sb' = [Released(b) EXCEPT !.state = s, !.class = c] => SbKept
    <2>. USE <1>Written
    <2>1. Released(b).state = sb.state /\ Released(b).class = sb.class
      BY Zenon DEF SbTypes, Released
    <2>2. ASSUME sb' = Released(b) PROVE SbKept
      BY <2>2, Zenon DEF SbKept, SbTypes, Released
    <2>3. ASSUME sb' = [Released(b) EXCEPT !.state = s] PROVE SbKept
      BY <2>3, Zenon DEF SbKept, SbTypes, Released
    <2>4. ASSUME sb' = [Released(b) EXCEPT !.state = s, !.class = c] PROVE SbKept
      BY <2>4, Zenon DEF SbKept, SbTypes, Released
    <2>. QED BY <2>1, <2>2, <2>3, <2>4, Zenon
  (* A worker's steps, except finishing a stop and placing an Instance,      *)
  (* leave the generation and the Instance.                                  *)
  <1>SbWorker. ASSUME sb \in SbTypes, NEW w \in Workers
               PROVE  /\ \A x, y \in BOOLEAN : ClaimLifecycle(w, x, y) => SbKept
                      /\ ApplyWait(w) \/ ApplyFail(w) \/ DeferEffect(w) \/ ReplaySchedule(w)
                         \/ deferUnavailableHomeRunnerStart(w) => SbKept
                      /\ ApplyTransition(w) => SbKept
                      /\ StopStep(w) \/ DeleteStep(w) => SbKept
                      /\ EndStart(w) => SbKept
    <2>. USE <1>SbWorker
    <2>1. ASSUME NEW x \in BOOLEAN, NEW y \in BOOLEAN, ClaimLifecycle(w, x, y) PROVE SbKept
      <3>1. sb' = [sb EXCEPT !.owner = w]
        BY <2>1, Zenon DEF ClaimLifecycle
      <3>. QED BY <3>1, Zenon DEF SbKept, SbTypes
    <2>2. ASSUME NEW b \in BOOLEAN, sb' = Released(b) PROVE SbKept
      BY <2>2, <1>Written, StateNames, Zenon
    <2>3. ApplyWait(w) \/ DeferEffect(w) \/ deferUnavailableHomeRunnerStart(w)
          \/ (\E p \in BOOLEAN : resumeWorkspaceDeleteEffect(w, p)) => \E b \in BOOLEAN : sb' = Released(b)
      BY Zenon DEF ApplyWait, DeferEffect, deferUnavailableHomeRunnerStart,
         resumeWorkspaceDeleteEffect, stateIsAtRest
    <2>4. ReplaySchedule(w) => sb' = sb \/ sb' = Released(TRUE)
      BY Zenon DEF ReplaySchedule
    <2>5. ApplyFail(w) => SbKept
      <3>1. ApplyFail(w) => sb' = [Released(FALSE) EXCEPT !.state = "failed", !.class = TRUE]
        BY Zenon DEF ApplyFail
      <3>. QED BY <3>1, <1>Written, StateNames, Zenon
    <2>6. ApplyTransition(w) => SbKept
      <3>. DEFINE st == IF work[w].act = "mark_ready" THEN "ready" ELSE "draining"
                  d == IF work[w].act = "expire" THEN "stopped" ELSE sb.desired
      <3>1. Released(TRUE).desired = sb.desired
        BY Zenon DEF SbTypes, Released
      <3>2. ApplyTransition(w) => sb' = [Released(TRUE) EXCEPT !.state = st, !.desired = d]
        BY <3>1, Zenon DEF ApplyTransition
      <3>3. st \in States /\ d \in Desired
        BY StateNames, Zenon DEF SbTypes
      <3>. HIDE DEF st, d
      <3>. QED BY <3>2, <3>3, Zenon DEF SbKept, SbTypes, Released
    <2>7. queueStop(w) \/ queueWorkspaceDelete(w) => SbKept
      <3>1. queueStop(w) => sb' = [Released(TRUE) EXCEPT !.state = "stopping"]
        BY Zenon DEF queueStop
      <3>2. queueWorkspaceDelete(w) => sb' = [Released(TRUE) EXCEPT !.state = "deleting"]
        BY Zenon DEF queueWorkspaceDelete
      <3>. QED BY <3>1, <3>2, <1>Written, StateNames, Zenon
    <2>8. (\E p \in BOOLEAN : resumeStopEffect(w, p)) => SbKept
      <3>1. (\E p \in BOOLEAN : resumeStopEffect(w, p)) => sb' = [Released(TRUE) EXCEPT !.state = Stopping]
        BY Zenon DEF resumeStopEffect
      <3>2. Stopping \in States
        BY StateNames, Zenon DEF Stopping, SbTypes
      <3>. QED BY <3>1, <3>2, <1>Written, Zenon
    <2>9. EndStart(w) => SbKept
      <3>1. failStartPreparation(w) => sb' = [Released(FALSE) EXCEPT !.state = "failed", !.class = TRUE]
        BY Zenon DEF failStartPreparation
      <3>2. expireStartCapacityWait(w) => sb' = [Released(FALSE) EXCEPT !.desired = "stopped"]
        BY Zenon DEF expireStartCapacityWait
      <3>3. ASSUME sb' = [Released(FALSE) EXCEPT !.desired = "stopped"] PROVE SbKept
        BY <3>3, StateNames, Zenon DEF SbKept, SbTypes, Released
      <3>. QED BY <3>1, <3>2, <3>3, <1>Written, StateNames, Zenon DEF EndStart
    <2>10. sb' = sb => SbKept
      BY Zenon DEF SbKept
    <2>. QED BY <2>1, <2>2, <2>3, <2>4, <2>5, <2>6, <2>7, <2>8, <2>9, <2>10, Zenon DEF StopStep, DeleteStep
  (* Recorded evidence and the reconciler leave the generation and the       *)
  (* Instance, except that a deletion clears a stale Instance.               *)
  <1>SbRecord. ASSUME sb \in SbTypes
               PROVE  /\ TerminalStep \/ AdvanceFencedGeneration \/ AssignmentStep => SbKept
                      /\ recordLocalGenerationAdvanceResult \/ recordLocalWorkspaceResult
                         \/ recordInstanceTerminal \/ Intent => SbKept
                      /\ recordLocalWorkspaceDeleteResult =>
                           sb' \in SbTypes /\ sb'.gen = sb.gen /\ (sb'.inst = sb.inst \/ (~sb'.inst /\ ws = "deleting"))
    <2>. USE <1>SbRecord
    <2>1. TerminalStep => SbKept
      <3>1. TerminalStep => sb' = [Released(FALSE) EXCEPT !.state = "failed", !.class = TRUE]
        BY Zenon DEF TerminalStep, ApplyFailTerminal
      <3>. QED BY <3>1, <1>Written, StateNames, Zenon
    <2>2. AdvanceFencedGeneration => SbKept
      <3>1. AdvanceFencedGeneration => sb' = [Released(TRUE) EXCEPT !.state = "stopping", !.class = FALSE]
        BY Zenon DEF AdvanceFencedGeneration
      <3>. QED BY <3>1, <1>Written, StateNames, Zenon
    <2>3. AssignmentStep => SbKept
      <3>. DEFINE st == IF Projected THEN "ready" ELSE sb.state
      <3>1. Released(TRUE).state = sb.state
        BY <1>Written, StateNames, Zenon
      <3>2. AssignmentStep => \/ sb' = sb \/ sb' = Released(TRUE)
                              \/ sb' = [Released(TRUE) EXCEPT !.state = st]
        BY <3>1, Zenon DEF AssignmentStep, recordAssignmentAck, recordAssignmentReady,
           recordAssignmentFailed, assignmentFails
      <3>3. st \in States
        BY StateNames, Zenon DEF SbTypes
      <3>4. sb' = sb => SbKept
        BY Zenon DEF SbKept
      <3>. HIDE DEF st
      <3>. QED BY <3>2, <3>3, <3>4, <1>Written, Zenon
    <2>4. recordLocalGenerationAdvanceResult => SbKept
      <3>. DEFINE st == IF msg.ok THEN Stopping ELSE sb.state
                  cl == sb.class /\ ~msg.ok
      <3>1. Released(TRUE).state = sb.state /\ Released(TRUE).class = sb.class
        BY <1>Written, StateNames, Zenon
      <3>2. recordLocalGenerationAdvanceResult =>
              sb' = sb \/ sb' = [Released(TRUE) EXCEPT !.state = st, !.class = cl]
        BY <3>1, Zenon DEF recordLocalGenerationAdvanceResult
      <3>3. st \in States /\ cl \in BOOLEAN
        BY StateNames, Zenon DEF SbTypes, Stopping
      <3>4. sb' = sb => SbKept
        BY Zenon DEF SbKept
      <3>. HIDE DEF st, cl
      <3>. QED BY <3>2, <3>3, <3>4, <1>Written, Zenon
    <2>5. recordLocalWorkspaceResult => SbKept
      <3>1. recordLocalWorkspaceResult =>
              \/ sb' = sb
              \/ sb' = [Released(sb.desired \in {"running", "deleted"}) EXCEPT !.state = "stopped"]
              \/ sb' = [Released(sb.due \/ sb.desired = "deleted") EXCEPT !.state = "failed", !.class = TRUE]
        BY Zenon DEF recordLocalWorkspaceResult
      <3>2. (sb.desired \in {"running", "deleted"}) \in BOOLEAN /\ (sb.due \/ sb.desired = "deleted") \in BOOLEAN
        OBVIOUS
      <3>3. sb' = sb => SbKept
        BY Zenon DEF SbKept
      <3>. QED BY <3>1, <3>2, <3>3, <1>Written, StateNames, Zenon
    <2>6. recordInstanceTerminal => SbKept
      <3>1. recordInstanceTerminal => sb' = [sb EXCEPT !.due = TRUE]
        BY Zenon DEF recordInstanceTerminal
      <3>. QED BY <3>1, Zenon DEF SbKept, SbTypes
    <2>7. ASSUME NEW kind \in {"start", "stop", "delete"}, NEW wait \in BOOLEAN,
                 SetSandboxDesiredState(kind, wait)
          PROVE  SbKept
      <3>. DEFINE target == CASE kind = "start" -> "running" [] kind = "stop" -> "stopped"
                              [] kind = "delete" -> "deleted"
      <3>1. sb' = [sb EXCEPT !.desired = target, !.due = TRUE, !.class = FALSE, !.issued = sb.issued + 1]
            /\ sb.issued < MaxOperations
        BY <2>7, Zenon DEF SetSandboxDesiredState
      <3>2. target \in Desired
        BY Zenon DEF Desired
      <3>3. sb.issued + 1 \in 1 .. MaxOperations
        BY <3>1, Bounds DEF SbTypes
      <3>. HIDE DEF target
      <3>. QED BY <3>1, <3>2, <3>3, Zenon DEF SbKept, SbTypes
    <2>8. recordLocalWorkspaceDeleteResult =>
            sb' \in SbTypes /\ sb'.gen = sb.gen /\ (sb'.inst = sb.inst \/ (~sb'.inst /\ ws = "deleting"))
      <3>1. recordLocalWorkspaceDeleteResult =>
              \/ sb' = sb
              \/ /\ sb' = [Released(FALSE) EXCEPT !.state = "deleted", !.inst = FALSE]
                 /\ fx.delete = "queued" /\ DeleteAuthority
        BY Zenon DEF recordLocalWorkspaceDeleteResult
      <3>2. sb' = sb => sb' \in SbTypes /\ sb'.gen = sb.gen /\ sb'.inst = sb.inst
        BY Zenon
      <3>3. ASSUME sb' = [Released(FALSE) EXCEPT !.state = "deleted", !.inst = FALSE]
            PROVE  sb' \in SbTypes /\ sb'.gen = sb.gen /\ ~sb'.inst
        BY <3>3, Zenon DEF SbTypes, Released, States
      <3>4. fx.delete = "queued" /\ DeleteAuthority => ws = "deleting"
        BY Zenon DEF DeleteAuthority
      <3>. QED BY <3>1, <3>2, <3>3, <3>4, Zenon DEF SbKept
    <2>. QED BY <2>1, <2>2, <2>3, <2>4, <2>5, <2>6, <2>7, <2>8, Zenon DEF Intent
  <1>0. sb \in SbTypes /\ (sb.inst => ws = "ready") /\ sb.inst \in BOOLEAN
    <2>1. sb \in SbTypes /\ (sb.inst => ws = "ready")
      BY Zenon DEF Types, InstanceInv
    <2>. QED BY <2>1, Zenon DEF SbTypes
  <1>1. sb' = sb => SbKept
    BY <1>0, Zenon DEF SbKept
  <1>2. ASSUME NEW w \in Workers, Worker(w) \/ WorkerCrash(w)
        PROVE  SbKept \/ ApplyFinishStop(w) \/ scheduleOnce(w)
    <2>1. RevisionConflict(w) \/ WorkerCrash(w) \/ loadStartPlan(w) \/ RefuseSchedule(w) => sb' = sb
      BY Zenon DEF RevisionConflict, WorkerCrash, loadStartPlan, RefuseSchedule, database
    <2>. QED BY <1>0, <1>1, <1>2, <2>1, <1>SbWorker, Zenon DEF Worker, StopStep, DeleteStep
  <1>3. MarkExpiredRunners \/ FenceStep \/ ApplyRetry \/ OpenConnection \/ ClaimCommands
        \/ RunnerRestart \/ GuestExit \/ CloseConnection => sb' = sb
    BY Zenon DEF MarkExpiredRunners, FenceStep, ApplyFence, ApplyRetry, OpenConnection, ClaimCommands,
       RunnerRestart, GuestExit, CloseConnection, database
  <1>4. Runner => sb' = sb
    BY Zenon DEF Runner, handleAssignment, StartAssignment, handleFence, handleAdvance, handleCreate,
       handleDelete, sendHeartbeat, sendInstanceTerminal, OnlyConnection, database
  <1>5. RefuseStep \/ recordFenceStopped \/ recordFenceFailed \/ acknowledgeRedundantFenceResult
        \/ reconcileRunnerActiveAssignments => sb' = sb
    BY Zenon DEF RefuseStep, RefuseAssignmentEvent, RefuseFenceEvent, RefuseLocalWorkspaceResult,
       RefuseInstanceTerminal, Refuse, recordFenceStopped, recordFenceFailed,
       acknowledgeRedundantFenceResult, reconcileRunnerActiveAssignments, database
  <1>6. recordLocalWorkspaceDeleteResult => SbKept
    <2>1. recordLocalWorkspaceDeleteResult =>
            sb' \in SbTypes /\ sb'.gen = sb.gen
            /\ (sb'.inst = sb.inst \/ (~sb'.inst /\ ws = "deleting"))
      BY <1>0, <1>SbRecord, Zenon
    <2>2. sb' \in SbTypes => sb'.inst \in BOOLEAN
      BY Zenon DEF SbTypes
    <2>. QED BY <1>0, <2>1, <2>2 DEF SbKept
  <1>7. RecordEvent => SbKept
    BY <1>0, <1>1, <1>5, <1>6, <1>SbRecord, Zenon DEF RecordEvent, AssignmentStep, RefuseStep
  <1>8. Reconciler => SbKept
    BY <1>0, <1>1, <1>3, <1>SbRecord, Zenon DEF Reconciler, FenceStep, TerminalStep
  <1>9. Environment => SbKept \/ \E w \in Workers : WorkerCrash(w)
    BY <1>0, <1>1, <1>3, <1>SbRecord, <1>SbWorker, Zenon DEF Environment, Intent, EndStart
  <1>. QED BY <1>1, <1>2, <1>3, <1>4, <1>7, <1>8, <1>9, Zenon DEF Next, vars

(***************************************************************************)
(* The live commands, by content: what each step leaves and adds.          *)
(***************************************************************************)
Dropped(kinds) == {c \in Rows : ~(c.kind \in kinds /\ c.gen = sb.gen)}
Removed(k, e) == {c \in Rows : ~(c.kind = k /\ c.gen = sb.gen /\ c.effect = e)}
Fence == Command("lifecycle_fence", "stop")
Unanswered == {c \in Rows : ~(c.kind = "assignment" /\ c.gen = msg.gen)}

(* Acknowledged and superseded commands, as contents.                      *)
LEMMA KeptRows ==
  ASSUME NEW k, NEW e
  PROVE  Contents(Without(k, e)) = Removed(k, e) /\ Contents(Superseded(k)) = Dropped(k)
  (* Which contents acknowledging or superseding commands removes.           *)
  <1>KeptContents. ASSUME NEW k0, NEW e0
                   PROVE  /\ Contents(Without(k0, e0)) = {c \in Rows : ~(c.kind = k0 /\ c.gen = sb.gen /\ c.effect = e0)}
                          /\ Contents(Superseded(k0)) = {c \in Rows : ~(c.kind \in k0 /\ c.gen = sb.gen)}
    <2>. USE <1>KeptContents
    <2>1. Contents({c \in cmds : ~(c.kind = k0 /\ c.gen = sb.gen /\ c.effect = e0)})
            = {c \in Rows : ~(c.kind = k0 /\ c.gen = sb.gen /\ c.effect = e0)}
      BY ContentFields DEF Rows, Contents
    <2>2. Contents({c \in cmds : ~(c.kind \in k0 /\ c.gen = sb.gen)})
            = {c \in Rows : ~(c.kind \in k0 /\ c.gen = sb.gen)}
      BY ContentFields DEF Rows, Contents
    <2>. QED BY <2>1, <2>2, RankedContents, Zenon DEF Without, Superseded
  <1>. QED BY <1>KeptContents DEF Removed, Dropped

(* The commands a worker's step queues and removes.                        *)
LEMMA RowsWorker ==
  ASSUME NEW w \in Workers
  PROVE  /\ queueStop(w) => Rows' = Rows \cup {Fence}
         /\ queueWorkspaceDelete(w) => Rows' = Rows \cup {Command("delete", "none")}
         /\ \A p \in BOOLEAN : resumeWorkspaceDeleteEffect(w, p) =>
              Rows' = Rows \/ Rows' = Removed("delete", "none") \cup {Command("delete", "none")}
         /\ scheduleOnce(w) => Rows' = Rows \cup {Command("assignment", "none")}
  <1>1. queueStop(w) => cmds' = Queued(cmds, Command("lifecycle_fence", "stop"))
    BY Zenon DEF queueStop
  <1>2. queueWorkspaceDelete(w) => cmds' = Queued(cmds, Command("delete", "none"))
    BY Zenon DEF queueWorkspaceDelete
  <1>3. \A p \in BOOLEAN : resumeWorkspaceDeleteEffect(w, p) =>
          cmds' = cmds \/ cmds' = Queued(Without("delete", "none"), Command("delete", "none"))
    BY Zenon DEF resumeWorkspaceDeleteEffect
  <1>4. scheduleOnce(w) => cmds' = Queued(cmds, Command("assignment", "none"))
    BY Zenon DEF scheduleOnce
  <1>5. Rows' = Contents(cmds') /\ Rows = Contents(cmds)
    BY Zenon DEF Rows
  <1>6. Contents(Queued(Without("delete", "none"), Command("delete", "none")))
          = Removed("delete", "none") \cup {Command("delete", "none")}
    BY QueuedContents, KeptRows
  <1>7. \A k \in {"lifecycle_fence", "delete", "assignment"} : \A e \in {"none", "stop"} :
          Contents(Queued(cmds, Command(k, e))) = Rows \cup {Command(k, e)}
    BY <1>5, QueuedContents
  <1>. QED BY <1>1, <1>2, <1>3, <1>4, <1>5, <1>6, <1>7 DEF Fence

(* What resuming a stop effect does to the commands, the effect and the slot. *)
LEMMA RowsResume ==
  ASSUME stop \in StopTypes, StopEffect \in StopEffects, NEW w \in Workers, NEW p \in BOOLEAN, resumeStopEffect(w, p)
  PROVE  LET e == StopEffect
             k == IF stop[e].cmd = "advance" THEN Removed("advance", e)
                  ELSE Removed("lifecycle_fence", "stop") IN
         \/ Rows' = Rows /\ stop' = stop /\ slot' = StopSlot(e)
         \/ Rows' = k /\ slot' = NoSlot /\ stop' = [stop EXCEPT ![e].state = "runner_failed"]
         \/ /\ Rows' = k \cup {StopCommand(e)}
            /\ \E n \in 0 .. StopRetryLimit :
                 stop' = [stop EXCEPT ![e] = [state |-> "queued", cmd |-> stop[e].cmd, left |-> n]]
            /\ slot' = IF stop[e].cmd = "advance" THEN [StopSlot(e) EXCEPT !.state = "advancing"]
                       ELSE StopSlot(e)
  (* An effect queued again keeps its command.                               *)
  <1>Renewed. ASSUME NEW n, NEW x \in [state : EffectStates, cmd : {"none", "fence", "advance"},
                                        left : 0 .. StopRetryLimit],
                     NEW q, q = [x EXCEPT !.state = "queued", !.left = n]
              PROVE  q = [state |-> "queued", cmd |-> x.cmd, left |-> n]
    BY <1>Renewed, Zenon
  <1>. DEFINE e == StopEffect
              k == IF stop[e].cmd = "advance" THEN Removed("advance", e)
                   ELSE Removed("lifecycle_fence", "stop")
              renewed == stop[e].state = "runner_failed" /\ sb.state = "failed"
              effect == IF renewed THEN [stop[e] EXCEPT !.state = "queued", !.left = StopRetryLimit + 1]
                        ELSE stop[e]
  <1>1. Rows' = Contents(cmds') /\ Rows = Contents(cmds)
    BY Zenon DEF Rows
  <1>2. Contents(WithoutStopCommand(e)) = k
    BY KeptRows, Zenon DEF WithoutStopCommand
  <1>3. Contents(Queued(WithoutStopCommand(e), StopCommand(e))) = k \cup {StopCommand(e)}
    BY <1>2, QueuedContents DEF StopCommand
  <1>4. \/ slot' = StopSlot(e) /\ UNCHANGED <<stop, cmds>>
        \/ slot' = NoSlot /\ stop' = [stop EXCEPT ![e].state = "runner_failed"] /\ cmds' = WithoutStopCommand(e)
        \/ /\ effect.state = "queued" /\ effect.left > 0
           /\ slot' = IF effect.cmd = "advance" THEN [StopSlot(e) EXCEPT !.state = "advancing"]
                      ELSE StopSlot(e)
           /\ stop' = [stop EXCEPT ![e] = [effect EXCEPT !.left = @ - 1]]
           /\ cmds' = Queued(WithoutStopCommand(e), StopCommand(e))
    BY Zenon DEF resumeStopEffect
  <1>5. /\ effect.cmd = stop[e].cmd /\ effect.left \in 0 .. StopRetryLimit + 1
        /\ effect = [state |-> effect.state, cmd |-> effect.cmd, left |-> effect.left]
    <2>1. stop[e] \in [state : EffectStates, cmd : {"none", "fence", "advance"}, left : 0 .. StopRetryLimit]
      BY Zenon DEF StopTypes
    <2>. DEFINE r == stop[e]
    <2>2. r = [state |-> r.state, cmd |-> r.cmd, left |-> r.left] /\ r.left \in 0 .. StopRetryLimit
      BY <2>1
    <2>3. r.left \in 0 .. StopRetryLimit + 1 /\ StopRetryLimit + 1 \in 0 .. StopRetryLimit + 1
      BY <2>2, Bounds
    <2>4. [r EXCEPT !.state = "queued", !.left = StopRetryLimit + 1]
            = [state |-> "queued", cmd |-> r.cmd, left |-> StopRetryLimit + 1]
      <3>1. r \in [state : EffectStates, cmd : {"none", "fence", "advance"}, left : 0 .. StopRetryLimit]
        BY <2>1, Zenon
      <3>. HIDE DEF r
      <3>. QED BY <3>1, <1>Renewed, Zenon
    <2>. HIDE DEF r
    <2>5. CASE renewed
      <3>1. effect = [state |-> "queued", cmd |-> r.cmd, left |-> StopRetryLimit + 1]
        BY <2>4, <2>5 DEF r
      <3>. HIDE DEF effect
      <3>. QED BY <2>3, <3>1 DEF r
    <2>6. CASE ~renewed
      <3>1. effect = r
        BY <2>6, Zenon DEF r
      <3>. HIDE DEF effect
      <3>. QED BY <2>2, <2>3, <3>1 DEF r
    <2>. QED BY <2>5, <2>6, Zenon
  <1>6. [effect EXCEPT !.left = @ - 1] = [state |-> effect.state, cmd |-> effect.cmd, left |-> effect.left - 1]
    <2>. HIDE DEF effect
    <2>. QED BY <1>5
  <1>7. effect.left > 0 => effect.left - 1 \in 0 .. StopRetryLimit
    BY <1>5, Bounds
  <1>. HIDE DEF effect, k, e
  <1>8. \/ Rows' = Rows /\ stop' = stop /\ slot' = StopSlot(e)
        \/ Rows' = k /\ slot' = NoSlot /\ stop' = [stop EXCEPT ![e].state = "runner_failed"]
        \/ /\ Rows' = k \cup {StopCommand(e)}
           /\ \E n \in 0 .. StopRetryLimit :
                stop' = [stop EXCEPT ![e] = [state |-> "queued", cmd |-> stop[e].cmd, left |-> n]]
           /\ slot' = IF stop[e].cmd = "advance" THEN [StopSlot(e) EXCEPT !.state = "advancing"]
                      ELSE StopSlot(e)
    BY <1>1, <1>2, <1>3, <1>4, <1>5, <1>6, <1>7
  <1>. QED BY <1>8 DEF k, e

(* The commands the reconciler and the connection queue and remove.        *)
LEMMA RowsReconciler ==
  /\ FenceStep => Rows' = Dropped(AssignmentCommands) \cup {Command("fence", "none")}
  /\ ApplyRetry => Rows' = Dropped({"assignment"}) \cup {Command("assignment", "none")}
  /\ TerminalStep => Rows' = Dropped(AssignmentCommands)
  /\ OpenConnection \/ ClaimCommands => Rows' = Rows
  <1>1. Rows' = Contents(cmds') /\ Rows = Contents(cmds)
    BY Zenon DEF Rows
  <1>2. FenceStep => cmds' = Queued(Superseded(AssignmentCommands), Command("fence", "none"))
    BY Zenon DEF FenceStep, ApplyFence
  <1>3. ApplyRetry => cmds' = Queued(Superseded({"assignment"}), Command("assignment", "none"))
    BY Zenon DEF ApplyRetry
  <1>4. TerminalStep => cmds' = Superseded(AssignmentCommands)
    BY Zenon DEF TerminalStep, ApplyFailTerminal
  <1>5. \A c, a, b : Content(Row(c, a, b)) = Content(c)
    BY DEF Content, Row
  <1>6. OpenConnection => Rows' = Rows
    <2>. DEFINE R == {Row(c, c.at, FALSE) : c \in cmds}
    <2>1. OpenConnection => cmds' = R
      BY Zenon DEF OpenConnection
    <2>2. Contents(R) = Contents(cmds)
      <3>1. ASSUME NEW c \in cmds PROVE Content(c) \in Contents(R)
        <4>1. Row(c, c.at, FALSE) \in R /\ Content(Row(c, c.at, FALSE)) = Content(c)
          BY <1>5, Zenon
        <4>. QED BY <4>1, Zenon DEF Contents
      <3>2. ASSUME NEW r \in R PROVE Content(r) \in Contents(cmds)
        <4>1. PICK d \in cmds : r = Row(d, d.at, FALSE)
          BY Zenon
        <4>2. Content(r) = Content(d)
          BY <1>5, <4>1, Zenon
        <4>. QED BY <4>2, Zenon DEF Contents
      <3>. HIDE DEF R
      <3>. QED BY <3>1, <3>2, Zenon DEF Contents
    <2>. HIDE DEF R
    <2>. QED BY <1>1, <2>1, <2>2, Zenon
  <1>7. ClaimCommands => Rows' = Rows
    <2>1. ASSUME NEW c \in cmds PROVE Contents((cmds \ {c}) \cup {Row(c, c.at, TRUE)}) = Contents(cmds)
      <3>. DEFINE R == (cmds \ {c}) \cup {Row(c, c.at, TRUE)}
      <3>1. ASSUME NEW d \in cmds PROVE Content(d) \in Contents(R)
        <4>1. d \in R \/ d = c
          BY Zenon
        <4>2. Row(c, c.at, TRUE) \in R /\ Content(Row(c, c.at, TRUE)) = Content(c)
          BY <1>5, Zenon
        <4>. HIDE DEF R
        <4>. QED BY <4>1, <4>2, Zenon DEF Contents
      <3>2. ASSUME NEW r \in R PROVE Content(r) \in Contents(cmds)
        <4>1. r \in cmds \/ r = Row(c, c.at, TRUE)
          BY Zenon
        <4>2. Content(r) = Content(c) \/ r \in cmds
          BY <1>5, <4>1, Zenon
        <4>. HIDE DEF R
        <4>. QED BY <4>2, Zenon DEF Contents
      <3>. HIDE DEF R
      <3>3. Contents(R) = Contents(cmds)
        BY <3>1, <3>2, Zenon DEF Contents
      <3>. QED BY <3>3 DEF R
    <2>2. ClaimCommands => \E c \in cmds : cmds' = (cmds \ {c}) \cup {Row(c, c.at, TRUE)}
      BY Zenon DEF ClaimCommands
    <2>. SUFFICES ASSUME ClaimCommands PROVE Rows' = Rows
      OBVIOUS
    <2>3. PICK c \in cmds : cmds' = (cmds \ {c}) \cup {Row(c, c.at, TRUE)}
      BY <2>2, Zenon
    <2>4. Contents((cmds \ {c}) \cup {Row(c, c.at, TRUE)}) = Contents(cmds)
      BY <2>1, Zenon
    <2>5. Contents(cmds') = Contents((cmds \ {c}) \cup {Row(c, c.at, TRUE)})
      BY ONLY <2>3
    <2>. QED BY ONLY <1>1, <2>4, <2>5
  <1>8. \A k, c : Contents(Queued(Superseded(k), Command(c, "none"))) = Dropped(k) \cup {Command(c, "none")}
    BY KeptRows, QueuedContents
  <1>. QED BY <1>1, <1>2, <1>3, <1>4, <1>6, <1>7, <1>8, KeptRows

(* Advancing a fenced generation queues one advance, unless a stop holds   *)
(* the slot.                                                               *)
LEMMA RowsAdvance ==
  ASSUME AdvanceFencedGeneration
  PROVE  LET kept == Dropped(AssignmentCommands \cup {"lifecycle_fence"}) IN
         \/ /\ Rows' = kept \cup {Command("advance", "loss")}
            /\ slot.kind = "none" \/ ReplaceFencedStart
            /\ slot' = [kind |-> "stop", state |-> "advancing", effect |-> "loss", op |-> 0]
            /\ stop' = [stop EXCEPT !["loss"] =
                          [state |-> "queued", cmd |-> "advance", left |-> StopRetryLimit]]
         \/ Rows' = kept /\ slot.kind = "stop" /\ UNCHANGED <<slot, stop>>
  <1>. DEFINE kept == Superseded(AssignmentCommands \cup {"lifecycle_fence"})
  <1>1. Rows' = Contents(cmds')
    BY Zenon DEF Rows
  <1>2. \/ /\ cmds' = Queued(kept, Command("advance", "loss"))
           /\ slot.kind = "none" \/ ReplaceFencedStart
           /\ slot' = [kind |-> "stop", state |-> "advancing", effect |-> "loss", op |-> 0]
           /\ stop' = [stop EXCEPT !["loss"] =
                         [state |-> "queued", cmd |-> "advance", left |-> StopRetryLimit]]
        \/ cmds' = kept /\ slot.kind = "stop" /\ UNCHANGED <<slot, stop>>
    BY Zenon DEF AdvanceFencedGeneration
  <1>. QED BY <1>1, <1>2, KeptRows, QueuedContents

(* acknowledgeMatching removes only commands that the event names.         *)
LEMMA RowsMatching ==
  ASSUME AcknowledgeMatching
  PROVE  Rows' \subseteq Rows /\ \A c \in Rows : c \in Rows' \/ (c.kind = msg.cmd /\ c.gen = msg.gen)
  <1>. DEFINE R == {c \in cmds : c \in Matching => \E d \in Matching : d.at < c.at}
  <1>1. Rows' = Contents(R)
    BY RankedContents, Zenon DEF Rows, AcknowledgeMatching
  <1>2. R \subseteq cmds /\ \A c \in cmds : c \in R \/ (c.kind = msg.cmd /\ c.gen = msg.gen)
    BY Zenon DEF Matching
  <1>. HIDE DEF R
  <1>3. Contents(R) \subseteq Contents(cmds)
    BY <1>2, Zenon DEF Contents
  <1>4. ASSUME NEW c \in Contents(cmds) PROVE c \in Contents(R) \/ (c.kind = msg.cmd /\ c.gen = msg.gen)
    <2>1. PICK d \in cmds : c = Content(d)
      BY Zenon DEF Contents
    <2>2. CASE d \in R
      BY <2>1, <2>2, Zenon DEF Contents
    <2>3. CASE d.kind = msg.cmd /\ d.gen = msg.gen
      BY <2>1, <2>3, ContentFields, Zenon
    <2>. QED BY <1>2, <2>2, <2>3, Zenon
  <1>. QED BY <1>1, <1>3, <1>4, Zenon DEF Rows

(* The commands that recorded evidence acknowledges.                       *)
LEMMA RowsRecord ==
  /\ AssignmentStep => Rows' = Rows \/ Rows' = Unanswered
  /\ recordAssignmentReady \/ assignmentFails => Rows' = Unanswered
  /\ recordLocalGenerationAdvanceResult => Rows' = Rows \/ Rows' = Removed("advance", msg.effect)
  /\ recordLocalWorkspaceResult =>
       (Rows' = Rows /\ fx.create # "queued") \/ Rows' = Removed("create", msg.effect)
  /\ recordLocalWorkspaceDeleteResult => Rows' = Rows \/ Rows' = Removed("delete", msg.effect)
  <1>1. Rows' = Contents(cmds') /\ Rows = Contents(cmds)
    BY Zenon DEF Rows
  <1>2. Contents({c \in cmds : ~(c.kind = "assignment" /\ c.gen = msg.gen)}) = Unanswered
    BY ContentFields DEF Unanswered, Rows, Contents
  <1>3. AcknowledgeAssignment => Rows' = Unanswered
    BY <1>1, <1>2, RankedContents, Zenon DEF AcknowledgeAssignment
  <1>4. recordAssignmentReady \/ assignmentFails => AcknowledgeAssignment
    BY Zenon DEF recordAssignmentReady, assignmentFails
  <1>5. AssignmentStep => cmds' = cmds \/ AcknowledgeAssignment
    BY <1>4, Zenon DEF AssignmentStep, recordAssignmentAck, recordAssignmentFailed
  <1>6. \A k : Acknowledge(k) => Rows' = Removed(k, msg.effect)
    BY <1>1, KeptRows, Zenon DEF Acknowledge
  <1>7. recordLocalGenerationAdvanceResult => cmds' = cmds \/ Acknowledge("advance")
    BY Zenon DEF recordLocalGenerationAdvanceResult
  <1>8. recordLocalWorkspaceResult => (cmds' = cmds /\ fx.create # "queued") \/ Acknowledge("create")
    BY Zenon DEF recordLocalWorkspaceResult
  <1>9. recordLocalWorkspaceDeleteResult => cmds' = cmds \/ Acknowledge("delete")
    BY Zenon DEF recordLocalWorkspaceDeleteResult
  <1>. QED BY <1>1, <1>3, <1>4, <1>5, <1>6, <1>7, <1>8, <1>9, Zenon

(* What the evidence of a fence does, by who awaited it.                   *)
LEMMA RowsFence ==
  ASSUME recordFenceStopped
  PROVE  \/ /\ Authority = {} /\ AcknowledgeMatching /\ UNCHANGED <<slot, stop>>
         \/ /\ slot.kind = "stop" /\ slot.effect \in Authority
            /\ stop[slot.effect].cmd = "advance" /\ UNCHANGED <<slot, stop>> /\ Rows' = Rows
         \/ /\ slot.kind = "stop" /\ slot.effect \in Authority
            /\ Rows' = Removed("lifecycle_fence", "stop") \cup {Command("advance", slot.effect)}
            /\ stop' = [stop EXCEPT ![slot.effect].cmd = "advance"]
            /\ slot' = [slot EXCEPT !.state = "advancing"]
  <1>1. Rows' = Contents(cmds') /\ Rows = Contents(cmds)
    BY Zenon DEF Rows
  <1>2. Contents(Queued(Without("lifecycle_fence", "stop"), Command("advance", slot.effect)))
          = Removed("lifecycle_fence", "stop") \cup {Command("advance", slot.effect)}
    BY KeptRows, QueuedContents
  <1>. QED BY <1>1, <1>2, Zenon DEF recordFenceStopped, FenceAuthority

(***************************************************************************)
(* The connection: what a step leaves in flight.                           *)
(***************************************************************************)
LinkTypes == [up : BOOLEAN, down : Seq(Deliveries), in : Seq(Events)]
Shrinks == /\ link' \in LinkTypes /\ Down' \subseteq Down /\ Evidence' \subseteq Evidence
           /\ link'.down = link.down \/ link'.down = <<>>

(* A connection that ends loses what was in flight and adds nothing.       *)
LEMMA Emptied ==
  ASSUME NEW b \in BOOLEAN, link' = [up |-> b, down |-> <<>>, in |-> <<>>]
  PROVE  Shrinks
  (* A connection of typed queues is typed.                                  *)
  <1>LinkRecord. ASSUME NEW b0 \in BOOLEAN, NEW d \in Seq(Deliveries), NEW e \in Seq(Events)
                 PROVE  [up |-> b0, down |-> d, in |-> e] \in LinkTypes
    BY <1>LinkRecord DEF LinkTypes
  <1>1. link' \in LinkTypes
    <2>1. <<>> \in Seq(Deliveries) /\ <<>> \in Seq(Events)
      BY ONLY TRUE
    <2>. QED BY <2>1, <1>LinkRecord, Zenon
  <1>2. link'.down = <<>> /\ link'.in = <<>>
    OBVIOUS
  <1>3. Elems(<<>>) = {}
    BY DEF Elems
  <1>. QED BY <1>1, <1>2, <1>3, Zenon DEF Shrinks, Down, Evidence

(* Losing, opening and recording never put anything in flight.             *)
LEMMA LinkLoss ==
  ASSUME link \in LinkTypes
  PROVE  /\ OpenConnection \/ Loss \/ RunnerRestart => Shrinks
         /\ RecordStep => Shrinks /\ msg \in Events /\ msg \in Evidence
  (* Recording an event takes it off the connection.                         *)
  <1>HeardNext. ASSUME link \in LinkTypes, link.in # <<>>, Recorded
                PROVE  Shrinks /\ msg \in Events /\ msg \in Evidence
    <2>. USE <1>HeardNext
    <2>1. link.in \in Seq(Events) /\ link' = [link EXCEPT !.in = Tail(link.in)]
      BY Zenon DEF LinkTypes, Recorded
    <2>2. Tail(link.in) \in Seq(Events) /\ Elems(Tail(link.in)) \subseteq Elems(link.in)
          /\ Head(link.in) \in Events /\ Head(link.in) \in Elems(link.in)
      BY <2>1, HeadIn, Zenon
    <2>3. link' \in LinkTypes /\ link'.in = Tail(link.in) /\ link'.down = link.down
      BY <2>1, <2>2, Zenon DEF LinkTypes
    <2>. QED BY <2>2, <2>3, Zenon DEF Shrinks, Down, Evidence, msg
  <1>1. OpenConnection => link' = [up |-> TRUE, down |-> <<>>, in |-> <<>>]
    BY Zenon DEF OpenConnection, NoLink
  <1>2. Loss \/ RunnerRestart => link' = [up |-> FALSE, down |-> <<>>, in |-> <<>>]
    BY Zenon DEF NoLink, Loss, CloseConnection, RefuseStep, RefuseAssignmentEvent, RefuseFenceEvent,
       RefuseLocalWorkspaceResult, RefuseInstanceTerminal, Refuse, Drop, RunnerRestart
  <1>4. RecordStep => link.in # <<>> /\ Recorded
    BY Zenon DEF RecordStep, AssignmentStep, WorkspaceResult, recordAssignmentAck, recordAssignmentReady,
       recordAssignmentFailed, recordFenceStopped, recordFenceFailed, acknowledgeRedundantFenceResult,
       recordLocalGenerationAdvanceResult, recordLocalWorkspaceResult, recordLocalWorkspaceDeleteResult,
       recordInstanceTerminal, reconcileRunnerActiveAssignments, Hears
  <1>. QED BY <1>1, <1>2, <1>4, Emptied, <1>HeardNext, Zenon

(* A claimed command is one of the live commands.                          *)
LEMMA LinkClaim ==
  ASSUME link \in LinkTypes, Rows \subseteq Deliveries, ClaimCommands
  PROVE  \E c \in Rows : /\ link' = [link EXCEPT !.down = Append(link.down, c)]
                         /\ link' \in LinkTypes /\ link'.down = Append(link.down, c)
                         /\ Down' = Down \cup {c} /\ Evidence' = Evidence
  <1>1. PICK r \in cmds : link' = [link EXCEPT !.down = Append(@, Content(r))]
    BY Zenon DEF ClaimCommands
  <1>2. Content(r) \in Rows /\ Content(r) \in Deliveries
    BY Zenon DEF Rows, Contents
  <1>3. link' = [link EXCEPT !.down = Append(link.down, Content(r))]
    BY <1>1, Zenon
  <1>4. link.down \in Seq(Deliveries)
    BY Zenon DEF LinkTypes
  <1>5. /\ Append(link.down, Content(r)) \in Seq(Deliveries)
        /\ Elems(Append(link.down, Content(r))) = Elems(link.down) \cup {Content(r)}
    BY <1>2, <1>4, AppendIn
  <1>6. link' \in LinkTypes /\ link'.down = Append(link.down, Content(r)) /\ link'.in = link.in
    BY <1>3, <1>5, Zenon DEF LinkTypes
  <1>7. Down' = Down \cup {Content(r)}
    BY <1>5, <1>6 DEF Down
  <1>8. Evidence' = Evidence
    BY <1>6, Zenon DEF Evidence
  <1>. QED BY <1>2, <1>3, <1>6, <1>7, <1>8

(* What the Runner adds to the evidence. *)
Adds(M) == /\ link' \in LinkTypes /\ Evidence' = Evidence \cup M

(* An event that the Runner sends is the only one added.                   *)
LEMMA Appended ==
  ASSUME link \in LinkTypes, NEW m \in Events, link' = [link EXCEPT !.in = Append(@, m)]
  PROVE  Adds({m}) /\ link'.down = link.down /\ Down' = Down
  <1>1. link.in \in Seq(Events) /\ link' = [link EXCEPT !.in = Append(link.in, m)]
    BY Zenon DEF LinkTypes
  <1>2. Append(link.in, m) \in Seq(Events) /\ Elems(Append(link.in, m)) = Elems(link.in) \cup {m}
    BY <1>1, AppendIn
  <1>3. link' \in LinkTypes /\ link'.in = Append(link.in, m) /\ link'.down = link.down
    BY <1>1, <1>2, Zenon DEF LinkTypes
  <1>4. Evidence' = Evidence \cup {m}
    BY <1>2, <1>3 DEF Evidence
  <1>. QED BY <1>3, <1>4, Zenon DEF Adds, Down

Taken == link'.down = Tail(link.down) /\ Down' \subseteq Down

(* A handler answers the delivery it took, with the events it names.       *)
LEMMA Replied ==
  ASSUME link \in LinkTypes, link.down # <<>>
  PROVE  /\ Head(link.down) \in Deliveries /\ Head(link.down) \in Down
         /\ \A m \in Events : Reply(<<m>>) => Adds({m}) /\ Taken
         /\ \A m, h \in Events : Reply(<<h, m>>) => Adds({h, m}) /\ Taken
  (* Two messages sent at once are two messages sent in order.               *)
  <1>PairIn. ASSUME NEW S, NEW s \in Seq(S), NEW x \in S, NEW y \in S
             PROVE  s \o <<x, y>> = Append(Append(s, x), y)
    BY <1>PairIn
  (* One message sent is one message appended.                               *)
  <1>SingleIn. ASSUME NEW S, NEW s \in Seq(S), NEW x \in S
               PROVE  s \o <<x>> = Append(s, x)
    BY <1>SingleIn
  <1>1. link.in \in Seq(Events) /\ link.down \in Seq(Deliveries)
    BY Zenon DEF LinkTypes
  <1>2. /\ Head(link.down) \in Deliveries /\ Head(link.down) \in Elems(link.down)
        /\ Tail(link.down) \in Seq(Deliveries) /\ Elems(Tail(link.down)) \subseteq Elems(link.down)
    BY <1>1, HeadIn, Zenon
  <1>3. ASSUME NEW s \in Seq(Events), NEW t, link.in \o t = s, Reply(t)
        PROVE  link' \in LinkTypes /\ link'.down = Tail(link.down) /\ link'.in = s
    <2>1. link' = [link EXCEPT !.down = Tail(link.down), !.in = s]
      BY <1>3, Zenon DEF Reply
    <2>. QED BY <1>2, <2>1, Zenon DEF LinkTypes
  <1>4. Taken <=> link'.down = Tail(link.down)
    BY <1>2, Zenon DEF Taken, Down
  <1>5. ASSUME NEW m \in Events, Reply(<<m>>) PROVE Adds({m}) /\ Taken
    <2>1. link.in \o <<m>> = Append(link.in, m)
      BY <1>1, <1>SingleIn, Zenon
    <2>2. Append(link.in, m) \in Seq(Events) /\ Elems(Append(link.in, m)) = Elems(link.in) \cup {m}
      BY <1>1, AppendIn
    <2>3. link' \in LinkTypes /\ link'.down = Tail(link.down) /\ link'.in = Append(link.in, m)
      BY <1>3, <1>5, <2>1, <2>2, Zenon
    <2>4. Evidence' = Evidence \cup {m}
      BY <2>2, <2>3 DEF Evidence
    <2>. QED BY <1>4, <2>3, <2>4, Zenon DEF Adds
  <1>6. ASSUME NEW m \in Events, NEW h \in Events, Reply(<<h, m>>) PROVE Adds({h, m}) /\ Taken
    <2>. DEFINE s == Append(link.in, h)
    <2>1. link.in \o <<h, m>> = Append(s, m)
      BY <1>1, <1>PairIn
    <2>2. s \in Seq(Events) /\ Elems(s) = Elems(link.in) \cup {h}
      BY <1>1, AppendIn
    <2>. HIDE DEF s
    <2>3. Append(s, m) \in Seq(Events) /\ Elems(Append(s, m)) = Elems(s) \cup {m}
      BY <2>2, AppendIn
    <2>4. link' \in LinkTypes /\ link'.down = Tail(link.down) /\ link'.in = Append(s, m)
      BY <1>3, <1>6, <2>1, <2>3, Zenon
    <2>5. Evidence' = Evidence \cup {h, m}
      BY <2>2, <2>3, <2>4 DEF Evidence
    <2>. QED BY <1>4, <2>4, <2>5, Zenon DEF Adds
  <1>. QED BY <1>2, <1>5, <1>6, Zenon DEF Down

(***************************************************************************)
(* The Runner: what it answers and what it becomes.                        *)
(***************************************************************************)
Answers(k, c) ==
  \/ k = "ack" /\ c = "assignment"
  \/ k = "fence" /\ c \in FenceKinds
  \/ k = "advance" /\ c = "advance"
  \/ k = "create" /\ c = "create"
  \/ k = "delete" /\ c = "delete"
Source(m) ==
  \/ m.kind = "heartbeat" /\ m.gen = 0
  \/ m.kind = "terminal" /\ m.gen = rn.active
  \/ m.kind = "result" /\ m.gen = rn.starting /\ rn.starting # 0
  \/ m.kind \in {"create", "delete"} /\ m.gen = 0
  \/ \E c \in Down : m.gen = c.gen /\ m.effect = c.effect /\ m.cmd = c.kind /\ Answers(m.kind, c.kind)

(* An event has the fields it was built from.                              *)
LEMMA Messages ==
  ASSUME NEW k \in EventKinds, NEW g \in 0 .. MaxGeneration, NEW e \in Effects,
         NEW c \in CommandKinds \cup {"none"}, NEW ok \in BOOLEAN,
         NEW m, m = [kind |-> k, gen |-> g, effect |-> e, cmd |-> c, ok |-> ok]
  PROVE  m \in Events /\ m.kind = k /\ m.gen = g /\ m.effect = e /\ m.cmd = c /\ m.ok = ok
  BY Zenon DEF Events

(* An answer carries the identity of the command it answers.               *)
LEMMA AnswerFields ==
  ASSUME link \in LinkTypes, link.down # <<>>, NEW k \in EventKinds, NEW ok \in BOOLEAN
  PROVE  /\ Answer(k, ok) \in Events /\ Answer(k, ok).kind = k /\ Answer(k, ok).ok = ok
         /\ Answer(k, ok).gen = Head(link.down).gen /\ Answer(k, ok).effect = Head(link.down).effect
         /\ Answer(k, ok).cmd = Head(link.down).kind
  <1>. DEFINE c == Head(link.down)
  <1>1. c \in Deliveries
    BY Replied, Zenon
  <1>2. c.kind \in CommandKinds /\ c.gen \in Generations /\ c.effect \in Effects
    <2>. HIDE DEF c
    <2>. QED BY <1>1, Zenon DEF Deliveries
  <1>3. c.gen \in 0 .. MaxGeneration
    <2>. HIDE DEF c
    <2>. QED BY <1>2, Bounds DEF Generations
  <1>4. Answer(k, ok) = [kind |-> k, gen |-> c.gen, effect |-> c.effect, cmd |-> c.kind, ok |-> ok]
    BY Zenon DEF Answer, Message
  <1>5. c.kind \in CommandKinds \cup {"none"}
    BY <1>2, Zenon
  <1>. HIDE DEF c
  <1>. QED BY <1>2, <1>3, <1>4, <1>5, Messages DEF c

(* A result without evidence names no generation.                          *)
LEMMA NoEvidenceFields ==
  ASSUME link \in LinkTypes, link.down # <<>>, NEW k \in EventKinds
  PROVE  NoEvidence(k) \in Events /\ NoEvidence(k).kind = k /\ NoEvidence(k).gen = 0 /\ ~NoEvidence(k).ok
  <1>. DEFINE a == Answer(k, FALSE)
  <1>1. PICK no \in BOOLEAN : no = FALSE
    BY Zenon
  <1>2. a \in Events /\ a.kind = k /\ a.ok = no
    BY <1>1, AnswerFields, Zenon
  <1>3. 0 \in 0 .. MaxGeneration
    BY Bounds
  <1>4. NoEvidence(k) = [a EXCEPT !.gen = 0]
    BY Zenon DEF NoEvidence
  <1>. HIDE DEF a
  <1>. QED BY <1>1, <1>2, <1>3, <1>4, Zenon DEF Events

(* A heartbeat names no generation.                                        *)
LEMMA Heartbeats ==
  Heartbeat \in Events /\ Heartbeat.kind = "heartbeat" /\ Heartbeat.gen = 0
  <1>1. "heartbeat" \in EventKinds /\ "none" \in Effects /\ "none" \in CommandKinds \cup {"none"}
    BY Zenon DEF EventKinds, Effects
  <1>2. 0 \in 0 .. MaxGeneration
    BY Bounds
  <1>3. Heartbeat \in Events
    BY <1>1, <1>2, Zenon DEF Heartbeat, Events
  <1>. QED BY <1>3 DEF Heartbeat

(* A handler answers the command it takes; a heartbeat may go before. *)
Handled(k) ==
  /\ link.down # <<>> /\ Head(link.down) \in Deliveries /\ Head(link.down) \in Down
  /\ Answers(k, Head(link.down).kind)
  /\ link' \in LinkTypes /\ Taken
  /\ \/ \E ok \in BOOLEAN : Evidence' = Evidence \cup {Answer(k, ok)}
                            \/ Evidence' = Evidence \cup {Heartbeat, Answer(k, ok)}
     \/ k \in {"create", "delete"} /\ Evidence' = Evidence \cup {NoEvidence(k)}

(* Every handler of the Runner answers with its own kind of event.         *)
LEMMA HandlersAnswer ==
  ASSUME link \in LinkTypes
  PROVE  /\ handleAssignment => Handled("ack")
         /\ handleFence => Handled("fence")
         /\ handleAdvance => Handled("advance")
         /\ handleCreate => Handled("create")
         /\ handleDelete => Handled("delete")
  <1>1. ASSUME NEW k \in EventKinds, NEW ok \in BOOLEAN, link.down # <<>>, Answers(k, Head(link.down).kind),
               Reply(<<Answer(k, ok)>>) \/ Reply(<<Heartbeat, Answer(k, ok)>>)
        PROVE  Handled(k)
    <2>1. Answer(k, ok) \in Events
      BY <1>1, AnswerFields, Zenon
    <2>2. \/ Adds({Answer(k, ok)}) /\ Taken
          \/ Adds({Heartbeat, Answer(k, ok)}) /\ Taken
      BY <1>1, <2>1, Replied, Heartbeats, Zenon
    <2>3. Head(link.down) \in Deliveries /\ Head(link.down) \in Down
      BY <1>1, Replied, Zenon
    <2>. QED BY <1>1, <2>2, <2>3, Zenon DEF Handled, Adds
  <1>8. ASSUME NEW k \in {"create", "delete"}, k \in EventKinds, link.down # <<>>,
               Answers(k, Head(link.down).kind), Reply(<<NoEvidence(k)>>)
        PROVE  Handled(k)
    <2>1. NoEvidence(k) \in Events
      BY <1>8, NoEvidenceFields, Zenon
    <2>2. Adds({NoEvidence(k)}) /\ Taken
      BY <1>8, <2>1, Replied, Zenon
    <2>3. Head(link.down) \in Deliveries /\ Head(link.down) \in Down
      BY <1>8, Replied, Zenon
    <2>. QED BY <1>8, <2>2, <2>3, Zenon DEF Handled, Adds
  <1>2. {"ack", "fence", "advance", "create", "delete"} \subseteq EventKinds
    BY Zenon DEF EventKinds
  <1>3. handleAssignment => /\ link.down # <<>> /\ Answers("ack", Head(link.down).kind)
                            /\ \E ok \in BOOLEAN : Reply(<<Answer("ack", ok)>>)
    BY Zenon DEF handleAssignment, Receives, Answers
  <1>4. handleFence => /\ link.down # <<>> /\ Answers("fence", Head(link.down).kind)
                       /\ \E ok \in BOOLEAN : \/ Reply(<<Answer("fence", ok)>>)
                                              \/ Reply(<<Heartbeat, Answer("fence", ok)>>)
    BY Zenon DEF handleFence, Receives, Answers, FenceKinds
  <1>5. handleAdvance => /\ link.down # <<>> /\ Answers("advance", Head(link.down).kind)
                         /\ \E ok \in BOOLEAN : Reply(<<Answer("advance", ok)>>)
    BY Zenon DEF handleAdvance, Receives, Answers
  <1>6. handleCreate => /\ link.down # <<>> /\ Answers("create", Head(link.down).kind)
                        /\ \/ \E ok \in BOOLEAN : Reply(<<Answer("create", ok)>>)
                           \/ Reply(<<NoEvidence("create")>>)
    BY Zenon DEF handleCreate, Receives, Answers
  <1>7. handleDelete => /\ link.down # <<>> /\ Answers("delete", Head(link.down).kind)
                        /\ \/ \E ok \in BOOLEAN : Reply(<<Answer("delete", ok)>>)
                           \/ Reply(<<NoEvidence("delete")>>)
    BY Zenon DEF handleDelete, Receives, Answers
  <1>. QED BY <1>1, <1>2, <1>3, <1>4, <1>5, <1>6, <1>7, <1>8, Zenon

SameCompute == rn'.run = rn.run /\ rn'.active = rn.active /\ rn'.starting = rn.starting
SameImage == rn'.manifest = rn.manifest /\ rn'.receipts = rn.receipts
ComputeChange ==
  /\ SameImage
  /\ \/ rn'.run = rn.run /\ rn'.active = rn.active /\ rn'.starting \in {0, rn.starting}
     \/ rn'.run = 0 /\ rn'.active \in {0, rn.active} /\ rn'.starting \in {0, rn.starting}
     \/ /\ rn.starting # 0 /\ CanStart(rn.starting)
        /\ rn'.run = rn.starting /\ rn'.active = rn.starting /\ rn'.starting = 0
     \/ /\ handleAssignment /\ rn'.starting = Head(link.down).gen
        /\ rn'.run = rn.run /\ rn'.active = rn.active
ImageChange ==
  /\ SameCompute
  /\ \/ /\ handleAdvance /\ rn.run = 0 /\ rn.manifest = Head(link.down).gen
        /\ rn'.manifest = rn.manifest + 1
        /\ rn'.receipts = rn.receipts \cup {<<Head(link.down).effect, Head(link.down).gen>>}
     \/ /\ handleCreate /\ rn'.receipts = rn.receipts
        /\ rn'.manifest = IF rn.manifest = 0 THEN 1 ELSE rn.manifest
     \/ /\ handleDelete /\ rn.run = 0 /\ rn.starting = 0
        /\ rn'.manifest = 0 /\ rn'.receipts = {}

(* How a start, a stop and an exit change the Runner's compute.            *)
LEMMA RunnerForms ==
  ASSUME rn \in RnTypes
  PROVE  /\ rn' = [rn EXCEPT !.starting = 0] => ComputeChange
         /\ rn.starting # 0 /\ CanStart(rn.starting) /\ rn' = Started(rn.starting) => ComputeChange
         /\ rn' = [rn EXCEPT !.run = 0, !.starting = 0, !.active = 0, !.exited = FALSE] => ComputeChange
         /\ rn' = [rn EXCEPT !.run = 0, !.exited = TRUE] => ComputeChange
         /\ rn' = [rn EXCEPT !.run = 0, !.active = 0] => ComputeChange
         /\ rn' = [rn EXCEPT !.exited = FALSE, !.starting = IF rn.active = 0 THEN 0 ELSE @] => ComputeChange
         /\ rn' = rn => ComputeChange
  <1>1. ASSUME rn' = [rn EXCEPT !.starting = 0] PROVE ComputeChange
    BY <1>1, Zenon DEF RnTypes, ComputeChange, SameImage
  <1>2. ASSUME rn.starting # 0, CanStart(rn.starting), rn' = Started(rn.starting) PROVE ComputeChange
    BY <1>2, Zenon DEF RnTypes, ComputeChange, SameImage, Started
  <1>3. ASSUME rn' = [rn EXCEPT !.run = 0, !.starting = 0, !.active = 0, !.exited = FALSE] PROVE ComputeChange
    BY <1>3, Zenon DEF RnTypes, ComputeChange, SameImage
  <1>4. ASSUME rn' = [rn EXCEPT !.run = 0, !.exited = TRUE] PROVE ComputeChange
    BY <1>4, Zenon DEF RnTypes, ComputeChange, SameImage
  <1>5. ASSUME rn' = [rn EXCEPT !.run = 0, !.active = 0] PROVE ComputeChange
    BY <1>5, Zenon DEF RnTypes, ComputeChange, SameImage
  <1>6. ASSUME rn' = [rn EXCEPT !.exited = FALSE, !.starting = IF rn.active = 0 THEN 0 ELSE @]
        PROVE  ComputeChange
    BY <1>6, Zenon DEF RnTypes, ComputeChange, SameImage
  <1>7. ASSUME rn' = rn PROVE ComputeChange
    BY <1>7, Zenon DEF ComputeChange, SameImage
  <1>. QED BY <1>1, <1>2, <1>3, <1>4, <1>5, <1>6, <1>7, Zenon

(* A Runner step changes its compute or its image, never both.             *)
LEMMA RunnerDelta ==
  ASSUME rn \in RnTypes, RunnerStep
  PROVE  ComputeChange \/ ImageChange
  <1>1. CASE handleAdvance
    <2>. DEFINE c == Head(link.down)
    <2>1. \/ rn' = rn
          \/ /\ rn.manifest = c.gen /\ rn.run = 0
             /\ rn' = [rn EXCEPT !.manifest = @ + 1, !.receipts = @ \cup {<<c.effect, c.gen>>}]
      BY <1>1, Zenon DEF handleAdvance
    <2>. HIDE DEF c
    <2>2. ASSUME rn' = [rn EXCEPT !.manifest = @ + 1, !.receipts = @ \cup {<<c.effect, c.gen>>}]
          PROVE  /\ rn'.manifest = rn.manifest + 1 /\ rn'.receipts = rn.receipts \cup {<<c.effect, c.gen>>}
                 /\ SameCompute
      BY <2>2 DEF RnTypes, SameCompute
    <2>. QED BY <1>1, <2>1, <2>2, RunnerForms, Zenon DEF ImageChange, c
  <1>2. CASE handleCreate
    <2>1. \/ rn' = rn
          \/ rn' = [rn EXCEPT !.manifest = IF @ = 0 THEN 1 ELSE @]
      BY <1>2, Zenon DEF handleCreate
    <2>2. ASSUME rn' = [rn EXCEPT !.manifest = IF @ = 0 THEN 1 ELSE @]
          PROVE  /\ rn'.receipts = rn.receipts /\ SameCompute
                 /\ rn'.manifest = IF rn.manifest = 0 THEN 1 ELSE rn.manifest
      BY <2>2 DEF RnTypes, SameCompute
    <2>. QED BY <1>2, <2>1, <2>2, RunnerForms, Zenon DEF ImageChange
  <1>3. CASE handleDelete
    <2>1. \/ rn' = rn
          \/ rn.run = 0 /\ rn.starting = 0 /\ rn' = [rn EXCEPT !.manifest = 0, !.receipts = {}]
      BY <1>3, Zenon DEF handleDelete
    <2>2. ASSUME rn' = [rn EXCEPT !.manifest = 0, !.receipts = {}]
          PROVE  rn'.receipts = {} /\ rn'.manifest = 0 /\ SameCompute
      BY <2>2, Zenon DEF RnTypes, SameCompute
    <2>. QED BY <1>3, <2>1, <2>2, RunnerForms, Zenon DEF ImageChange
  <1>4. CASE handleAssignment
    <2>1. rn' = rn \/ rn' = [rn EXCEPT !.starting = Head(link.down).gen]
      BY <1>4, Zenon DEF handleAssignment
    <2>2. ASSUME rn' = [rn EXCEPT !.starting = Head(link.down).gen] PROVE ComputeChange
      BY <1>4, <2>2, Zenon DEF RnTypes, ComputeChange, SameImage
    <2>. QED BY <2>1, <2>2, RunnerForms, Zenon
  <1>5. CASE StartAssignment \/ Loss
    <2>1. \/ rn' = [rn EXCEPT !.starting = 0]
          \/ rn.starting # 0 /\ CanStart(rn.starting) /\ rn' = Started(rn.starting)
      BY <1>5, Zenon DEF StartAssignment, Loss, CloseConnection, RefuseStep, RefuseAssignmentEvent,
         RefuseFenceEvent, RefuseLocalWorkspaceResult, RefuseInstanceTerminal, Refuse, Drop
    <2>. QED BY <2>1, RunnerForms, Zenon
  <1>6. CASE handleFence
    <2>1. rn' = rn \/ rn' = [rn EXCEPT !.run = 0, !.active = 0]
      BY <1>6, Zenon DEF handleFence
    <2>. QED BY <2>1, RunnerForms, Zenon
  <1>7. sendHeartbeat => rn' = rn
    BY Zenon DEF sendHeartbeat
  <1>8. sendInstanceTerminal => rn' = [rn EXCEPT !.exited = FALSE, !.starting = IF rn.active = 0 THEN 0 ELSE @]
    BY Zenon DEF sendInstanceTerminal
  <1>9. GuestExit => rn' = [rn EXCEPT !.run = 0, !.exited = TRUE]
    BY Zenon DEF GuestExit
  <1>10. RunnerRestart => rn' = [rn EXCEPT !.run = 0, !.starting = 0, !.active = 0, !.exited = FALSE]
    BY Zenon DEF RunnerRestart
  <1>. QED BY <1>1, <1>2, <1>3, <1>4, <1>5, <1>6, <1>7, <1>8, <1>9, <1>10, RunnerForms, Zenon DEF RunnerStep, Runner

(***************************************************************************)
(* Where commands, deliveries and evidence come from.                      *)
(***************************************************************************)

LEMMA CommandFields ==
  ASSUME NEW k, NEW e
  PROVE  Command(k, e).kind = k /\ Command(k, e).gen = sb.gen /\ Command(k, e).effect = e
  BY DEF Command

(* The effect a stop uses is one of the stop effects.                      *)
LEMMA StopEffectIn ==
  ASSUME InstanceInv
  PROVE  StopEffect \in StopEffects
  BY Zenon DEF InstanceInv, StopEffect, LatestStop, StopEffects

Added(c) ==
  \/ c = Fence /\ \E w \in Workers : StopStep(w)
  \/ /\ \E w \in Workers : StopStep(w)
     /\ c = Command("advance", StopEffect) /\ stop[StopEffect].cmd = "advance"
  \/ c = Command("delete", "none") /\ \E w \in Workers : DeleteStep(w)
  \/ c = Command("assignment", "none") /\ (ApplyRetry \/ \E w \in Workers : scheduleOnce(w))
  \/ c = Command("fence", "none") /\ FenceStep
  \/ /\ c = Command("advance", "loss") /\ AdvanceFencedGeneration
     /\ stop' = [stop EXCEPT !["loss"] =
                   [state |-> "queued", cmd |-> "advance", left |-> StopRetryLimit]]
  \/ /\ c = Command("advance", slot.effect) /\ recordFenceStopped /\ slot.effect \in StopEffects
     /\ stop' = [stop EXCEPT ![slot.effect].cmd = "advance"]

(* Every command is queued by a step that asks for it.                     *)
LEMMA RowsAdded ==
  ASSUME Types, InstanceInv, [Next]_vars
  PROVE  \A c \in Rows' : c \in Rows \/ Added(c)
  <1>0. stop \in StopTypes /\ StopEffect \in StopEffects
    BY StopEffectIn, Zenon DEF Types
  <1>1. UNCHANGED cmds => Rows' = Rows
    BY Zenon DEF Rows
  <1>2. \A k, e : Removed(k, e) \subseteq Rows /\ Dropped(k) \subseteq Rows
    BY Zenon DEF Removed, Dropped
  <1>3. Unanswered \subseteq Rows
    BY Zenon DEF Unanswered
  <1>4. ASSUME NEW w \in Workers, StopStep(w) PROVE \A c \in Rows' : c \in Rows \/ Added(c)
    <2>1. CASE queueStop(w)
      BY <1>4, <2>1, RowsWorker, Zenon DEF Added
    <2>2. CASE \E p \in BOOLEAN : resumeStopEffect(w, p)
      <3>1. Rows' \subseteq Rows \cup {StopCommand(StopEffect)}
        BY <1>0, <1>2, <2>2, RowsResume
      <3>2. StopCommand(StopEffect) = Fence
            \/ (StopCommand(StopEffect) = Command("advance", StopEffect) /\ stop[StopEffect].cmd = "advance")
        BY Zenon DEF StopCommand, Fence
      <3>. QED BY <1>4, <3>1, <3>2, Zenon DEF Added
    <2>. QED BY <1>4, <2>1, <2>2, Zenon DEF StopStep
  <1>5. ASSUME NEW w \in Workers, DeleteStep(w) PROVE \A c \in Rows' : c \in Rows \/ Added(c)
    <2>1. Rows' \subseteq Rows \cup {Command("delete", "none")}
      BY <1>2, <1>5, RowsWorker DEF DeleteStep
    <2>. QED BY <1>5, <2>1, Zenon DEF Added
  <1>6. ASSUME NEW w \in Workers, scheduleOnce(w) PROVE \A c \in Rows' : c \in Rows \/ Added(c)
    BY <1>6, RowsWorker, Zenon DEF Added
  <1>7. FenceStep \/ ApplyRetry \/ TerminalStep \/ OpenConnection \/ ClaimCommands =>
          \A c \in Rows' : c \in Rows \/ Added(c)
    BY <1>2, RowsReconciler, Zenon DEF Added
  <1>8. AdvanceFencedGeneration => \A c \in Rows' : c \in Rows \/ Added(c)
    BY <1>2, RowsAdvance, Zenon DEF Added
  <1>9. AssignmentStep \/ WorkspaceResult => \A c \in Rows' : c \in Rows \/ Added(c)
    BY <1>2, <1>3, RowsRecord, Zenon DEF WorkspaceResult
  <1>10. acknowledgeRedundantFenceResult => AcknowledgeMatching
    BY Zenon DEF acknowledgeRedundantFenceResult
  <1>11. recordFenceStopped => \A c \in Rows' : c \in Rows \/ Added(c)
    BY <1>2, RowsFence, RowsMatching, Zenon DEF Added, Authority
  <1>. QED BY <1>1, <1>4, <1>5, <1>6, <1>7, <1>8, <1>9, <1>10, <1>11, RowsMatching, Steps, Zenon DEF RowStep

(* A queued command names the current generation.                          *)
LEMMA AddedNow ==
  ASSUME NEW c, Added(c)
  PROVE  c.gen = sb.gen
  <1>1. PICK k, e : c = Command(k, e)
    BY Zenon DEF Added, Fence
  <1>2. Command(k, e).gen = sb.gen
    BY CommandFields
  <1>. QED BY <1>1, <1>2

(* What is in flight to the Runner was a live command; what is in flight   *)
(* from it, the Runner sent.                                               *)
LEMMA LinkDelta ==
  ASSUME Types, [Next]_vars
  PROVE  /\ link' \in LinkTypes
         /\ Down' \subseteq Down \/ (ClaimCommands /\ Evidence' = Evidence)
         /\ Down' \subseteq Down \cup Rows
         /\ Evidence' \subseteq Evidence \/ Runner
         /\ \A m \in Evidence' : m \in Evidence \/ Source(m)
  (* What the Runner puts in flight comes from a delivery or from itself.    *)
  <1>RunnerEvidence. ASSUME link \in LinkTypes, rn \in RnTypes, Runner
                     PROVE  /\ link' \in LinkTypes /\ Down' \subseteq Down
                            /\ \A m \in Evidence' : m \in Evidence \/ Source(m)
    <2>. USE <1>RunnerEvidence
    <2>1. ASSUME NEW k \in EventKinds, Handled(k)
          PROVE  /\ link' \in LinkTypes /\ Down' \subseteq Down
                 /\ \A m \in Evidence' : m \in Evidence \/ Source(m)
      <3>1. link.down # <<>> /\ Head(link.down) \in Down /\ Answers(k, Head(link.down).kind)
        BY <2>1, Zenon DEF Handled
      <3>2. Source(Heartbeat)
        BY Heartbeats, Zenon DEF Source
      <3>3. \A ok \in BOOLEAN : Source(Answer(k, ok))
        BY <3>1, AnswerFields, Zenon DEF Source
      <3>4. k \in {"create", "delete"} => Source(NoEvidence(k))
        BY <3>1, NoEvidenceFields, Zenon DEF Source
      <3>5. \A m \in Evidence' : \/ m \in Evidence \/ m = Heartbeat
                                 \/ \E ok \in BOOLEAN : m = Answer(k, ok)
                                 \/ k \in {"create", "delete"} /\ m = NoEvidence(k)
        BY <2>1, Zenon DEF Handled
      <3>. QED BY <2>1, <3>2, <3>3, <3>4, <3>5, Zenon DEF Handled, Taken
    <2>2. ASSUME NEW m \in Events, Source(m), link' = [link EXCEPT !.in = Append(@, m)]
          PROVE  /\ link' \in LinkTypes /\ Down' \subseteq Down
                 /\ \A x \in Evidence' : x \in Evidence \/ Source(x)
      BY <2>2, Appended, Zenon DEF Adds
    <2>3. ASSUME StartAssignment
          PROVE  /\ link' \in LinkTypes /\ Down' \subseteq Down
                 /\ \A x \in Evidence' : x \in Evidence \/ Source(x)
      <3>. DEFINE c == [gen |-> rn.starting, effect |-> "none", kind |-> "assignment"]
      <3>1. PICK ok \in BOOLEAN : link' = [link EXCEPT !.in = Append(@, Message("result", c, ok))]
        BY <2>3, Zenon DEF StartAssignment
      <3>2. rn.starting # 0 /\ rn.starting \in 0 .. MaxGeneration
        BY <2>3, Zenon DEF StartAssignment, RnTypes
      <3>3. "result" \in EventKinds /\ "none" \in Effects /\ "assignment" \in CommandKinds \cup {"none"}
        BY Zenon DEF EventKinds, Effects, CommandKinds
      <3>4. Message("result", c, ok)
              = [kind |-> "result", gen |-> rn.starting, effect |-> "none", cmd |-> "assignment", ok |-> ok]
        BY DEF Message
      <3>. DEFINE m == Message("result", c, ok)
      <3>5. m \in Events /\ m.kind = "result" /\ m.gen = rn.starting
        <4>. HIDE DEF m, c
        <4>. QED BY <3>2, <3>3, <3>4, Messages DEF m
      <3>6. Source(m)
        <4>. HIDE DEF m
        <4>. QED BY <3>2, <3>5, Zenon DEF Source
      <3>7. link' = [link EXCEPT !.in = Append(@, m)]
        BY <3>1, Zenon
      <3>. HIDE DEF m
      <3>. QED BY <2>2, <3>5, <3>6, <3>7, Zenon
    <2>4. sendHeartbeat => link' = [link EXCEPT !.in = Append(@, Heartbeat)]
      BY Zenon DEF sendHeartbeat
    <2>5. ASSUME sendInstanceTerminal
          PROVE  /\ link' \in LinkTypes /\ Down' \subseteq Down
                 /\ \A x \in Evidence' : x \in Evidence \/ Source(x)
      <3>. DEFINE c == [gen |-> rn.active, effect |-> "none", kind |-> "none"]
                  m == Message("terminal", c, TRUE)
      <3>1. link' = NoLink \/ link' = [link EXCEPT !.in = Append(@, m)]
        BY <2>5, Zenon DEF sendInstanceTerminal
      <3>2. m = [kind |-> "terminal", gen |-> rn.active, effect |-> "none", cmd |-> "none", ok |-> TRUE]
        BY DEF Message
      <3>3. rn.active \in 0 .. MaxGeneration /\ "terminal" \in EventKinds /\ "none" \in Effects
            /\ "none" \in CommandKinds \cup {"none"}
        BY Zenon DEF RnTypes, EventKinds, Effects
      <3>. HIDE DEF m
      <3>. HIDE DEF c
      <3>4. m \in Events /\ m.kind = "terminal" /\ m.gen = rn.active
        <4>1. PICK t \in BOOLEAN : t = TRUE
          BY Zenon
        <4>2. m = [kind |-> "terminal", gen |-> rn.active, effect |-> "none", cmd |-> "none", ok |-> t]
          BY <3>2, <4>1, Zenon
        <4>. QED BY <3>3, <4>2, Messages
      <3>5. Source(m)
        BY <3>4, Zenon DEF Source
      <3>6. link' = NoLink => Shrinks
        BY Emptied, Zenon DEF NoLink
      <3>. QED BY <2>2, <3>1, <3>4, <3>5, <3>6, Zenon DEF Shrinks
    <2>6. {"ack", "fence", "advance", "create", "delete"} \subseteq EventKinds /\ Source(Heartbeat)
      BY Heartbeats, Zenon DEF EventKinds, Source
    <2>. QED BY <2>1, <2>2, <2>3, <2>4, <2>5, <2>6, HandlersAnswer, Heartbeats, Zenon DEF Runner
  <1>1. link \in LinkTypes /\ rn \in RnTypes /\ Rows \subseteq Deliveries
    BY Zenon DEF Types, LinkTypes
  <1>2. UNCHANGED link => Down' = Down /\ Evidence' = Evidence
    BY Zenon DEF Down, Evidence
  <1>3. OpenConnection \/ Loss \/ RunnerRestart \/ RecordStep => Shrinks
    BY <1>1, LinkLoss, Zenon
  <1>4. ASSUME ClaimCommands
        PROVE  link' \in LinkTypes /\ Down' \subseteq Down \cup Rows /\ Evidence' = Evidence
    <2>1. PICK c \in Rows : link' \in LinkTypes /\ Down' = Down \cup {c} /\ Evidence' = Evidence
      BY <1>1, <1>4, LinkClaim, Zenon
    <2>. QED BY <2>1, Zenon
  <1>5. Runner => /\ link' \in LinkTypes /\ Down' \subseteq Down
                  /\ \A m \in Evidence' : m \in Evidence \/ Source(m)
    BY <1>1, <1>RunnerEvidence, Zenon
  <1>. QED BY <1>1, <1>2, <1>3, <1>4, <1>5, Steps, Zenon DEF LinkStep, Shrinks

(* No generation is named before it is committed, and generations grow.    *)
LEMMA GenStep ==
  ASSUME Types, InstanceInv, GenInv, RunInv, [Next]_vars, WorkspaceInv, PlanInv
  PROVE  GenInv' /\ sb' \in SbTypes /\ sb.gen <= sb'.gen
  <1>0. sb.gen \in Nat
    BY DEF Types, SbTypes, Generations
  <1>1. sb' \in SbTypes /\ sb.gen <= sb'.gen
    <2>1. SbKept => sb' \in SbTypes /\ sb'.gen = sb.gen
      BY Zenon DEF SbKept
    <2>2. \A w \in Workers : ApplyFinishStop(w) => sb' \in SbTypes /\ sb'.gen = sb.gen + 1
      BY FinishRow, Zenon
    <2>3. \A w \in Workers : scheduleOnce(w) => sb' \in SbTypes /\ sb'.gen = sb.gen
      BY PlacedRow, Zenon
    <2>4. sb' \in SbTypes /\ (sb'.gen = sb.gen \/ sb'.gen = sb.gen + 1)
      BY <2>1, <2>2, <2>3, Identity, Zenon
    <2>. QED BY <1>0, <2>4
  <1>2. sb'.gen \in Nat
    BY <1>1 DEF SbTypes, Generations
  <1>3. \A m \in Rows \cup Down \cup Evidence : m.gen <= sb.gen
    BY Zenon DEF GenInv
  <1>4. \A m \in Rows' \cup Down' \cup Evidence' : m.gen \in Nat
    <2>1. Rows \subseteq Deliveries /\ link' \in LinkTypes
      BY LinkDelta, Zenon DEF Types
    <2>2. Down' \subseteq Deliveries /\ Evidence' \subseteq Events
      BY <2>1, ElemsIn, Zenon DEF LinkTypes, Down, Evidence
    <2>3. \A m \in Deliveries \cup Events : m.gen \in Nat
      BY DEF Deliveries, Events, Generations
    <2>. QED BY <1>0, <2>1, <2>2, <2>3, RowsAdded, AddedNow, Zenon
  <1>5. \A m \in Rows' \cup Down' : m.gen <= sb.gen
    <2>1. sb.gen <= sb.gen
      BY <1>0
    <2>. QED BY <1>3, <2>1, RowsAdded, AddedNow, LinkDelta, Zenon
  <1>6. \A m \in Evidence' : m.gen <= sb.gen
    <2>1. rn.active <= sb.gen /\ 0 <= sb.gen /\ (rn.starting # 0 => rn.starting <= sb.gen)
      BY <1>0 DEF RunInv
    <2>2. \A m : Source(m) => m.gen <= sb.gen
      BY <1>3, <2>1, Zenon DEF Source
    <2>. QED BY <1>3, <2>2, LinkDelta, Zenon
  <1>7. ASSUME NEW m, m.gen <= sb.gen, m.gen \in Nat PROVE m.gen <= sb'.gen
    BY <1>0, <1>1, <1>2, <1>7
  <1>. QED BY <1>1, <1>4, <1>5, <1>6, <1>7, Zenon DEF GenInv

(***************************************************************************)
(* The Assignment, its state machine.                                      *)
(***************************************************************************)
AsgChange ==
  \/ asg'.state = asg.state
  \/ asg'.state = "none" /\ \E w \in Workers : ApplyFinishStop(w)
  \/ asg'.state = "assigned" /\ \E w \in Workers : scheduleOnce(w)
  \/ asg'.state = "uncertain" /\ asg.state \in {"assigned", "starting", "ready"} /\ MarkExpiredRunners
  \/ asg'.state = "fencing" /\ asg.state # "none" /\ FenceStep
  \/ asg'.state = "assigned" /\ asg.state = "failed" /\ ApplyRetry
  \/ asg'.state = "failed_terminal" /\ asg.state # "none" /\ TerminalStep
  \/ asg'.state = "released" /\ asg.state = "fenced" /\ AdvanceFencedGeneration
  \/ asg'.state = "starting" /\ asg.state = "assigned" /\ recordAssignmentAck
  \/ asg'.state = "ready" /\ asg.state \in {"assigned", "starting"} /\ recordAssignmentReady
  \/ asg'.state = "failed" /\ asg.state \in {"assigned", "starting"} /\ assignmentFails /\ AssignmentStep
  \/ asg'.state \in {"fenced", "released"} /\ recordFenceStopped
  \/ asg'.state = "uncertain" /\ recordFenceFailed
  \/ asg'.state = "uncertain" /\ asg.state = "ready" /\ reconcileRunnerActiveAssignments

(* Writing the Assignment's state and class.                               *)
LEMMA AsgRecord ==
  ASSUME asg \in AsgTypes, NEW s, NEW c
  PROVE  /\ asg' = [asg EXCEPT !.state = s] => asg'.state = s
         /\ asg' = [asg EXCEPT !.state = s, !.class = c] => asg'.state = s
         /\ s \in {"starting", "ready", "failed", "fenced", "released", "uncertain", "failed_terminal"} =>
              /\ asg' = [asg EXCEPT !.state = s] => asg' \in AsgTypes
              /\ c \in {"transient", "other", "fencing"} /\ asg' = [asg EXCEPT !.state = s, !.class = c] =>
                   asg' \in AsgTypes
  <1>1. ASSUME asg' = [asg EXCEPT !.state = s] PROVE asg'.state = s
    BY <1>1, Zenon DEF AsgTypes
  <1>2. ASSUME asg' = [asg EXCEPT !.state = s, !.class = c] PROVE asg'.state = s
    BY <1>2, Zenon DEF AsgTypes
  <1>3. ASSUME s \in {"starting", "ready", "failed", "fenced", "released", "uncertain", "failed_terminal"},
               asg' = [asg EXCEPT !.state = s]
        PROVE  asg' \in AsgTypes
    BY <1>3, Zenon DEF AsgTypes
  <1>4. ASSUME s \in {"starting", "ready", "failed", "fenced", "released", "uncertain", "failed_terminal"},
               c \in {"transient", "other", "fencing"}, asg' = [asg EXCEPT !.state = s, !.class = c]
        PROVE  asg' \in AsgTypes
    BY <1>4, Zenon DEF AsgTypes
  <1>. QED BY <1>1, <1>2, <1>3, <1>4, Zenon

(* The transitions of the Assignment's state.                              *)
LEMMA AsgDelta ==
  ASSUME Types, [Next]_vars
  PROVE  asg' \in AsgTypes /\ AsgChange
  <1>. DEFINE G == asg' \in AsgTypes /\ AsgChange
  <1>0. asg \in AsgTypes
    BY Zenon DEF Types
  <1>1. UNCHANGED asg => G
    BY <1>0, Zenon DEF AsgChange
  <1>2. ASSUME NEW w \in Workers, ApplyFinishStop(w) \/ scheduleOnce(w) PROVE G
    <2>1. \/ asg' = NoAssignment /\ ApplyFinishStop(w)
          \/ asg' = [NoAssignment EXCEPT !.state = "assigned"] /\ scheduleOnce(w)
      BY <1>2, Zenon DEF ApplyFinishStop, scheduleOnce
    <2>2. 0 \in 0 .. FenceRetryLimit
      BY Bounds
    <2>3. asg' = NoAssignment => asg' \in AsgTypes /\ asg'.state = "none"
      <3>1. NoAssignment.state = "none"
        BY DEF NoAssignment
      <3>2. NoAssignment \in AsgTypes
        BY <2>2, Zenon DEF NoAssignment, AsgTypes
      <3>. QED BY <3>1, <3>2, Zenon
    <2>4. asg' = [NoAssignment EXCEPT !.state = "assigned"] => asg' \in AsgTypes /\ asg'.state = "assigned"
      BY <2>2, Zenon DEF NoAssignment, AsgTypes
    <2>. QED BY <2>1, <2>3, <2>4, Zenon DEF AsgChange
  <1>3. MarkExpiredRunners => G
    BY <1>0, AsgRecord, Zenon DEF MarkExpiredRunners, AsgChange
  <1>4. ASSUME NEW late \in BOOLEAN, ApplyFence(late) PROVE G
    <2>. DEFINE c == IF asg.state = "uncertain" \/ asg.class = "fencing" THEN "fencing" ELSE "startup_timeout"
                n == IF asg.state = "fencing" THEN asg.retries + 1 ELSE 0
    <2>1. asg' = [state |-> "fencing", class |-> c, retries |-> n] /\ DecidesFence(late)
      BY <1>4, Zenon DEF ApplyFence
    <2>2. asg.state # "none" /\ (asg.state = "fencing" => asg.retries < FenceRetryLimit)
      BY <2>1, Zenon DEF DecidesFence
    <2>3. n \in 0 .. FenceRetryLimit
      BY <1>0, <2>2, Bounds DEF AsgTypes
    <2>4. c \in {"fencing", "startup_timeout"}
      BY Zenon
    <2>. HIDE DEF c, n
    <2>5. asg' \in AsgTypes /\ asg'.state = "fencing"
      BY <2>1, <2>3, <2>4, Zenon DEF AsgTypes
    <2>. QED BY <1>4, <2>2, <2>5, Zenon DEF AsgChange, FenceStep
  <1>5. ASSUME ApplyRetry PROVE G
    <2>1. asg' = [state |-> "assigned", class |-> "none", retries |-> asg.retries + 1]
          /\ asg.retries < FenceRetryLimit /\ asg.state = "failed"
      BY <1>5, Zenon DEF ApplyRetry
    <2>2. asg.retries + 1 \in 0 .. FenceRetryLimit
      BY <1>0, <2>1, Bounds DEF AsgTypes
    <2>3. asg' \in AsgTypes /\ asg'.state = "assigned"
      BY <2>1, <2>2, Zenon DEF AsgTypes
    <2>. QED BY <1>5, <2>1, <2>3, Zenon DEF AsgChange
  <1>6. ASSUME TerminalStep PROVE G
    <2>1. asg' = [asg EXCEPT !.state = "failed_terminal"] /\ asg.state # "none"
      BY <1>6, Zenon DEF TerminalStep, ApplyFailTerminal, DecidesTerminal
    <2>. QED BY <1>0, <1>6, <2>1, AsgRecord, Zenon DEF AsgChange
  <1>7. ASSUME AdvanceFencedGeneration PROVE G
    <2>1. asg' = [asg EXCEPT !.state = "released"] /\ asg.state = "fenced"
      BY <1>7, Zenon DEF AdvanceFencedGeneration
    <2>. QED BY <1>0, <1>7, <2>1, AsgRecord, Zenon DEF AsgChange
  <1>8. ASSUME AssignmentStep PROVE G
    <2>1. ASSUME assignmentFails, asg.state \in {"assigned", "starting"} PROVE G
      <3>1. PICK c \in {"transient", "other"} : asg' = [asg EXCEPT !.state = "failed", !.class = c]
        BY <2>1, Zenon DEF assignmentFails
      <3>2. asg' \in AsgTypes /\ asg'.state = "failed"
        BY <1>0, <3>1, AsgRecord, Zenon
      <3>. QED BY <1>8, <2>1, <3>2, Zenon DEF AsgChange
    <2>2. CASE recordAssignmentAck
      <3>1. \/ assignmentFails /\ asg.state \in {"assigned", "starting"}
            \/ asg' = [asg EXCEPT !.state = IF @ = "assigned" THEN "starting" ELSE @]
        BY <2>2, Zenon DEF recordAssignmentAck
      <3>. DEFINE s == IF asg.state = "assigned" THEN "starting" ELSE asg.state
      <3>2. ASSUME asg' = [asg EXCEPT !.state = s] PROVE G
        <4>1. s \in {"none", "assigned", "starting", "ready", "uncertain", "failed",
                     "fencing", "fenced", "released", "failed_terminal"}
          BY <1>0, Zenon DEF AsgTypes
        <4>2. (s = "starting" /\ asg.state = "assigned") \/ s = asg.state
          BY Zenon
        <4>. HIDE DEF s
        <4>3. asg' \in AsgTypes /\ asg'.state = s
          BY <1>0, <3>2, <4>1, Zenon DEF AsgTypes
        <4>. QED BY <2>2, <4>2, <4>3, Zenon DEF AsgChange
      <3>. QED BY <2>1, <3>1, <3>2, Zenon
    <2>3. CASE recordAssignmentReady
      <3>1. \/ UNCHANGED asg
            \/ asg.state \in {"assigned", "starting"} /\ asg' = [asg EXCEPT !.state = "ready"]
        BY <2>3, Zenon DEF recordAssignmentReady
      <3>. QED BY <1>0, <1>1, <2>3, <3>1, AsgRecord, Zenon DEF AsgChange
    <2>4. CASE recordAssignmentFailed
      BY <2>1, <2>4, Zenon DEF recordAssignmentFailed
    <2>. QED BY <1>8, <2>2, <2>3, <2>4, Zenon DEF AssignmentStep
  <1>9. ASSUME recordFenceStopped PROVE G
    <2>1. asg' = [asg EXCEPT !.state = "fenced"] \/ asg' = [asg EXCEPT !.state = "released"]
      BY <1>9, Zenon DEF recordFenceStopped
    <2>. QED BY <1>0, <1>9, <2>1, AsgRecord, Zenon DEF AsgChange
  <1>10. ASSUME recordFenceFailed PROVE G
    <2>1. asg' = [asg EXCEPT !.state = "uncertain", !.class = "fencing"]
      BY <1>10, Zenon DEF recordFenceFailed
    <2>. QED BY <1>0, <1>10, <2>1, AsgRecord, Zenon DEF AsgChange
  <1>11. ASSUME reconcileRunnerActiveAssignments PROVE G
    <2>1. \/ UNCHANGED asg
          \/ asg.state = "ready" /\ asg' = [asg EXCEPT !.state = "uncertain", !.class = "transient"]
      BY <1>11, Zenon DEF reconcileRunnerActiveAssignments
    <2>. QED BY <1>0, <1>1, <1>11, <2>1, AsgRecord, Zenon DEF AsgChange
  <1>. QED
    <2>. HIDE DEF G
    <2>1. G
      BY <1>1, <1>2, <1>3, <1>4, <1>5, <1>6, <1>7, <1>8, <1>9, <1>10, <1>11, Steps, Zenon DEF AsgStep, FenceStep
    <2>. QED BY <2>1, Zenon DEF G

(***************************************************************************)
(* The mutation slot: who takes it and who gives it up.                    *)
(***************************************************************************)
SlotSame ==
  /\ slot'.kind = slot.kind
  /\ slot.kind = "start" => slot'.state = slot.state
  /\ slot.kind = "stop" => slot'.effect = slot.effect
Released0 == slot'.kind = "none"
SlotChange ==
  \/ SlotSame
  \/ slot'.kind \in {"none", "start"} /\ \E w \in Workers : ApplyFinishStop(w)
  \/ /\ slot'.kind = "stop" /\ slot'.effect = StopEffect /\ AcquiresStop
     /\ \E w \in Workers : StopStep(w)
  \/ /\ Released0 /\ \E w \in Workers : StopStep(w)
  \/ slot'.kind = "delete" /\ \E w \in Workers : DeleteStep(w)
  \/ slot'.kind = "start" /\ slot'.state = "assigned" /\ \E w \in Workers : scheduleOnce(w)
  \/ Released0 /\ ~sb.inst /\ slot.kind \in {"none", "start"} /\ \E w \in Workers : EndStart(w)
  \/ Released0 /\ slot.kind \in {"none", "start"} /\ TerminalStep
  \/ slot'.kind = "stop" /\ slot'.effect = "loss" /\ slot.kind \in {"none", "start"} /\ AdvanceFencedGeneration
  \/ Released0 /\ slot.kind = "start" /\ recordAssignmentReady /\ asg.state \in {"assigned", "starting"} /\ asg'.state = "ready"
  \/ slot'.kind \in {"none", "start"} /\ fx.create = "queued" /\ msg.ok /\ ws' = "ready" /\ recordLocalWorkspaceResult
  \/ Released0 /\ ws = "deleting" /\ recordLocalWorkspaceDeleteResult
  \/ slot'.kind = "start" /\ slot'.state = "queued" /\ slot.kind = "none" /\ Intent

(* Writing the mutation slot.                                              *)
LEMMA SlotRecord ==
  ASSUME slot \in SlotTypes, NEW k, NEW s, NEW e, NEW n \in 0 .. MaxOperations
  PROVE  /\ slot' = NoSlot => slot' \in SlotTypes /\ slot'.kind = "none"
         /\ k \in {"start", "stop", "delete"} /\ s \in {"queued", "assigned", "stopping", "advancing", "deleting"}
            /\ e \in {"none", "live", "stop", "loss"}
            /\ slot' = [kind |-> k, state |-> s, effect |-> e, op |-> n] =>
              slot' \in SlotTypes /\ slot'.kind = k /\ slot'.state = s /\ slot'.effect = e
         /\ s \in {"advancing", "runner_succeeded", "failed"} /\ slot' = [slot EXCEPT !.state = s] =>
              slot' \in SlotTypes /\ slot'.kind = slot.kind /\ slot'.effect = slot.effect
         /\ e \in {"expired", "acknowledged"} /\ slot' = SlotCommand(e) => slot' \in SlotTypes /\ SlotSame
         /\ slot' = [slot EXCEPT !.kind = "start"] => slot' \in SlotTypes /\ slot'.kind = "start"
  <1>1. ASSUME slot' = NoSlot PROVE slot' \in SlotTypes /\ slot'.kind = "none"
    <2>1. 0 \in 0 .. MaxOperations
      BY Bounds
    <2>2. NoSlot \in SlotTypes
      BY <2>1, Zenon DEF NoSlot, SlotTypes
    <2>3. NoSlot.kind = "none"
      BY DEF NoSlot
    <2>. QED BY <1>1, <2>2, <2>3, Zenon
  <1>2. ASSUME k \in {"start", "stop", "delete"}, s \in {"queued", "assigned", "stopping", "advancing", "deleting"},
               e \in {"none", "live", "stop", "loss"}, slot' = [kind |-> k, state |-> s, effect |-> e, op |-> n]
        PROVE  slot' \in SlotTypes /\ slot'.kind = k /\ slot'.state = s /\ slot'.effect = e
    <2>1. slot' \in SlotTypes
      BY <1>2, Zenon DEF SlotTypes, StopEffects
    <2>2. slot'.kind = k /\ slot'.state = s /\ slot'.effect = e
      BY ONLY <1>2
    <2>. QED BY <2>1, <2>2, Zenon
  <1>3. ASSUME s \in {"advancing", "runner_succeeded", "failed"}, slot' = [slot EXCEPT !.state = s]
        PROVE  slot' \in SlotTypes /\ slot'.kind = slot.kind /\ slot'.effect = slot.effect
    BY <1>3, Zenon DEF SlotTypes
  <1>4. ASSUME e \in {"expired", "acknowledged"}, slot' = SlotCommand(e)
        PROVE  slot' \in SlotTypes /\ SlotSame
    <2>1. slot' = slot => slot' \in SlotTypes /\ SlotSame
      BY Zenon DEF SlotSame
    <2>2. ASSUME slot' = [slot EXCEPT !.effect = e], slot.kind = "start" PROVE slot' \in SlotTypes /\ SlotSame
      <3>1. slot' \in SlotTypes /\ slot'.kind = slot.kind /\ slot'.state = slot.state
        BY <1>4, <2>2, Zenon DEF SlotTypes
      <3>. QED BY <2>2, <3>1, Zenon DEF SlotSame
    <2>. QED BY <1>4, <2>1, <2>2, Zenon DEF SlotCommand
  <1>5. ASSUME slot' = [slot EXCEPT !.kind = "start"] PROVE slot' \in SlotTypes /\ slot'.kind = "start"
    BY <1>5, Zenon DEF SlotTypes
  <1>. QED BY <1>1, <1>2, <1>3, <1>4, <1>5, Zenon

(* A slot taken, or kept, for a stop.                                      *)
LEMMA SlotStop ==
  ASSUME slot \in SlotTypes, StopEffect \in StopEffects, AcquiresStop \/ slot.kind = "stop",
         NEW x, x = StopSlot(StopEffect), slot' = x \/ slot' = [x EXCEPT !.state = "advancing"]
  PROVE  /\ slot' \in SlotTypes
         /\ SlotSame \/ (AcquiresStop /\ slot'.kind = "stop" /\ slot'.effect = StopEffect)
         /\ slot'.kind = "stop" /\ slot'.effect = StopEffect
  <1>1. CASE AcquiresStop
    <2>1. x = [kind |-> "stop", state |-> "stopping", effect |-> StopEffect, op |-> 0]
      BY <1>1, Zenon DEF StopSlot, NoSlot
    <2>2. 0 \in 0 .. MaxOperations
      BY Bounds
    <2>3. x \in SlotTypes
      <3>1. StopEffect \in {"none", "live", "acknowledged", "expired"} \cup StopEffects
        BY Zenon
      <3>2. "stop" \in {"none", "create", "start", "stop", "delete"}
            /\ "stopping" \in {"none", "queued", "assigned", "stopping", "advancing",
                              "runner_succeeded", "failed", "deleting"}
        BY ONLY TRUE
      <3>. QED BY ONLY <2>1, <2>2, <3>1, <3>2, Zenon DEF SlotTypes
    <2>4. x.kind = "stop" /\ x.effect = StopEffect
      BY ONLY <2>1
    <2>5. slot' \in SlotTypes /\ slot'.kind = "stop" /\ slot'.effect = StopEffect
      <3>1. CASE slot' = x
        BY <2>3, <2>4, <3>1, Zenon
      <3>2. CASE slot' = [x EXCEPT !.state = "advancing"]
        BY <2>3, <2>4, <3>2, Zenon DEF SlotTypes
      <3>. QED BY <3>1, <3>2, Zenon
    <2>. QED BY <1>1, <2>5, Zenon
  <1>2. CASE ~AcquiresStop
    <2>1. x = slot /\ slot.kind = "stop" /\ StopEffect = slot.effect
      BY <1>2, Zenon DEF StopSlot, StopEffect
    <2>2. slot' \in SlotTypes /\ slot'.kind = slot.kind /\ slot'.effect = slot.effect
      <3>1. 0 \in 0 .. MaxOperations
        BY Bounds
      <3>. QED BY <2>1, <3>1, SlotRecord, Zenon
    <2>. QED BY <2>1, <2>2, Zenon DEF SlotSame
  <1>. QED BY <1>1, <1>2, Zenon

(* How any step moves the slot.                                            *)
LEMMA SlotDelta ==
  ASSUME Types, InstanceInv, WorkspaceInv, [Next]_vars
  PROVE  slot' \in SlotTypes /\ SlotChange
  (* A slot taken for a start or a deletion.                                 *)
  <1>SlotStart. ASSUME slot \in SlotTypes, NEW n \in 0 .. MaxOperations
                PROVE  /\ slot' = [NoSlot EXCEPT !.kind = "start", !.state = "queued", !.op = n] =>
                            slot' \in SlotTypes /\ slot'.kind = "start" /\ slot'.state = "queued"
                       /\ slot' = DeleteSlot => slot' \in SlotTypes /\ slot'.kind = "delete"
    <2>. USE <1>SlotStart
    <2>1. ASSUME slot' = [NoSlot EXCEPT !.kind = "start", !.state = "queued", !.op = n]
          PROVE  slot' \in SlotTypes /\ slot'.kind = "start" /\ slot'.state = "queued"
      <3>1. slot' = [kind |-> "start", state |-> "queued", effect |-> "none", op |-> n]
        BY <2>1, Zenon DEF NoSlot
      <3>. QED BY <3>1, SlotRecord, Zenon
    <2>2. ASSUME slot' = DeleteSlot PROVE slot' \in SlotTypes /\ slot'.kind = "delete"
      <3>1. slot' = [kind |-> "delete", state |-> "deleting", effect |-> "none", op |-> 0]
        BY <2>2, Zenon DEF NoSlot, DeleteSlot
      <3>2. 0 \in 0 .. MaxOperations
        BY Bounds
      <3>. QED BY <3>1, <3>2, SlotRecord, Zenon
    <2>. QED BY <2>1, <2>2, Zenon
  (* How a worker's steps move the slot.                                     *)
  <1>SlotWorker. ASSUME Types, InstanceInv, NEW w \in Workers
                 PROVE  /\ ApplyFinishStop(w) => slot' \in SlotTypes /\ SlotChange
                        /\ StopStep(w) => slot' \in SlotTypes /\ SlotChange
                        /\ DeleteStep(w) => slot' \in SlotTypes /\ SlotChange
                        /\ scheduleOnce(w) => slot' \in SlotTypes /\ SlotChange
                        /\ EndStart(w) => slot' \in SlotTypes /\ SlotChange
    <2>. USE <1>SlotWorker
    <2>0. slot \in SlotTypes /\ sb \in SbTypes /\ stop \in StopTypes /\ ops \subseteq OpsTypes
          /\ work[w] \in WorkTypes
      BY Zenon DEF Types
    <2>1. SlotSame => SlotChange
      BY Zenon DEF SlotChange
    <2>2. slot' = slot => slot' \in SlotTypes /\ SlotChange
      BY <2>0, <2>1, Zenon DEF SlotSame
    <2>3. slot' = NoSlot => slot' \in SlotTypes /\ slot'.kind = "none"
      <3>1. 0 \in 0 .. MaxOperations
        BY Bounds
      <3>. QED BY <2>0, <3>1, SlotRecord, Zenon
    <2>4. ASSUME ApplyFinishStop(w) PROVE slot' \in SlotTypes /\ SlotChange
      <3>. DEFINE restarts == IF sb.desired = "running" THEN Pending({"start"}) ELSE {}
      <3>1. \/ slot' = NoSlot
            \/ \E o \in restarts : slot' = [NoSlot EXCEPT !.kind = "start", !.state = "queued", !.op = o.n]
        BY <2>4, Zenon DEF ApplyFinishStop
      <3>2. slot' = NoSlot => slot' \in SlotTypes /\ SlotChange
        BY <2>3, <2>4, Zenon DEF SlotChange
      <3>3. ASSUME NEW o \in restarts, slot' = [NoSlot EXCEPT !.kind = "start", !.state = "queued", !.op = o.n]
            PROVE  slot' \in SlotTypes /\ SlotChange
        <4>1. o \in ops
          BY <3>3, Zenon DEF Pending
        <4>2. o.n \in 1 .. MaxOperations
          BY <2>0, <4>1, Zenon DEF OpsTypes
        <4>3. o.n \in 0 .. MaxOperations
          BY <4>2, Bounds
        <4>4. slot' \in SlotTypes /\ slot'.kind = "start"
          BY <2>0, <3>3, <4>3, <1>SlotStart, Zenon
        <4>. QED BY <2>4, <4>4, Zenon DEF SlotChange
      <3>. HIDE DEF restarts
      <3>. QED BY <3>1, <3>2, <3>3, Zenon
    <2>5. ASSUME StopStep(w) PROVE slot' \in SlotTypes /\ SlotChange
      <3>1. StopEffect \in StopEffects
        BY StopEffectIn, Zenon
      <3>2. AcquiresStop \/ slot.kind = "stop"
        BY <2>5, Zenon DEF StopStep, queueStop, resumeStopEffect, StopAdmissible
      <3>. DEFINE x == StopSlot(StopEffect)
      <3>3. slot' = x \/ slot' = [x EXCEPT !.state = "advancing"] \/ slot' = NoSlot
        <4>1. queueStop(w) => slot' = x
          BY Zenon DEF queueStop
        <4>2. ASSUME NEW p \in BOOLEAN, resumeStopEffect(w, p)
              PROVE  slot' = x \/ slot' = [x EXCEPT !.state = "advancing"] \/ slot' = NoSlot
          BY <2>0, <3>1, <4>2, RowsResume, Zenon
        <4>. QED BY <2>5, <4>1, <4>2, Zenon DEF StopStep
      <3>4. CASE slot' = NoSlot
        BY <2>3, <2>5, <3>4, Zenon DEF SlotChange, Released0
      <3>5. CASE slot' = x \/ slot' = [x EXCEPT !.state = "advancing"]
        <4>1. slot' \in SlotTypes /\ (SlotSame \/ (AcquiresStop /\ slot'.kind = "stop" /\ slot'.effect = StopEffect))
          <5>. HIDE DEF x
          <5>1. x = StopSlot(StopEffect)
            BY Zenon DEF x
          <5>. QED BY <2>0, <3>1, <3>2, <3>5, <5>1, SlotStop, Zenon
        <4>. QED BY <2>1, <2>5, <4>1, Zenon DEF SlotChange
      <3>. QED BY <3>3, <3>4, <3>5, Zenon
    <2>6. ASSUME DeleteStep(w) PROVE slot' \in SlotTypes /\ SlotChange
      <3>1. slot' = slot \/ slot' = DeleteSlot
        BY <2>6, Zenon DEF DeleteStep, queueWorkspaceDelete, resumeWorkspaceDeleteEffect
      <3>2. ASSUME slot' = DeleteSlot PROVE slot' \in SlotTypes /\ slot'.kind = "delete"
        <4>1. 0 \in 0 .. MaxOperations
          BY Bounds
        <4>. QED BY <2>0, <3>2, <4>1, <1>SlotStart, Zenon
      <3>. QED BY <2>2, <2>6, <3>1, <3>2, Zenon DEF SlotChange
    <2>7. ASSUME scheduleOnce(w) PROVE slot' \in SlotTypes /\ SlotChange
      <3>1. slot' = [kind |-> "start", state |-> "assigned", effect |-> "live", op |-> work[w].op]
        BY <2>7, Zenon DEF scheduleOnce
      <3>2. work[w].op \in 0 .. MaxOperations
        BY <2>0, Zenon DEF WorkTypes
      <3>3. slot' \in SlotTypes
        BY <3>1, <3>2, Zenon DEF SlotTypes
      <3>4. slot'.kind = "start" /\ slot'.state = "assigned"
        BY ONLY <3>1
      <3>. QED BY <2>7, <3>3, <3>4, Zenon DEF SlotChange
    <2>8. ASSUME EndStart(w) PROVE slot' \in SlotTypes /\ SlotChange
      <3>1. slot' = NoSlot /\ ~sb.inst /\ slot.kind \in {"none", "start"}
        BY <2>8, Zenon DEF EndStart, failStartPreparation, expireStartCapacityWait, PlanCurrent
      <3>. QED BY <2>3, <2>8, <3>1, Zenon DEF SlotChange, Released0
    <2>. QED BY <2>4, <2>5, <2>6, <2>7, <2>8, Zenon
  (* Progress of a slot keeps its holder.                                    *)
  <1>SlotMoved. ASSUME slot \in SlotTypes, NEW s \in {"advancing", "runner_succeeded", "failed"},
                       slot' = [slot EXCEPT !.state = s], slot.kind # "start"
                PROVE  slot' \in SlotTypes /\ SlotSame
    <2>. USE <1>SlotMoved
    <2>1. slot' \in SlotTypes /\ slot'.kind = slot.kind /\ slot'.effect = slot.effect
      BY Zenon DEF SlotTypes
    <2>. QED BY <2>1, Zenon DEF SlotSame
  (* How the reconciler and recorded evidence move the slot.                 *)
  <1>SlotRecorded. ASSUME Types, InstanceInv, WorkspaceInv
                   PROVE  /\ FenceStep \/ ApplyRetry => slot' \in SlotTypes /\ SlotChange
                          /\ TerminalStep => slot' \in SlotTypes /\ SlotChange
                          /\ AdvanceFencedGeneration => slot' \in SlotTypes /\ SlotChange
                          /\ AssignmentStep => slot' \in SlotTypes /\ SlotChange
                          /\ recordFenceStopped => slot' \in SlotTypes /\ SlotChange
                          /\ recordLocalGenerationAdvanceResult => slot' \in SlotTypes /\ SlotChange
                          /\ recordLocalWorkspaceResult => slot' \in SlotTypes /\ SlotChange
                          /\ recordLocalWorkspaceDeleteResult => slot' \in SlotTypes /\ SlotChange
                          /\ Intent => slot' \in SlotTypes /\ SlotChange
    <2>. USE <1>SlotRecorded
    <2>0. slot \in SlotTypes /\ sb \in SbTypes
      BY Zenon DEF Types
    <2>1. SlotSame => SlotChange
      BY Zenon DEF SlotChange
    <2>2. slot' = slot => slot' \in SlotTypes /\ SlotChange
      BY <2>0, <2>1, Zenon DEF SlotSame
    <2>n. 0 \in 0 .. MaxOperations
      BY Bounds
    <2>3. slot' = NoSlot => slot' \in SlotTypes /\ slot'.kind = "none"
      BY <2>0, <2>n, SlotRecord, Zenon
    <2>4. ASSUME NEW e \in {"expired", "acknowledged"}, slot' = SlotCommand(e)
          PROVE  slot' \in SlotTypes /\ SlotChange
      BY <2>0, <2>1, <2>4, <2>n, SlotRecord, Zenon
    <2>5. ASSUME NEW s \in {"advancing", "runner_succeeded", "failed"},
                 slot' = [slot EXCEPT !.state = s], slot.kind # "start"
          PROVE  slot' \in SlotTypes /\ SlotChange
      BY <2>0, <2>1, <2>5, <1>SlotMoved, Zenon
    <2>6. ASSUME FenceStep \/ ApplyRetry PROVE slot' \in SlotTypes /\ SlotChange
      <3>1. slot' = SlotCommand("expired")
        BY <2>6, Zenon DEF FenceStep, ApplyFence, ApplyRetry
      <3>. QED BY <2>4, <3>1, Zenon
    <2>7. ASSUME TerminalStep PROVE slot' \in SlotTypes /\ SlotChange
      <3>1. slot' = NoSlot /\ slot.kind \in {"none", "start"}
        BY <2>7, Zenon DEF TerminalStep, ApplyFailTerminal
      <3>. QED BY <2>3, <2>7, <3>1, Zenon DEF SlotChange, Released0
    <2>8. ASSUME AdvanceFencedGeneration PROVE slot' \in SlotTypes /\ SlotChange
      <3>1. \/ slot' = slot
            \/ /\ slot.kind \in {"none", "start"}
               /\ slot' = [kind |-> "stop", state |-> "advancing", effect |-> "loss", op |-> 0]
        BY <2>8, RowsAdvance, Zenon DEF ReplaceFencedStart
      <3>2. ASSUME slot' = [kind |-> "stop", state |-> "advancing", effect |-> "loss", op |-> 0]
            PROVE  slot' \in SlotTypes /\ slot'.kind = "stop" /\ slot'.effect = "loss"
        <4>1. slot' \in SlotTypes
          BY <2>n, <3>2, Zenon DEF SlotTypes, StopEffects
        <4>2. slot'.kind = "stop" /\ slot'.effect = "loss"
          BY ONLY <3>2
        <4>. QED BY <4>1, <4>2, Zenon
      <3>. QED BY <2>2, <2>8, <3>1, <3>2, Zenon DEF SlotChange
    <2>9. ASSUME AssignmentStep PROVE slot' \in SlotTypes /\ SlotChange
      <3>1. recordAssignmentAck \/ recordAssignmentFailed => slot' = slot \/ slot' = SlotCommand("acknowledged")
        BY Zenon DEF recordAssignmentAck, recordAssignmentFailed, assignmentFails
      <3>2. ASSUME recordAssignmentReady PROVE slot' \in SlotTypes /\ SlotChange
        <4>1. \/ slot' = slot
              \/ /\ slot' = NoSlot /\ slot.kind = "start" /\ asg.state \in {"assigned", "starting"}
                 /\ asg' = [asg EXCEPT !.state = "ready"]
          BY <3>2, Zenon DEF recordAssignmentReady
        <4>2. asg' = [asg EXCEPT !.state = "ready"] => asg'.state = "ready"
          BY AsgRecord, Zenon DEF Types
        <4>. QED BY <2>2, <2>3, <3>2, <4>1, <4>2, Zenon DEF SlotChange, Released0
      <3>. QED BY <2>2, <2>4, <2>9, <3>1, <3>2, Zenon DEF AssignmentStep
    <2>10. ASSUME recordFenceStopped PROVE slot' \in SlotTypes /\ SlotChange
      <3>1. slot' = slot \/ (slot.kind = "stop" /\ slot' = [slot EXCEPT !.state = "advancing"])
        BY <2>10, RowsFence, Zenon
      <3>. QED BY <2>2, <2>5, <3>1, Zenon
    <2>11. ASSUME recordLocalGenerationAdvanceResult PROVE slot' \in SlotTypes /\ SlotChange
      <3>. DEFINE s == IF AdvanceOutcome = "runner_succeeded" THEN AdvanceOutcome ELSE "failed"
      <3>1. slot.kind = "stop" /\ (slot' = slot \/ slot' = [slot EXCEPT !.state = s])
        BY <2>11, Zenon DEF recordLocalGenerationAdvanceResult, AdvanceAuthority
      <3>2. s \in {"runner_succeeded", "failed"}
        BY Zenon
      <3>. HIDE DEF s
      <3>. QED BY <2>2, <2>5, <3>1, <3>2, Zenon
    <2>12. ASSUME recordLocalWorkspaceResult PROVE slot' \in SlotTypes /\ SlotChange
      <3>1. \/ slot' = slot
            \/ /\ fx.create = "queued" /\ msg.ok /\ ws' = "ready"
               /\ slot' = NoSlot \/ slot' = [slot EXCEPT !.kind = "start"]
            \/ fx.create = "queued" /\ slot' = [slot EXCEPT !.state = "failed"]
        BY <2>12, Zenon DEF recordLocalWorkspaceResult
      <3>2. slot' = [slot EXCEPT !.kind = "start"] => slot' \in SlotTypes /\ slot'.kind = "start"
        BY <2>0, <2>n, SlotRecord, Zenon
      <3>3. fx.create = "queued" => slot.kind = "create"
        BY Zenon DEF WorkspaceInv
      <3>. QED BY <2>2, <2>3, <2>5, <2>12, <3>1, <3>2, <3>3, Zenon DEF SlotChange
    <2>13. ASSUME recordLocalWorkspaceDeleteResult PROVE slot' \in SlotTypes /\ SlotChange
      <3>1. \/ slot' = slot
            \/ slot' = NoSlot /\ ws = "deleting"
        BY <2>13, Zenon DEF recordLocalWorkspaceDeleteResult, DeleteAuthority
      <3>. QED BY <2>2, <2>3, <2>5, <2>13, <3>1, Zenon DEF SlotChange, Released0
    <2>14. ASSUME Intent PROVE slot' \in SlotTypes /\ SlotChange
      <3>. DEFINE n == sb.issued + 1
      <3>1. \/ slot' = slot
            \/ /\ sb.issued < MaxOperations /\ slot.kind = "none"
               /\ slot' = [NoSlot EXCEPT !.kind = "start", !.state = "queued", !.op = n]
        BY <2>14, Zenon DEF Intent, SetSandboxDesiredState
      <3>2. sb.issued < MaxOperations => n \in 0 .. MaxOperations
        <4>1. sb.issued \in 1 .. MaxOperations
          BY <2>0, Zenon DEF SbTypes
        <4>. QED BY <4>1, Bounds
      <3>. HIDE DEF n
      <3>. QED BY <2>0, <2>2, <2>14, <3>1, <3>2, <1>SlotStart, Zenon DEF SlotChange
    <2>. QED BY <2>6, <2>7, <2>8, <2>9, <2>10, <2>11, <2>12, <2>13, <2>14, Zenon
  <1>1. slot \in SlotTypes /\ (slot' = slot => SlotChange)
    BY Zenon DEF Types, SlotSame, SlotChange
  <1>. QED BY <1>1, Steps, <1>SlotWorker, <1>SlotRecorded, Zenon DEF SlotStep, WorkspaceResult

(***************************************************************************)
(* The stop effects.                                                       *)
(***************************************************************************)
Effect == [state : EffectStates, cmd : {"none", "fence", "advance"}, left : 0 .. StopRetryLimit]
StopSame(e) == stop'[e].state = stop[e].state /\ stop'[e].cmd = stop[e].cmd
StopChange(e) ==
  \/ StopSame(e)
  \/ stop'[e].state = "none" /\ stop'[e].cmd = "none" /\ \E w \in Workers : ApplyFinishStop(w)
  \/ /\ stop'[e].state = "queued" /\ stop'[e].cmd = "fence" /\ stop[e].state = "none"
     /\ e = StopEffect /\ Fence \in Rows' /\ slot'.kind = "stop" /\ slot'.effect = e
     /\ \E w \in Workers : StopStep(w)
  \/ /\ stop'[e].state = "runner_failed" /\ stop'[e].cmd = stop[e].cmd /\ stop[e].state # "none"
     /\ e = StopEffect /\ \E w \in Workers : StopStep(w)
  \/ /\ stop'[e].state = "queued" /\ stop'[e].cmd = stop[e].cmd /\ stop[e].state # "none"
     /\ e = StopEffect /\ StopCommand(e) \in Rows' /\ slot'.kind = "stop" /\ slot'.effect = e
     /\ \E w \in Workers : StopStep(w)
  \/ /\ stop'[e].state = "queued" /\ stop'[e].cmd = "advance" /\ e = "loss"
     /\ Command("advance", e) \in Rows' /\ slot'.kind = "stop" /\ slot'.effect = e
     /\ AdvanceFencedGeneration
  \/ /\ stop'[e].state = stop[e].state /\ stop'[e].cmd = "advance" /\ e = slot.effect
     /\ stop[e].state = "queued" /\ Command("advance", e) \in Rows'
     /\ slot'.kind = "stop" /\ slot'.effect = e /\ recordFenceStopped
  \/ /\ stop'[e].state \in {"runner_succeeded", "runner_failed"} /\ stop'[e].cmd = stop[e].cmd
     /\ stop'[e].state = "runner_succeeded" => msg.ok
     /\ e = msg.effect /\ stop[e].state # "none"
     /\ AdvanceAuthority /\ Hears("advance") /\ recordLocalGenerationAdvanceResult

(* Replacing one stop effect leaves the others.                            *)
LEMMA StopReplaced ==
  ASSUME stop \in StopTypes, NEW e \in StopEffects, NEW d \in StopEffects, NEW x \in Effect,
         stop' = [stop EXCEPT ![d] = x]
  PROVE  stop' \in StopTypes /\ (e # d => stop'[e] = stop[e]) /\ (e = d => stop'[e] = x)
  BY DEF StopTypes, Effect

(* Recording an effect's outcome leaves its command.                       *)
LEMMA StopAnswered ==
  ASSUME stop \in StopTypes, NEW e \in StopEffects, NEW d \in StopEffects, NEW x \in EffectStates,
         stop' = [stop EXCEPT ![d].state = x]
  PROVE  /\ stop' \in StopTypes
         /\ e # d => stop'[e] = stop[e]
         /\ e = d => stop'[e].state = x /\ stop'[e].cmd = stop[e].cmd
  <1>. DEFINE y == [stop[d] EXCEPT !.state = x]
  <1>1. stop' = [stop EXCEPT ![d] = y]
    OBVIOUS
  <1>2. stop[d] \in Effect
    BY DEF StopTypes, Effect
  <1>3. y \in Effect /\ y.state = x /\ y.cmd = stop[d].cmd
    BY <1>2, Zenon DEF Effect
  <1>. HIDE DEF y
  <1>4. stop' \in StopTypes /\ (e # d => stop'[e] = stop[e]) /\ (e = d => stop'[e] = y)
    BY <1>1, <1>3, StopReplaced, Zenon
  <1>. QED BY <1>3, <1>4, Zenon

(* Turning a fence effect into an advance leaves its state.                *)
LEMMA StopAdvanced ==
  ASSUME stop \in StopTypes, NEW e \in StopEffects, NEW d \in StopEffects,
         stop' = [stop EXCEPT ![d].cmd = "advance"]
  PROVE  /\ stop' \in StopTypes
         /\ e # d => stop'[e] = stop[e]
         /\ e = d => stop'[e].state = stop[e].state /\ stop'[e].cmd = "advance"
  <1>. DEFINE y == [stop[d] EXCEPT !.cmd = "advance"]
  <1>1. stop' = [stop EXCEPT ![d] = y]
    OBVIOUS
  <1>2. stop[d] \in Effect
    BY DEF StopTypes, Effect
  <1>3. y \in Effect /\ y.state = stop[d].state /\ y.cmd = "advance"
    BY <1>2, Zenon DEF Effect
  <1>. HIDE DEF y
  <1>4. stop' \in StopTypes /\ (e # d => stop'[e] = stop[e]) /\ (e = d => stop'[e] = y)
    BY <1>1, <1>3, StopReplaced, Zenon
  <1>. QED BY <1>3, <1>4, Zenon

(* How any step changes a stop effect.                                     *)
LEMMA StopDelta ==
  ASSUME Types, InstanceInv, [Next]_vars
  PROVE  stop' \in StopTypes /\ \A e \in StopEffects : StopChange(e)
  (* What resuming a stop does to an effect.                                 *)
  <1>StopResumed. ASSUME Types, InstanceInv, NEW w \in Workers, NEW p \in BOOLEAN, resumeStopEffect(w, p), NEW e \in StopEffects
                  PROVE  stop' \in StopTypes /\ StopChange(e)
    <2>. USE <1>StopResumed
    <2>. DEFINE d == StopEffect
                x == StopSlot(d)
    <2>1. stop \in StopTypes /\ slot \in SlotTypes /\ d \in StopEffects
      BY StopEffectIn, Zenon DEF Types
    <2>2. stop[d].state # "none" /\ (AcquiresStop \/ slot.kind = "stop")
      BY Zenon DEF resumeStopEffect, StopAdmissible
    <2>3. \E v \in Workers : StopStep(v)
      BY Zenon DEF StopStep
    <2>4. \/ stop' = stop
          \/ stop' = [stop EXCEPT ![d].state = "runner_failed"]
          \/ /\ StopCommand(d) \in Rows'
             /\ \E n \in 0 .. StopRetryLimit :
                  stop' = [stop EXCEPT ![d] = [state |-> "queued", cmd |-> stop[d].cmd, left |-> n]]
             /\ slot' = x \/ slot' = [x EXCEPT !.state = "advancing"]
      <3>. HIDE DEF x
      <3>1. ASSUME NEW K, Rows' = K \cup {StopCommand(d)} PROVE StopCommand(d) \in Rows'
        BY <3>1, Zenon
      <3>. QED BY <2>1, <3>1, RowsResume, Zenon DEF x
    <2>5. CASE stop' = stop
      BY <2>1, <2>5, Zenon DEF StopChange, StopSame
    <2>6. CASE stop' = [stop EXCEPT ![d].state = "runner_failed"]
      <3>. HIDE DEF d
      <3>1. "runner_failed" \in EffectStates
        BY Zenon DEF EffectStates
      <3>2. /\ stop' \in StopTypes /\ (e # d => stop'[e] = stop[e])
            /\ e = d => stop'[e].state = "runner_failed" /\ stop'[e].cmd = stop[e].cmd
        BY <2>1, <2>6, <3>1, StopAnswered, Zenon
      <3>3. e # d => StopSame(e)
        BY <3>2, Zenon DEF StopSame
      <3>. QED BY <2>2, <2>3, <3>2, <3>3, Zenon DEF StopChange, d
    <2>7. CASE /\ StopCommand(d) \in Rows'
               /\ \E n \in 0 .. StopRetryLimit :
                    stop' = [stop EXCEPT ![d] = [state |-> "queued", cmd |-> stop[d].cmd, left |-> n]]
               /\ slot' = x \/ slot' = [x EXCEPT !.state = "advancing"]
      <3>1. PICK n \in 0 .. StopRetryLimit :
              stop' = [stop EXCEPT ![d] = [state |-> "queued", cmd |-> stop[d].cmd, left |-> n]]
        BY <2>7, Zenon
      <3>2. slot'.kind = "stop" /\ slot'.effect = d
        <4>. HIDE DEF x
        <4>1. x = StopSlot(d)
          BY Zenon DEF x
        <4>. QED BY <2>1, <2>2, <2>7, <4>1, SlotStop, Zenon
      <3>. DEFINE y == [state |-> "queued", cmd |-> stop[d].cmd, left |-> n]
      <3>3. stop[d].cmd \in {"none", "fence", "advance"}
        BY <2>1 DEF StopTypes
      <3>4. y \in Effect
        BY <3>3, Zenon DEF Effect, EffectStates
      <3>5. y.state = "queued" /\ y.cmd = stop[d].cmd
        BY Zenon
      <3>6. stop' = [stop EXCEPT ![d] = y]
        BY <3>1, Zenon
      <3>. HIDE DEF y, d, x
      <3>7. stop' \in StopTypes /\ (e # d => stop'[e] = stop[e]) /\ (e = d => stop'[e] = y)
        BY <2>1, <3>4, <3>6, StopReplaced, Zenon
      <3>8. e # d => StopSame(e)
        BY <3>7, Zenon DEF StopSame
      <3>9. e = d => /\ stop'[e].state = "queued" /\ stop'[e].cmd = stop[e].cmd /\ stop[e].state # "none"
                     /\ e = StopEffect /\ StopCommand(e) \in Rows' /\ slot'.kind = "stop" /\ slot'.effect = e
        BY <2>2, <2>7, <3>2, <3>5, <3>7, Zenon DEF d
      <3>. QED BY <2>3, <3>7, <3>8, <3>9, Zenon DEF StopChange
    <2>. QED BY <2>4, <2>5, <2>6, <2>7, Zenon
  (* What queueing a stop does to an effect.                                 *)
  <1>StopQueued. ASSUME Types, InstanceInv, NEW w \in Workers, queueStop(w), NEW e \in StopEffects
                 PROVE  stop' \in StopTypes /\ StopChange(e)
    <2>. USE <1>StopQueued
    <2>. DEFINE d == StopEffect
                y == [state |-> "queued", cmd |-> "fence", left |-> StopRetryLimit]
                x == StopSlot(d)
    <2>1. stop \in StopTypes /\ slot \in SlotTypes /\ d \in StopEffects
      BY StopEffectIn, Zenon DEF Types
    <2>2. /\ stop[d].state = "none" /\ (AcquiresStop \/ slot.kind = "stop")
          /\ stop' = [stop EXCEPT ![d] = y] /\ slot' = x
      BY Zenon DEF queueStop, StopAdmissible
    <2>3. \E v \in Workers : StopStep(v)
      BY Zenon DEF StopStep
    <2>4. Fence \in Rows'
      <3>1. Rows' = Rows \cup {Fence}
        BY RowsWorker, Zenon
      <3>. QED BY <3>1, Zenon
    <2>5. y \in Effect
      <3>1. StopRetryLimit \in 0 .. StopRetryLimit
        BY Bounds
      <3>. QED BY <3>1, Zenon DEF Effect, EffectStates
    <2>6. y.state = "queued" /\ y.cmd = "fence"
      BY Zenon
    <2>. HIDE DEF d, x, y
    <2>7. slot'.kind = "stop" /\ slot'.effect = d
      <3>1. x = StopSlot(d)
        BY Zenon DEF x
      <3>. QED BY <2>1, <2>2, <3>1, SlotStop, Zenon DEF d
    <2>8. stop' \in StopTypes /\ (e # d => stop'[e] = stop[e]) /\ (e = d => stop'[e] = y)
      <3>1. stop \in StopTypes /\ d \in StopEffects /\ stop' = [stop EXCEPT ![d] = y]
        BY <2>1, <2>2, Zenon DEF d
      <3>. QED BY <2>5, <3>1, StopReplaced, Zenon
    <2>9. e # d => StopSame(e)
      BY <2>8, Zenon DEF StopSame
    <2>10. e = d => /\ stop'[e].state = "queued" /\ stop'[e].cmd = "fence" /\ stop[e].state = "none"
                    /\ e = StopEffect /\ Fence \in Rows' /\ slot'.kind = "stop" /\ slot'.effect = e
      BY <2>2, <2>4, <2>6, <2>7, <2>8, Zenon DEF d
    <2>. QED BY <2>3, <2>8, <2>9, <2>10, Zenon DEF StopChange
  (* What the other writers of effects do to one.                            *)
  <1>StopRecorded. ASSUME Types, InstanceInv, NEW e \in StopEffects
                   PROVE  /\ (\E w \in Workers : ApplyFinishStop(w)) => stop' \in StopTypes /\ StopChange(e)
                          /\ AdvanceFencedGeneration => stop' \in StopTypes /\ StopChange(e)
                          /\ recordFenceStopped => stop' \in StopTypes /\ StopChange(e)
                          /\ recordLocalGenerationAdvanceResult => stop' \in StopTypes /\ StopChange(e)
    <2>. USE <1>StopRecorded
    <2>0. stop \in StopTypes /\ slot \in SlotTypes
      BY Zenon DEF Types
    <2>1. stop' = stop => stop' \in StopTypes /\ StopChange(e)
      BY <2>0, Zenon DEF StopChange, StopSame
    <2>2. ASSUME NEW w \in Workers, ApplyFinishStop(w) PROVE stop' \in StopTypes /\ StopChange(e)
      <3>1. stop' = [d \in StopEffects |-> NoStop]
        BY <2>2, Zenon DEF ApplyFinishStop
      <3>2. NoStop \in Effect
        <4>1. 0 \in 0 .. StopRetryLimit
          BY Bounds
        <4>. QED BY <4>1, Zenon DEF Effect, EffectStates, NoStop
      <3>3. NoStop.state = "none" /\ NoStop.cmd = "none"
        BY Zenon DEF NoStop
      <3>4. stop' \in StopTypes /\ stop'[e] = NoStop
        BY <3>1, <3>2, Zenon DEF StopTypes, Effect
      <3>. QED BY <2>2, <3>3, <3>4, Zenon DEF StopChange
    <2>3. ASSUME AdvanceFencedGeneration PROVE stop' \in StopTypes /\ StopChange(e)
      <3>. DEFINE y == [state |-> "queued", cmd |-> "advance", left |-> StopRetryLimit]
                  x == [kind |-> "stop", state |-> "advancing", effect |-> "loss", op |-> 0]
      <3>1. stop' = stop \/ (stop' = [stop EXCEPT !["loss"] = y] /\ slot' = x
                             /\ Command("advance", "loss") \in Rows')
        <4>1. ASSUME NEW K, Rows' = K \cup {Command("advance", "loss")} PROVE Command("advance", "loss") \in Rows'
          BY <4>1, Zenon
        <4>. QED BY <2>3, <4>1, RowsAdvance, Zenon
      <3>2. y \in Effect
        <4>1. StopRetryLimit \in 0 .. StopRetryLimit
          BY Bounds
        <4>. QED BY <4>1, Zenon DEF Effect, EffectStates
      <3>3. y.state = "queued" /\ y.cmd = "advance" /\ x.kind = "stop" /\ x.effect = "loss"
        BY Zenon
      <3>. HIDE DEF x, y
      <3>4. "loss" \in StopEffects
        BY Zenon DEF StopEffects
      <3>5. CASE stop' = [stop EXCEPT !["loss"] = y] /\ slot' = x /\ Command("advance", "loss") \in Rows'
        <4>1. stop' \in StopTypes /\ (e # "loss" => stop'[e] = stop[e]) /\ (e = "loss" => stop'[e] = y)
          <5>. DEFINE d == "loss"
          <5>1. d \in StopEffects /\ stop' = [stop EXCEPT ![d] = y]
            BY <3>4, <3>5, Zenon
          <5>. HIDE DEF d
          <5>2. stop' \in StopTypes /\ (e # d => stop'[e] = stop[e]) /\ (e = d => stop'[e] = y)
            BY <2>0, <3>2, <5>1, StopReplaced, Zenon
          <5>. QED BY <5>2, Zenon DEF d
        <4>2. e # "loss" => StopSame(e)
          BY <4>1, Zenon DEF StopSame
        <4>3. e = "loss" => /\ stop'[e].state = "queued" /\ stop'[e].cmd = "advance"
                            /\ Command("advance", e) \in Rows' /\ slot'.kind = "stop" /\ slot'.effect = e
          BY <3>3, <3>5, <4>1, Zenon
        <4>. QED BY <2>3, <4>1, <4>2, <4>3, Zenon DEF StopChange
      <3>. QED BY <2>1, <3>1, <3>5, Zenon
    <2>4. ASSUME recordFenceStopped PROVE stop' \in StopTypes /\ StopChange(e)
      <3>. DEFINE d == slot.effect
      <3>1. \/ stop' = stop
            \/ /\ stop' = [stop EXCEPT ![d].cmd = "advance"] /\ d \in Authority /\ slot.kind = "stop"
               /\ Command("advance", d) \in Rows' /\ slot' = [slot EXCEPT !.state = "advancing"]
        <4>1. ASSUME NEW K, Rows' = K \cup {Command("advance", d)} PROVE Command("advance", d) \in Rows'
          BY <4>1, Zenon
        <4>. QED BY <2>4, <4>1, RowsFence, Zenon
      <3>2. CASE /\ stop' = [stop EXCEPT ![d].cmd = "advance"] /\ d \in Authority /\ slot.kind = "stop"
                 /\ Command("advance", d) \in Rows' /\ slot' = [slot EXCEPT !.state = "advancing"]
        <4>1. d \in StopEffects /\ stop[d].state = "queued"
          BY <3>2, Zenon DEF Authority
        <4>2. slot'.kind = "stop" /\ slot'.effect = d
          BY <2>0, <3>2, Zenon DEF SlotTypes
        <4>. HIDE DEF d
        <4>3. /\ stop' \in StopTypes /\ (e # d => stop'[e] = stop[e])
              /\ e = d => stop'[e].state = stop[e].state /\ stop'[e].cmd = "advance"
          BY <2>0, <3>2, <4>1, StopAdvanced, Zenon
        <4>4. e # d => StopSame(e)
          BY <4>3, Zenon DEF StopSame
        <4>5. e = d => /\ stop'[e].state = stop[e].state /\ stop'[e].cmd = "advance" /\ e = slot.effect
                       /\ stop[e].state = "queued" /\ Command("advance", e) \in Rows'
                       /\ slot'.kind = "stop" /\ slot'.effect = e
          BY <3>2, <4>1, <4>2, <4>3, Zenon DEF d
        <4>. QED BY <2>4, <4>3, <4>4, <4>5, Zenon DEF StopChange
      <3>. QED BY <2>1, <3>1, <3>2, Zenon
    <2>5. ASSUME recordLocalGenerationAdvanceResult PROVE stop' \in StopTypes /\ StopChange(e)
      <3>. DEFINE d == msg.effect
      <3>1. \/ stop' = stop
            \/ /\ stop' = [stop EXCEPT ![d].state = AdvanceOutcome] /\ stop[d].state # "none"
        BY <2>5, Zenon DEF recordLocalGenerationAdvanceResult, AdvanceInOrder
      <3>2. AdvanceAuthority /\ Hears("advance")
        BY <2>5, Zenon DEF recordLocalGenerationAdvanceResult
      <3>3. d \in StopEffects
        BY <3>2, Zenon DEF AdvanceAuthority, InstanceInv
      <3>4. AdvanceOutcome \in {"runner_succeeded", "runner_failed"} /\ AdvanceOutcome \in EffectStates
            /\ (AdvanceOutcome = "runner_succeeded" => msg.ok)
        BY Zenon DEF AdvanceOutcome, EffectStates
      <3>5. CASE stop' = [stop EXCEPT ![d].state = AdvanceOutcome] /\ stop[d].state # "none"
        <4>. HIDE DEF d
        <4>1. /\ stop' \in StopTypes /\ (e # d => stop'[e] = stop[e])
              /\ e = d => stop'[e].state = AdvanceOutcome /\ stop'[e].cmd = stop[e].cmd
          BY <2>0, <3>3, <3>4, <3>5, StopAnswered, Zenon
        <4>2. e # d => StopSame(e)
          BY <4>1, Zenon DEF StopSame
        <4>3. e = d => /\ stop'[e].state \in {"runner_succeeded", "runner_failed"} /\ stop'[e].cmd = stop[e].cmd
                       /\ (stop'[e].state = "runner_succeeded" => msg.ok)
                       /\ e = msg.effect /\ stop[e].state # "none"
          BY <3>4, <3>5, <4>1, Zenon DEF d
        <4>. QED BY <2>5, <3>2, <4>1, <4>2, <4>3, Zenon DEF StopChange
      <3>. QED BY <2>1, <3>1, <3>5, Zenon
    <2>. QED BY <2>2, <2>3, <2>4, <2>5, Zenon
  <1>1. ASSUME NEW e \in StopEffects PROVE stop' \in StopTypes /\ StopChange(e)
    <2>1. stop \in StopTypes /\ (stop' = stop => StopChange(e))
      BY Zenon DEF Types, StopSame, StopChange
    <2>2. UNCHANGED stop \/ EffectStep
      BY Steps, Zenon
    <2>. QED BY <2>1, <2>2, <1>StopRecorded, <1>StopQueued, <1>StopResumed, Zenon DEF EffectStep, StopStep
  <1>2. "stop" \in StopEffects
    BY Zenon DEF StopEffects
  <1>. QED BY <1>1, <1>2, Zenon

(***************************************************************************)
(* A generation ends.                                                      *)
(***************************************************************************)

Unmoved == /\ Rows' = Rows /\ Down' = Down /\ Evidence' = Evidence /\ rn' = rn
           /\ link' = link /\ ws' = ws /\ fx' = fx
Retired == /\ sb' \in SbTypes /\ sb'.gen = sb.gen + 1 /\ ~sb'.inst /\ sb'.owner = Nobody
           /\ sb'.state = "stopped" /\ sb.inst /\ ws = "ready"
           /\ asg'.state = "none" /\ (\A e \in StopEffects : stop'[e].state = "none" /\ stop'[e].cmd = "none")
           /\ slot'.kind \in {"none", "start"} /\ Quiet /\ rn.manifest = sb.gen + 1
Dismissed == \A v \in Workers : /\ ~work'[v].fresh /\ work'[v].gen \in {0, work[v].gen}
                                /\ work'[v].pc = "idle" \/ (work'[v].pc = work[v].pc /\ work'[v].act = work[v].act
                                                             /\ work'[v].gen = work[v].gen)

(* A committed step makes every other claim stale.                         *)
LEMMA Dismissal ==
  ASSUME work \in [Workers -> WorkTypes]
  PROVE  /\ \A w \in Workers : Finish(w, TRUE) => Dismissed /\ work' \in [Workers -> WorkTypes]
         /\ AdvanceRevision => Dismissed /\ work' \in [Workers -> WorkTypes]
  <1>. DEFINE A == Advanced(work)
  <1>1. A \in [Workers -> WorkTypes]
    <2>1. ASSUME NEW v \in Workers PROVE [work[v] EXCEPT !.fresh = FALSE] \in WorkTypes
      BY Zenon DEF WorkTypes
    <2>. QED BY <2>1, Zenon DEF Advanced
  <1>2. ASSUME NEW v \in Workers
        PROVE  ~A[v].fresh /\ A[v].gen = work[v].gen /\ A[v].pc = work[v].pc /\ A[v].act = work[v].act
    BY Zenon DEF Advanced, WorkTypes
  <1>3. Idle \in WorkTypes /\ ~Idle.fresh /\ Idle.gen = 0 /\ Idle.pc = "idle"
    <2>1. 0 \in 0 .. MaxGeneration /\ 0 \in 0 .. MaxOperations
      BY Bounds
    <2>2. Idle \in WorkTypes
      BY <2>1, Zenon DEF Idle, WorkTypes, Actions
    <2>. QED BY <2>2, Zenon DEF Idle
  <1>. HIDE DEF A
  <1>4. ASSUME NEW w \in Workers, work' = [A EXCEPT ![w] = Idle] PROVE Dismissed /\ work' \in [Workers -> WorkTypes]
    BY <1>1, <1>2, <1>3, <1>4, Zenon DEF Dismissed
  <1>5. ASSUME work' = A PROVE Dismissed /\ work' \in [Workers -> WorkTypes]
    BY <1>1, <1>2, <1>5, Zenon DEF Dismissed
  <1>. QED BY <1>4, <1>5, Zenon DEF Finish, AdvanceRevision, A

(* Finishing a stop needs a receipt and touches no command or message.     *)
LEMMA FinishEffects ==
  ASSUME LifecycleInv, NEW w \in Workers, ApplyFinishStop(w)
  PROVE  Unmoved /\ Retired /\ Dismissed /\ work' \in [Workers -> WorkTypes]
  <1>ReceiptHeld. ASSUME Types, AdvanceInv, ReceiptInv, QuietInv, ws = "ready",
                         NEW e \in StopEffects, stop[e].state = "runner_succeeded"
                  PROVE  Quiet /\ rn.manifest = sb.gen + 1
    <2>. USE <1>ReceiptHeld
    <2>1. <<e, sb.gen>> \in rn.receipts
      BY Zenon DEF AdvanceInv
    <2>2. sb.gen \in Generations /\ rn.manifest \in 0 .. MaxGeneration
      BY Zenon DEF Types, SbTypes, RnTypes
    <2>3. sb.gen < rn.manifest /\ stop[e].cmd = "advance"
      BY <2>1, <2>2, Zenon DEF ReceiptInv
    <2>4. rn.manifest = sb.gen \/ rn.manifest = sb.gen + 1
      BY Zenon DEF ReceiptInv
    <2>5. rn.manifest = sb.gen + 1
      BY <2>2, <2>3, <2>4, Bounds DEF Generations
    <2>. QED BY <2>3, <2>5, Zenon DEF QuietInv
  <1>0. Types /\ InstanceInv /\ AdvanceInv /\ ReceiptInv /\ QuietInv
    BY Zenon DEF LifecycleInv
  <1>1. UNCHANGED <<ws, fx, cmds, link, rn>> /\ Finish(w, TRUE)
    BY Zenon DEF ApplyFinishStop
  <1>2. Unmoved
    BY <1>1, Zenon DEF Unmoved, Rows, Contents, Down, Evidence, Elems
  <1>3. Dismissed /\ work' \in [Workers -> WorkTypes]
    BY <1>0, <1>1, Dismissal, Zenon DEF Types
  <1>4. sb' \in SbTypes /\ sb'.gen = sb.gen + 1 /\ ~sb'.inst /\ sb'.owner = Nobody
        /\ sb'.state = "stopped" /\ sb.inst /\ ws = "ready" /\ StopCompleted /\ slot.effect \in StopEffects
    BY <1>0, FinishRow, Zenon
  <1>5. Quiet /\ rn.manifest = sb.gen + 1
    BY <1>0, <1>4, <1>ReceiptHeld, Zenon DEF StopCompleted
  <1>6. asg'.state = "none" /\ \A e \in StopEffects : stop'[e].state = "none" /\ stop'[e].cmd = "none"
    <2>1. asg' = NoAssignment /\ stop' = [e \in StopEffects |-> NoStop]
      BY Zenon DEF ApplyFinishStop
    <2>2. NoAssignment.state = "none" /\ NoStop.state = "none" /\ NoStop.cmd = "none"
      BY Zenon DEF NoAssignment, NoStop
    <2>. QED BY <2>1, <2>2, Zenon
  <1>7. slot'.kind \in {"none", "start"}
    <2>1. slot' = NoSlot \/ \E n : slot' = [NoSlot EXCEPT !.kind = "start", !.state = "queued", !.op = n]
      BY Zenon DEF ApplyFinishStop
    <2>2. ASSUME NEW n, slot' = [NoSlot EXCEPT !.kind = "start", !.state = "queued", !.op = n]
          PROVE  slot'.kind = "start"
      BY <2>2 DEF NoSlot
    <2>3. NoSlot.kind = "none"
      BY DEF NoSlot
    <2>. QED BY <2>1, <2>2, <2>3, Zenon
  <1>. QED BY <1>2, <1>3, <1>4, <1>5, <1>6, <1>7, Zenon DEF Retired

(* Finishing a stop preserves the invariant.                               *)
LEMMA FinishInv ==
  ASSUME LifecycleInv, NEW w \in Workers, ApplyFinishStop(w)
  PROVE  /\ InstanceInv' /\ WorkspaceInv' /\ PlanInv' /\ CurrentInv' /\ StartInv' /\ OrderInv'
         /\ RunInv' /\ QuietInv' /\ AdvanceInv' /\ ReceiptInv' /\ EffectInv' /\ DeletedInv'
  (* Nothing in flight is of the new generation. *)
  <1>FinishNothing. ASSUME Types, GenInv, Unmoved, sb'.gen = sb.gen + 1
                    PROVE  \A m \in Rows' \cup Down' \cup Evidence' : m.gen # sb'.gen
    <2>. USE <1>FinishNothing
    <2>1. sb.gen \in Nat
      <3>1. sb.gen \in Generations
        BY Zenon DEF Types, SbTypes
      <3>. QED BY <3>1 DEF Generations
    <2>2. ASSUME NEW m \in Rows' \cup Down' \cup Evidence' PROVE m.gen # sb'.gen
      <3>1. m.gen <= sb.gen
        BY <2>2, Zenon DEF Unmoved, GenInv
      <3>. QED BY <2>1, <3>1
    <2>. QED BY <2>2
  <1>0. /\ Types /\ GenInv /\ InstanceInv /\ WorkspaceInv /\ PlanInv /\ RunInv /\ ReceiptInv /\ EffectInv
    BY Zenon DEF LifecycleInv
  <1>1. Unmoved /\ Retired /\ Dismissed
    BY FinishEffects, Zenon
  <1>2. \A m \in Rows' \cup Down' \cup Evidence' : m.gen # sb'.gen
    BY <1>0, <1>1, <1>FinishNothing, Zenon DEF Retired
  <1>3. sb.gen \in Nat /\ sb'.gen = sb.gen + 1
    <2>1. sb.gen \in Generations
      BY <1>0, Zenon DEF Types, SbTypes
    <2>. QED BY <1>1, <2>1 DEF Generations, Retired
  <1>4. Quiet'
    BY <1>1, Zenon DEF Retired, Unmoved, Quiet
  <1>5. InstanceInv'
    BY <1>1, Zenon DEF InstanceInv, Retired
  <1>6. WorkspaceInv'
    <2>1. ws' = ws /\ ws = "ready" /\ fx' = fx /\ Rows' = Rows /\ Down' = Down
      BY <1>1, Zenon DEF Unmoved, Retired
    <2>. QED BY <1>0, <2>1, Zenon DEF WorkspaceInv
  <1>7. PlanInv'
    <2>1. ASSUME NEW v \in Workers PROVE work'[v].gen <= sb'.gen /\ work'[v].gen # sb'.gen /\ sb'.owner # v
      <3>1. work'[v].gen = 0 \/ work'[v].gen = work[v].gen
        BY <1>1, Zenon DEF Dismissed
      <3>2. work[v].gen <= sb.gen /\ work[v].gen \in 0 .. MaxGeneration
        BY <1>0, Zenon DEF PlanInv, Types, WorkTypes
      <3>3. sb'.owner # v
        BY <1>1, Bounds, Zenon DEF Retired
      <3>. QED BY <1>3, <3>1, <3>2, <3>3, Bounds
    <2>. QED BY <2>1, Zenon DEF PlanInv
  <1>8. CurrentInv'
    BY <1>2, Zenon DEF CurrentInv, Asked, Sent, Heard
  <1>9. StartInv'
    BY <1>1, <1>4, Zenon DEF StartInv, Retired, Quiet, Undecided
  <1>10. OrderInv'
    <2>1. \A c \in Down' : c.kind # "assignment"
      BY <1>4, Zenon DEF Quiet
    <2>2. \A j \in DOMAIN link'.down : link'.down[j].kind # "assignment"
      BY <2>1, Zenon DEF Down, Elems
    <2>. QED BY <2>1, <2>2, Zenon DEF OrderInv
  <1>11. RunInv'
    <2>1. rn'.run = 0 /\ rn'.starting = 0
      BY <1>4, Zenon DEF Quiet
    <2>2. rn'.active <= sb'.gen
      <3>1. rn'.active = rn.active /\ rn.active <= sb.gen /\ rn.active \in 0 .. MaxGeneration
        BY <1>0, <1>1, Zenon DEF Unmoved, RunInv, Types, RnTypes
      <3>. QED BY <1>3, <3>1, Bounds
    <2>. QED BY <2>1, <2>2, Zenon DEF RunInv
  <1>12. QuietInv'
    BY <1>4, <1>1, Zenon DEF QuietInv, Retired
  <1>13. AdvanceInv'
    BY <1>1, <1>2, Zenon DEF AdvanceInv, Retired
  <1>14. ReceiptInv'
    <2>1. rn' = rn /\ ws = "ready" /\ rn.manifest = sb'.gen
      BY <1>1, Zenon DEF Retired, Unmoved
    <2>2. ASSUME NEW e \in StopEffects, NEW g \in Generations, <<e, g>> \in rn'.receipts
          PROVE  g < rn'.manifest /\ g # sb'.gen
      <3>1. g < rn.manifest
        BY <1>0, <2>1, <2>2, Zenon DEF ReceiptInv
      <3>. QED BY <1>3, <2>1, <3>1
    <2>. QED BY <2>1, <2>2, Zenon DEF ReceiptInv
  <1>15. EffectInv'
    <2>1. fx' = fx /\ Evidence' = Evidence /\ ws' = ws /\ ws = "ready"
      BY <1>1, Zenon DEF Unmoved, Retired
    <2>2. fx.delete = "none"
      BY <1>0, <2>1, Zenon DEF EffectInv
    <2>3. fx.create # "queued"
      BY <1>0, <2>1, Zenon DEF WorkspaceInv
    <2>4. \A m \in Evidence : m.kind = "fence" => m.cmd \in FenceKinds
      BY <1>0, Zenon DEF EffectInv
    <2>. QED BY <1>1, <2>1, <2>2, <2>3, <2>4, Zenon DEF EffectInv, Retired
  <1>16. DeletedInv'
    BY <1>1, Zenon DEF DeletedInv, Retired, Dismissed
  <1>. QED BY <1>5, <1>6, <1>7, <1>8, <1>9, <1>10, <1>11, <1>12, <1>13, <1>14, <1>15, <1>16, Zenon

(***************************************************************************)
(* A generation gets its Assignment.                                       *)
(***************************************************************************)
Assigned == /\ sb' \in SbTypes /\ sb'.gen = sb.gen /\ sb'.inst /\ ~sb.inst /\ sb'.state = "starting"
            /\ ws = "ready" /\ ws' = ws /\ sb.gen < MaxGeneration /\ asg.state = "none"
            /\ asg'.state = "assigned" /\ slot'.kind = "start" /\ slot'.state = "assigned"
            /\ Rows' = Rows \cup {Command("assignment", "none")}
            /\ UNCHANGED <<stop, fx, link, rn>> /\ Down' = Down /\ Evidence' = Evidence
Unplaced == /\ ~Asked(Placed) /\ ~Sent(Placed) /\ ~Heard(Placements) /\ Quiet
            /\ \A e \in StopEffects : stop[e].state = "none" /\ stop[e].cmd = "none"

(* Placing an Instance queues its assignment and nothing else.             *)
LEMMA PlaceEffects ==
  ASSUME LifecycleInv, NEW w \in Workers, scheduleOnce(w)
  PROVE  Assigned /\ Unplaced /\ Dismissed /\ work' \in [Workers -> WorkTypes]
  (* Before an Instance is placed nothing of its generation exists.          *)
  <1>NothingPlaced. ASSUME InstanceInv, CurrentInv, QuietInv, ~sb.inst
                    PROVE  Unplaced
    <2>. USE <1>NothingPlaced
    <2>1. asg.state = "none"
      BY Zenon DEF InstanceInv
    <2>2. Quiet
      BY <2>1, Zenon DEF QuietInv
    <2>3. ~Asked(Placed) /\ ~Sent(Placed) /\ ~Heard(Placements)
      BY Zenon DEF CurrentInv
    <2>4. \A e \in StopEffects : stop[e].state = "none" /\ stop[e].cmd = "none"
      BY Zenon DEF InstanceInv
    <2>. QED BY <2>2, <2>3, <2>4, Zenon DEF Unplaced
  <1>0. Types /\ InstanceInv /\ WorkspaceInv /\ PlanInv /\ CurrentInv /\ QuietInv
    BY Zenon DEF LifecycleInv
  <1>1. UNCHANGED <<ws, stop, fx, link, rn>> /\ Finish(w, TRUE)
        /\ asg' = [NoAssignment EXCEPT !.state = "assigned"]
        /\ slot' = [kind |-> "start", state |-> "assigned", effect |-> "live", op |-> work[w].op]
    BY Zenon DEF scheduleOnce
  <1>2. Down' = Down /\ Evidence' = Evidence
    BY <1>1, Zenon DEF Down, Evidence, Elems
  <1>3. Dismissed /\ work' \in [Workers -> WorkTypes]
    BY <1>0, <1>1, Dismissal, Zenon DEF Types
  <1>4. /\ sb' \in SbTypes /\ sb'.gen = sb.gen /\ sb'.inst /\ sb'.state = "starting"
        /\ ~sb.inst /\ asg.state = "none" /\ ws = "ready" /\ sb.gen < MaxGeneration
    BY <1>0, PlacedRow, Zenon
  <1>5. Rows' = Rows \cup {Command("assignment", "none")}
    BY RowsWorker, Zenon
  <1>6. asg'.state = "assigned"
    BY <1>1 DEF NoAssignment
  <1>7. slot'.kind = "start" /\ slot'.state = "assigned"
    BY ONLY <1>1
  <1>8. Unplaced
    BY <1>0, <1>4, <1>NothingPlaced, Zenon
  <1>9. Assigned
    BY <1>1, <1>2, <1>4, <1>5, <1>6, <1>7, Zenon DEF Assigned
  <1>. QED BY <1>3, <1>8, <1>9, Zenon

(* Placing an Instance preserves the invariant.                            *)
LEMMA PlaceInv ==
  ASSUME LifecycleInv, NEW w \in Workers, scheduleOnce(w)
  PROVE  /\ InstanceInv' /\ WorkspaceInv' /\ PlanInv' /\ CurrentInv' /\ StartInv' /\ OrderInv'
         /\ RunInv' /\ QuietInv' /\ AdvanceInv' /\ ReceiptInv' /\ EffectInv' /\ DeletedInv'
  <1>0. /\ Types /\ InstanceInv /\ WorkspaceInv /\ PlanInv /\ StartInv /\ RunInv /\ ReceiptInv /\ EffectInv
    BY Zenon DEF LifecycleInv
  <1>1. Assigned /\ Unplaced /\ Dismissed
    BY PlaceEffects, Zenon
  <1>. DEFINE new == Command("assignment", "none")
  <1>2. new.kind = "assignment" /\ new.gen = sb.gen
    BY CommandFields, Zenon
  <1>. HIDE DEF new
  <1>3. \A c \in Rows' : c \in Rows \/ c = new
    BY <1>1, Zenon DEF Assigned, new
  <1>4. stop' = stop /\ fx' = fx /\ link' = link /\ rn' = rn
    BY <1>1, Zenon DEF Assigned
  <1>5. sb'.gen = sb.gen /\ sb'.inst /\ ws' = "ready" /\ ws = "ready" /\ Down' = Down /\ Evidence' = Evidence
    BY <1>1, Zenon DEF Assigned
  <1>6. \A e \in StopEffects : stop'[e].state = "none" /\ stop'[e].cmd = "none"
    BY <1>1, <1>4, Zenon DEF Unplaced
  <1>7. /\ \A c \in Rows \cup Down : c.gen = sb.gen => c.kind \notin Placed
        /\ \A m \in Evidence : m.gen = sb.gen => m.kind \notin Placements
    BY <1>1, Zenon DEF Unplaced, Asked, Sent, Heard
  <1>8. NotFencing'
    <2>1. ASSUME NEW c \in Rows', c.kind \in FenceKinds, c.gen = sb.gen PROVE FALSE
      BY <1>2, <1>3, <1>7, <2>1, Zenon DEF FenceKinds, Placed
    <2>2. ASSUME NEW c \in Down, c.kind \in FenceKinds, c.gen = sb.gen PROVE FALSE
      BY <1>7, <2>2, Zenon DEF FenceKinds, Placed
    <2>3. ASSUME NEW m \in Evidence, m.kind = "fence", m.gen = sb.gen PROVE FALSE
      BY <1>7, <2>3, Zenon DEF Placements
    <2>. QED BY <1>5, <2>1, <2>2, <2>3, Zenon DEF NotFencing, Asked, Sent, Heard
  <1>9. \A c \in Rows \cup Down : c.kind # "assignment"
    BY <1>1, Zenon DEF Unplaced, Quiet
  <1>10. InstanceInv'
    BY <1>1, <1>5, <1>6, Zenon DEF InstanceInv, Assigned
  <1>11. WorkspaceInv'
    <2>1. \A c \in Rows' \cup Down' : c.kind # "delete"
      BY <1>0, <1>2, <1>3, <1>5, Zenon DEF WorkspaceInv
    <2>2. fx'.create # "queued"
      BY <1>0, <1>4, <1>5, Zenon DEF WorkspaceInv
    <2>. QED BY <1>5, <2>1, <2>2, Zenon DEF WorkspaceInv
  <1>12. PlanInv'
    <2>1. ASSUME NEW v \in Workers PROVE work'[v].gen <= sb'.gen
      <3>1. work'[v].gen = 0 \/ work'[v].gen = work[v].gen
        BY <1>1, Zenon DEF Dismissed
      <3>2. work[v].gen <= sb.gen /\ sb.gen \in Generations
        BY <1>0, Zenon DEF PlanInv, Types, SbTypes
      <3>. QED BY <1>5, <3>1, <3>2, Bounds DEF Generations
    <2>2. sb'.gen < MaxGeneration
      BY <1>1, Zenon DEF Assigned
    <2>. QED BY <2>1, <2>2, Zenon DEF PlanInv
  <1>13. CurrentInv'
    BY <1>5, Zenon DEF CurrentInv
  <1>14. StartInv'
    <2>1. StartHeld' /\ asg'.state = "assigned"
      BY <1>1, Zenon DEF StartHeld, Assigned
    <2>2. ASSUME NEW c \in Rows', c.kind = "assignment" PROVE c.gen = sb'.gen
      BY <1>2, <1>3, <1>5, <1>9, <2>2, Zenon
    <2>. QED BY <1>8, <2>1, <2>2, Zenon DEF StartInv
  <1>15. OrderInv'
    <2>1. \A c \in Down' : c.kind # "assignment"
      BY <1>5, <1>9, Zenon
    <2>2. \A j \in DOMAIN link'.down : link'.down[j].kind # "assignment"
      BY <2>1, Zenon DEF Down, Elems
    <2>. QED BY <2>1, <2>2, Zenon DEF OrderInv
  <1>16. RunInv'
    <2>1. rn'.run = 0 /\ rn'.starting = 0
      BY <1>1, <1>4, Zenon DEF Unplaced, Quiet
    <2>2. rn'.active <= sb'.gen
      BY <1>0, <1>4, <1>5, Zenon DEF RunInv
    <2>. QED BY <2>1, <2>2, Zenon DEF RunInv
  <1>17. QuietInv'
    <2>1. asg'.state = "assigned"
      BY <1>1, Zenon DEF Assigned
    <2>2. ASSUME NEW m \in Evidence', Proof(m)' PROVE FALSE
      BY <1>5, <1>7, <2>2, Zenon DEF Proof, Placements
    <2>. QED BY <1>6, <2>1, <2>2, Zenon DEF QuietInv
  <1>18. AdvanceInv'
    <2>1. ASSUME NEW c \in Rows' \cup Down' \cup Evidence', c.kind = "advance", c.gen = sb'.gen PROVE FALSE
      BY <1>2, <1>3, <1>5, <1>7, <2>1, Zenon DEF Placed, Placements
    <2>. QED BY <1>6, <2>1, Zenon DEF AdvanceInv
  <1>19. ReceiptInv'
    BY <1>0, <1>4, <1>5, Zenon DEF ReceiptInv
  <1>20. EffectInv'
    <2>1. fx'.delete = "none"
      BY <1>0, <1>4, <1>5, Zenon DEF EffectInv
    <2>2. fx'.create # "queued"
      BY <1>0, <1>4, <1>5, Zenon DEF WorkspaceInv
    <2>3. \A m \in Evidence' : m.kind = "fence" => m.cmd \in FenceKinds
      BY <1>0, <1>5, Zenon DEF EffectInv
    <2>4. slot'.kind = "start"
      BY <1>1, Zenon DEF Assigned
    <2>. QED BY <1>6, <2>1, <2>2, <2>3, <2>4, Zenon DEF EffectInv
  <1>21. DeletedInv'
    BY <1>1, Zenon DEF DeletedInv, Assigned, Dismissed
  <1>. QED BY <1>10, <1>11, <1>12, <1>13, <1>14, <1>15, <1>16, <1>17, <1>18, <1>19, <1>20, <1>21, Zenon

(***************************************************************************)
(* The Workspace and its create and delete effects.                        *)
(***************************************************************************)
FxTypes == [create : {"queued", "succeeded", "runner_failed"},
            delete : {"none", "queued", "succeeded", "runner_failed"}]
WsTypes == {"creating", "ready", "failed", "deleting", "deleted"}
SameWs == ws' = ws /\ fx' = fx
DeleteQueued ==
  /\ \E w \in Workers : DeleteStep(w)
  /\ ~sb.inst /\ ws \in {"ready", "failed", "deleting"}
  /\ fx'.delete = "queued" /\ fx'.create = fx.create
  /\ ws' = "deleting" \/ (ws' = ws /\ fx.delete \in {"queued", "runner_failed"})
CreateDone ==
  /\ recordLocalWorkspaceResult /\ fx.create = "queued" /\ fx'.delete = fx.delete
  /\ \/ msg.ok /\ ws' = "ready" /\ fx'.create = "succeeded"
     \/ ws' = "failed" /\ fx'.create = "runner_failed"
DeleteDone ==
  /\ recordLocalWorkspaceDeleteResult /\ ws = "deleting" /\ fx.delete = "queued" /\ fx'.create = fx.create
  /\ ws' = "deleted" /\ fx'.delete = "succeeded"

(* Writing the create and delete effects.                                  *)
LEMMA FxWritten ==
  ASSUME fx \in FxTypes, NEW c \in {"succeeded", "runner_failed"},
         NEW d \in {"queued", "succeeded", "runner_failed"}
  PROVE  /\ fx' = [fx EXCEPT !.create = c] => fx' \in FxTypes /\ fx'.create = c /\ fx'.delete = fx.delete
         /\ fx' = [fx EXCEPT !.delete = d] => fx' \in FxTypes /\ fx'.delete = d /\ fx'.create = fx.create
  <1>1. ASSUME fx' = [fx EXCEPT !.create = c]
        PROVE  fx' \in FxTypes /\ fx'.create = c /\ fx'.delete = fx.delete
    BY <1>1, Zenon DEF FxTypes
  <1>2. ASSUME fx' = [fx EXCEPT !.delete = d]
        PROVE  fx' \in FxTypes /\ fx'.delete = d /\ fx'.create = fx.create
    BY <1>2, Zenon DEF FxTypes
  <1>. QED BY <1>1, <1>2, Zenon

(* The Workspace changes by a queued deletion or a recorded result.        *)
LEMMA WsDelta ==
  ASSUME Types, [Next]_vars
  PROVE  /\ ws' \in WsTypes /\ fx' \in FxTypes
         /\ SameWs \/ DeleteQueued \/ CreateDone \/ DeleteDone
  (* Queueing or resuming a deletion moves the Workspace to deleting.        *)
  <1>WsDelete. ASSUME ws \in WsTypes, fx \in FxTypes, NEW w \in Workers, DeleteStep(w)
               PROVE  ws' \in WsTypes /\ fx' \in FxTypes /\ (SameWs \/ DeleteQueued)
    <2>. USE <1>WsDelete
    <2>1. ~sb.inst /\ ws \in {"ready", "failed", "deleting"}
      BY Zenon DEF DeleteStep, queueWorkspaceDelete, resumeWorkspaceDeleteEffect, DeleteAdmissible
    <2>2. \E v \in Workers : DeleteStep(v)
      BY Zenon
    <2>3. fx' = [fx EXCEPT !.delete = "queued"] => fx' \in FxTypes /\ fx'.delete = "queued" /\ fx'.create = fx.create
      BY FxWritten, Zenon
    <2>4. ASSUME queueWorkspaceDelete(w) PROVE ws' \in WsTypes /\ fx' \in FxTypes /\ DeleteQueued
      <3>1. ws' = "deleting" /\ fx' = [fx EXCEPT !.delete = "queued"]
        BY <2>4, Zenon DEF queueWorkspaceDelete
      <3>. QED BY <2>1, <2>2, <2>3, <3>1, Zenon DEF DeleteQueued, WsTypes
    <2>5. ASSUME NEW p \in BOOLEAN, resumeWorkspaceDeleteEffect(w, p)
          PROVE  ws' \in WsTypes /\ fx' \in FxTypes /\ (SameWs \/ DeleteQueued)
      <3>1. /\ ws' = ws
            /\ \/ fx' = fx
               \/ fx' = [fx EXCEPT !.delete = "queued"] /\ fx.delete \in {"queued", "runner_failed"}
        BY <2>5, Zenon DEF resumeWorkspaceDeleteEffect
      <3>. QED BY <2>1, <2>2, <2>3, <3>1, Zenon DEF SameWs, DeleteQueued
    <2>. QED BY <2>4, <2>5, Zenon DEF DeleteStep
  <1>1. ws \in WsTypes /\ fx \in FxTypes
    BY Zenon DEF Types, WsTypes, FxTypes
  <1>2. ASSUME recordLocalWorkspaceResult
        PROVE  ws' \in WsTypes /\ fx' \in FxTypes /\ (SameWs \/ CreateDone)
    <2>1. \/ ws' = ws /\ fx' = fx
          \/ fx.create = "queued" /\ msg.ok /\ ws' = "ready" /\ fx' = [fx EXCEPT !.create = "succeeded"]
          \/ fx.create = "queued" /\ ws' = "failed" /\ fx' = [fx EXCEPT !.create = "runner_failed"]
      BY <1>2, Zenon DEF recordLocalWorkspaceResult
    <2>2. \A c \in {"succeeded", "runner_failed"} : fx' = [fx EXCEPT !.create = c] =>
            fx' \in FxTypes /\ fx'.create = c /\ fx'.delete = fx.delete
      BY <1>1, FxWritten, Zenon
    <2>. QED BY <1>1, <1>2, <2>1, <2>2, Zenon DEF SameWs, CreateDone, WsTypes
  <1>3. ASSUME recordLocalWorkspaceDeleteResult
        PROVE  ws' \in WsTypes /\ fx' \in FxTypes /\ (SameWs \/ DeleteDone)
    <2>1. \/ ws' = ws /\ fx' = fx
          \/ /\ fx.delete = "queued" /\ ws = "deleting"
             /\ ws' = "deleted" /\ fx' = [fx EXCEPT !.delete = "succeeded"]
      BY <1>3, Zenon DEF recordLocalWorkspaceDeleteResult, DeleteAuthority
    <2>2. \A d \in {"queued", "succeeded", "runner_failed"} : fx' = [fx EXCEPT !.delete = d] =>
            fx' \in FxTypes /\ fx'.delete = d /\ fx'.create = fx.create
      BY <1>1, FxWritten, Zenon
    <2>. QED BY <1>1, <1>3, <2>1, <2>2, Zenon DEF SameWs, DeleteDone, WsTypes
  <1>4. UNCHANGED <<ws, fx>> => ws' \in WsTypes /\ fx' \in FxTypes /\ SameWs
    BY <1>1, Zenon DEF SameWs
  <1>. QED BY <1>1, <1>2, <1>3, <1>4, Steps, <1>WsDelete, Zenon DEF WorkspaceStep

(***************************************************************************)
(* What a step needs to be taken.                                          *)
(***************************************************************************)

LEMMA NeedsInstance ==
  ASSUME InstanceInv
  PROVE  /\ \A w \in Workers : StopStep(w) =>
              sb.inst /\ ws = "ready" /\ asg.state \in StopStates /\ asg' = asg
              /\ (AcquiresStop \/ slot.kind = "stop")
         /\ AdvanceFencedGeneration => sb.inst /\ asg.state = "fenced" /\ ws = "ready"
         /\ FenceStep \/ ApplyRetry \/ TerminalStep => sb.inst
         /\ AssignmentStep \/ recordFenceStopped \/ recordFenceFailed =>
              sb.inst /\ msg.gen = sb.gen
         /\ recordFenceStopped => Hears("fence") /\ msg.ok
         /\ recordFenceFailed => Hears("fence")
         /\ recordLocalGenerationAdvanceResult => sb.inst /\ msg.gen = sb.gen /\ slot.kind = "stop"
  <1>0. sb.inst <=> asg.state # "none"
    BY Zenon DEF InstanceInv
  <1>1. ASSUME NEW w \in Workers, StopStep(w)
        PROVE  sb.inst /\ ws = "ready" /\ asg.state \in StopStates /\ asg' = asg
               /\ (AcquiresStop \/ slot.kind = "stop")
    <2>1. asg' = asg /\ StopAdmissible
      BY <1>1, Zenon DEF StopStep, queueStop, resumeStopEffect
    <2>. QED BY <1>0, <2>1, Zenon DEF StopAdmissible, StopStates
  <1>2. AdvanceFencedGeneration => sb.inst /\ asg.state = "fenced" /\ ws = "ready"
    BY <1>0, Zenon DEF AdvanceFencedGeneration
  <1>3. FenceStep \/ ApplyRetry \/ TerminalStep => sb.inst
    BY <1>0, Zenon DEF FenceStep, ApplyFence, DecidesFence, ApplyRetry, TerminalStep, ApplyFailTerminal,
       DecidesTerminal
  <1>4. AssignmentStep \/ recordFenceStopped \/ recordFenceFailed => sb.inst /\ msg.gen = sb.gen
    BY Zenon DEF AssignmentStep, recordAssignmentAck, recordAssignmentReady, recordAssignmentFailed,
       recordFenceStopped, recordFenceFailed, CurrentFence
  <1>5. /\ recordFenceStopped => Hears("fence") /\ msg.ok
        /\ recordFenceFailed => Hears("fence")
    BY Zenon DEF recordFenceStopped, recordFenceFailed
  <1>6. recordLocalGenerationAdvanceResult => sb.inst /\ msg.gen = sb.gen /\ slot.kind = "stop"
    BY Zenon DEF recordLocalGenerationAdvanceResult, AdvanceAuthority, InstanceInv
  <1>. QED BY <1>1, <1>2, <1>3, <1>4, <1>5, <1>6, Zenon

(***************************************************************************)
(* Every other step leaves the generation and its Instance alone.          *)
(***************************************************************************)
KeptStep == [Next]_vars /\ SbKept /\ ~\E w \in Workers : ApplyFinishStop(w) \/ scheduleOnce(w)

(* Instance, slot and effects agree after every other step.                *)
LEMMA InstanceKept ==
  ASSUME LifecycleInv, KeptStep
  PROVE  InstanceInv'
  <1>0. Types /\ InstanceInv /\ WorkspaceInv /\ [Next]_vars
    BY Zenon DEF LifecycleInv, KeptStep
  <1>1. sb'.inst = sb.inst /\ sb'.gen = sb.gen /\ ~\E w \in Workers : ApplyFinishStop(w) \/ scheduleOnce(w)
    BY Zenon DEF KeptStep, SbKept
  <1>2. asg'.state # "none" <=> asg.state # "none"
    <2>1. AsgChange
      BY <1>0, AsgDelta, Zenon
    <2>2. recordFenceStopped \/ recordFenceFailed => asg.state # "none"
      BY <1>0, NeedsInstance, Zenon DEF InstanceInv
    <2>. QED BY <1>1, <2>1, <2>2, Zenon DEF AsgChange
  <1>3. sb.inst => ws' = "ready"
    <2>1. sb.inst => ws = "ready" /\ fx.create # "queued"
      BY <1>0, Zenon DEF InstanceInv, WorkspaceInv
    <2>2. SameWs \/ DeleteQueued \/ CreateDone \/ DeleteDone
      BY <1>0, WsDelta, Zenon
    <2>. QED BY <2>1, <2>2, Zenon DEF SameWs, DeleteQueued, CreateDone, DeleteDone
  <1>4. ASSUME NEW e \in StopEffects
        PROVE  (~sb.inst => stop'[e].state = "none") /\ (stop'[e].state = "none" => stop'[e].cmd = "none")
    <2>1. StopChange(e)
      BY <1>0, StopDelta, Zenon
    <2>2. (~sb.inst => stop[e].state = "none") /\ (stop[e].state = "none" => stop[e].cmd = "none")
      BY <1>0, Zenon DEF InstanceInv
    <2>3. (\E w \in Workers : StopStep(w)) \/ AdvanceFencedGeneration => sb.inst
      BY <1>0, NeedsInstance, Zenon
    <2>. QED BY <1>1, <2>1, <2>2, <2>3, Zenon DEF StopChange, StopSame
  <1>5. slot'.kind = "stop" => sb.inst /\ slot'.effect \in StopEffects
    <2>1. SlotChange
      BY <1>0, SlotDelta, Zenon
    <2>2. slot.kind = "stop" => sb.inst /\ slot.effect \in StopEffects
      BY <1>0, Zenon DEF InstanceInv
    <2>3. StopEffect \in StopEffects /\ "loss" \in StopEffects
      BY <1>0, StopEffectIn, Zenon DEF StopEffects
    <2>4. (\E w \in Workers : StopStep(w)) \/ AdvanceFencedGeneration => sb.inst
      BY <1>0, NeedsInstance, Zenon
    <2>. QED BY <1>1, <2>1, <2>2, <2>3, <2>4, Zenon DEF SlotChange, SlotSame, Released0
  <1>6. sb.inst => sb.gen < MaxGeneration
    BY <1>0, Zenon DEF InstanceInv
  <1>7. sb.inst <=> asg.state # "none"
    BY <1>0, Zenon DEF InstanceInv
  <1>. QED BY <1>1, <1>2, <1>3, <1>4, <1>5, <1>6, <1>7, Zenon DEF InstanceInv

(***************************************************************************)
(* Each kind of evidence has one source, and what it reports is so.        *)
(***************************************************************************)

NewEvidence(m) == m \in Evidence' /\ m \notin Evidence

(* Evidence of a fence, an advance or a create comes from its handler.     *)
LEMMA NewKind ==
  ASSUME link \in LinkTypes, Runner, NEW m, NewEvidence(m)
  PROVE  /\ m.kind = "fence" => handleFence
         /\ m.kind = "advance" => handleAdvance
         /\ m.kind = "create" => handleCreate
  <1>AppendedKind. ASSUME link \in LinkTypes, NEW k, NEW c, NEW ok, link' = [link EXCEPT !.in = Append(@, Message(k, c, ok))]
                   PROVE  \A m0 \in Evidence' : m0 \in Evidence \/ m0.kind = k
    <2>. USE <1>AppendedKind
    <2>. DEFINE x == Message(k, c, ok)
                S == Events \cup {x}
    <2>1. x.kind = k
      BY DEF Message
    <2>. HIDE DEF x
    <2>2. link.in \in Seq(Events) /\ link'.in = Append(link.in, x)
      BY Zenon DEF LinkTypes, x
    <2>3. link.in \in Seq(S) /\ x \in S
      BY <2>2
    <2>. HIDE DEF S
    <2>4. Elems(link'.in) = Elems(link.in) \cup {x}
      BY <2>2, <2>3, AppendIn
    <2>. QED BY <2>1, <2>4, Zenon DEF Evidence
  <1>1. ASSUME NEW k \in EventKinds, Handled(k) PROVE m.kind \in {"heartbeat", k}
    <2>1. link.down # <<>>
      BY <1>1, Zenon DEF Handled
    <2>2. /\ \A ok \in BOOLEAN : Answer(k, ok).kind = k
          /\ NoEvidence(k).kind = k /\ Heartbeat.kind = "heartbeat"
      BY <2>1, AnswerFields, NoEvidenceFields, Heartbeats, Zenon
    <2>3. m = Heartbeat \/ m = NoEvidence(k) \/ \E ok \in BOOLEAN : m = Answer(k, ok)
      BY <1>1, Zenon DEF NewEvidence, Handled
    <2>. QED BY <2>2, <2>3, Zenon
  <1>2. {"ack", "fence", "advance", "create", "delete"} \subseteq EventKinds
    BY Zenon DEF EventKinds
  <1>3. StartAssignment => m.kind = "result"
    <2>1. StartAssignment =>
            \E c, ok : link' = [link EXCEPT !.in = Append(@, Message("result", c, ok))]
      BY Zenon DEF StartAssignment
    <2>. QED BY <2>1, <1>AppendedKind, Zenon DEF NewEvidence
  <1>4. sendHeartbeat => m.kind = "heartbeat"
    <2>1. ASSUME sendHeartbeat PROVE Evidence' = Evidence \cup {Heartbeat}
      <3>1. link' = [link EXCEPT !.in = Append(@, Heartbeat)]
        BY <2>1, Zenon DEF sendHeartbeat
      <3>. QED BY <3>1, Appended, Heartbeats, Zenon DEF Adds
    <2>. QED BY <2>1, Heartbeats, Zenon DEF NewEvidence
  <1>5. sendInstanceTerminal => m.kind = "terminal"
    <2>1. sendInstanceTerminal =>
            \/ link' = NoLink
            \/ \E c, ok : link' = [link EXCEPT !.in = Append(@, Message("terminal", c, ok))]
      BY Zenon DEF sendInstanceTerminal
    <2>2. link' = NoLink => Shrinks
      BY Emptied, Zenon DEF NoLink
    <2>. QED BY <2>1, <2>2, <1>AppendedKind, Zenon DEF NewEvidence, Shrinks
  <1>. QED BY <1>1, <1>2, <1>3, <1>4, <1>5, HandlersAnswer, Zenon DEF Runner

(* A handler that sends one event sends it about the delivery it took.     *)
LEMMA AnsweredOnce ==
  ASSUME link \in LinkTypes, link.down # <<>>, NEW k \in EventKinds, NEW ok \in BOOLEAN,
         Reply(<<Answer(k, ok)>>), NEW m, NewEvidence(m)
  PROVE  m.ok = ok /\ m.gen = Head(link.down).gen /\ m.effect = Head(link.down).effect
  <1>1. Answer(k, ok) \in Events /\ Answer(k, ok).ok = ok /\ Answer(k, ok).gen = Head(link.down).gen
        /\ Answer(k, ok).effect = Head(link.down).effect
    BY AnswerFields, Zenon
  <1>2. Evidence' = Evidence \cup {Answer(k, ok)}
    BY <1>1, Replied, Zenon DEF Adds
  <1>3. m = Answer(k, ok)
    BY <1>2, Zenon DEF NewEvidence
  <1>. QED BY <1>1, <1>3, Zenon

(* Evidence of a fence: nothing of that generation runs.                   *)
LEMMA FenceSeen ==
  ASSUME link \in LinkTypes, rn \in RnTypes, Runner, NEW m, NewEvidence(m), m.kind = "fence", m.ok
  PROVE  /\ handleFence /\ link.down # <<>> /\ m.gen = Head(link.down).gen
         /\ rn.starting = 0 /\ rn'.starting = 0
         /\ rn'.run = IF rn.active = m.gen THEN 0 ELSE rn.run
  (* The same for a fence, which is followed by a heartbeat.                 *)
  <1>AnsweredFence. ASSUME link \in LinkTypes, link.down # <<>>, NEW ok \in BOOLEAN,
                           Reply(<<Heartbeat, Answer("fence", ok)>>), NEW m0, NewEvidence(m0), m0.kind = "fence"
                    PROVE  m0.ok = ok /\ m0.gen = Head(link.down).gen
    <2>. USE <1>AnsweredFence
    <2>0. "fence" \in EventKinds
      BY Zenon DEF EventKinds
    <2>1. Answer("fence", ok) \in Events /\ Answer("fence", ok).ok = ok
          /\ Answer("fence", ok).gen = Head(link.down).gen
      BY <2>0, AnswerFields, Zenon
    <2>2. Evidence' = Evidence \cup {Heartbeat, Answer("fence", ok)}
      BY <2>1, Replied, Heartbeats, Zenon DEF Adds
    <2>3. m0 = Answer("fence", ok)
      BY <2>2, Heartbeats, Zenon DEF NewEvidence
    <2>. QED BY <2>1, <2>3, Zenon
  <1>1. handleFence
    BY NewKind, Zenon
  <1>2. link.down # <<>> /\ "fence" \in EventKinds /\ rn.starting = 0
    BY <1>1, Zenon DEF handleFence, Receives, EventKinds, StartSettled
  <1>3. \/ /\ rn' = IF rn.active = Head(link.down).gen THEN [rn EXCEPT !.run = 0, !.active = 0] ELSE rn
           /\ Reply(<<Answer("fence", TRUE)>>) \/ Reply(<<Heartbeat, Answer("fence", TRUE)>>)
        \/ Reply(<<Answer("fence", FALSE)>>)
    BY <1>1, Zenon DEF handleFence
  <1>4. /\ \A ok \in BOOLEAN : Reply(<<Answer("fence", ok)>>) => m.ok = ok /\ m.gen = Head(link.down).gen
        /\ \A ok \in BOOLEAN : Reply(<<Heartbeat, Answer("fence", ok)>>) =>
             m.ok = ok /\ m.gen = Head(link.down).gen
    BY <1>2, AnsweredOnce, <1>AnsweredFence, Zenon
  <1>5. TRUE \in BOOLEAN /\ FALSE \in BOOLEAN
    BY Zenon
  <1>6. m.gen = Head(link.down).gen
        /\ rn' = IF rn.active = Head(link.down).gen THEN [rn EXCEPT !.run = 0, !.active = 0] ELSE rn
    BY <1>3, <1>4, <1>5, Zenon
  <1>7. rn'.starting = rn.starting /\ rn'.run = IF rn.active = m.gen THEN 0 ELSE rn.run
    BY <1>6, Zenon DEF RnTypes
  <1>. QED BY <1>1, <1>2, <1>6, <1>7, Zenon

(* The step that queues a command, by the kind of the command. *)
LEMMA AddedKind ==
  ASSUME NEW c, Added(c)
  PROVE  /\ c.kind = "delete" => \E w \in Workers : DeleteStep(w)
         /\ c.kind = "assignment" => ApplyRetry \/ \E w \in Workers : scheduleOnce(w)
         /\ c.kind = "fence" => FenceStep
         /\ c.kind = "lifecycle_fence" => \E w \in Workers : StopStep(w)
         /\ c.kind = "advance" =>
              \/ AdvanceFencedGeneration \/ recordFenceStopped \/ \E w \in Workers : StopStep(w)
         /\ c.kind \in Placed \cup {"delete"}
  <1>1. \A k, e : Command(k, e).kind = k
    BY CommandFields, Zenon
  <1>2. /\ Command("delete", "none").kind = "delete" /\ Command("assignment", "none").kind = "assignment"
        /\ Command("fence", "none").kind = "fence" /\ Fence.kind = "lifecycle_fence"
        /\ Command("advance", "loss").kind = "advance" /\ Command("advance", StopEffect).kind = "advance"
        /\ Command("advance", slot.effect).kind = "advance"
    BY <1>1, Zenon DEF Fence
  <1>3. \/ c.kind = "delete" /\ \E w \in Workers : DeleteStep(w)
        \/ c.kind = "assignment" /\ (ApplyRetry \/ \E w \in Workers : scheduleOnce(w))
        \/ c.kind = "fence" /\ FenceStep
        \/ c.kind = "lifecycle_fence" /\ \E w \in Workers : StopStep(w)
        \/ /\ c.kind = "advance"
           /\ AdvanceFencedGeneration \/ recordFenceStopped \/ \E w \in Workers : StopStep(w)
    BY <1>2, Zenon DEF Added
  <1>. QED BY <1>3, Zenon DEF Placed

(* Any step changes the Runner's compute or its image, never both.         *)
LEMMA RnDelta ==
  ASSUME Types, [Next]_vars
  PROVE  ComputeChange \/ ImageChange
  <1>1. rn \in RnTypes
    BY Zenon DEF Types
  <1>. QED BY <1>1, Steps, RunnerDelta, RunnerForms, Zenon

(* A handler acts on the delivery at the head of the queue.                *)
LEMMA Taking ==
  ASSUME Types
  PROVE  /\ handleAssignment => Head(link.down) \in Down /\ Head(link.down).kind = "assignment"
         /\ handleAdvance => /\ Head(link.down) \in Down /\ Head(link.down).kind = "advance"
                             /\ Head(link.down).gen \in Generations
         /\ handleDelete => Head(link.down) \in Down /\ Head(link.down).kind = "delete"
  <1>1. link \in LinkTypes
    BY Zenon DEF Types, LinkTypes
  <1>2. link.down # <<>> => Head(link.down) \in Down /\ Head(link.down) \in Deliveries
    BY <1>1, Replied, Zenon
  <1>3. Head(link.down) \in Deliveries => Head(link.down).gen \in Generations
    BY Zenon DEF Deliveries
  <1>4. /\ handleAssignment => link.down # <<>> /\ Head(link.down).kind = "assignment"
        /\ handleAdvance => link.down # <<>> /\ Head(link.down).kind = "advance"
        /\ handleDelete => link.down # <<>> /\ Head(link.down).kind = "delete"
    BY Zenon DEF handleAssignment, handleAdvance, handleDelete, Receives
  <1>. QED BY <1>2, <1>3, <1>4, Zenon

(* A delete is in flight only for a Workspace without an Instance, and an  *)
(* advance of this generation only for one with it.                        *)
LEMMA TakingNeeds ==
  ASSUME LifecycleInv
  PROVE  /\ handleDelete => ws \in {"deleting", "deleted"} /\ ~sb.inst
         /\ handleAdvance /\ Head(link.down).gen = sb.gen => sb.inst /\ ws = "ready"
         /\ handleAssignment => Head(link.down).gen = sb.gen /\ sb.inst
  <1>0. Types /\ InstanceInv /\ WorkspaceInv /\ CurrentInv /\ OrderInv
    BY Zenon DEF LifecycleInv
  <1>1. ASSUME handleDelete PROVE ws \in {"deleting", "deleted"} /\ ~sb.inst
    <2>1. ws \in {"deleting", "deleted"}
      BY <1>0, <1>1, Taking, Zenon DEF WorkspaceInv
    <2>. QED BY <1>0, <2>1, Zenon DEF InstanceInv
  <1>2. ASSUME handleAdvance, Head(link.down).gen = sb.gen PROVE sb.inst /\ ws = "ready"
    <2>1. Sent(Placed)
      BY <1>0, <1>2, Taking, Zenon DEF Sent, Placed
    <2>. QED BY <1>0, <2>1, Zenon DEF CurrentInv, InstanceInv
  <1>3. ASSUME handleAssignment PROVE Head(link.down).gen = sb.gen /\ sb.inst
    <2>1. Head(link.down).gen = sb.gen
      BY <1>0, <1>3, Taking, Zenon DEF OrderInv
    <2>2. Sent(Placed)
      BY <1>0, <1>3, <2>1, Taking, Zenon DEF Sent, Placed
    <2>. QED BY <1>0, <2>1, <2>2, Zenon DEF CurrentInv
  <1>. QED BY <1>1, <1>2, <1>3, Zenon

=============================================================================
