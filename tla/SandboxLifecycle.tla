-------------------------- MODULE SandboxLifecycle --------------------------
(***************************************************************************)
(* One Sandbox from creation to deletion: the rows PostgreSQL holds for    *)
(* it, the lifecycle workers that claim and reconcile them, the Assignment *)
(* reconciler, and its home Runner behind a control connection that may    *)
(* drop.  Every action is one transaction of the control plane, one step   *)
(* of the Runner, or one fault.                                            *)
(*                                                                         *)
(* A Sandbox holds at most one Assignment and one Instance per generation, *)
(* so both are identified by the generation, and a row of an earlier       *)
(* generation is never read again.  sandboxes.generation and               *)
(* workspaces.generation are written by the same statements and are one    *)
(* variable.  Revisions are abstracted to the question they answer: has    *)
(* the row's revision moved since this claim was taken.  Time is a         *)
(* nondeterministic choice wherever the code compares a deadline.          *)
(***************************************************************************)
EXTENDS Naturals, Sequences, FiniteSets

CONSTANTS
  Workers,          \* lifecycle reconcilers, one per control-plane replica
  Nobody,           \* reconcile_owner = ''
  MaxGeneration,    \* bound: no Instance is started at this generation
  MaxOperations,    \* bound on accepted lifecycle intents, creation included
  MaxFaults,        \* bound on everything in Fault
  StopRetryLimit,   \* RetryLimit of the effect broker
  FenceRetryLimit   \* RetryLimit of an Assignment

ASSUME LifecycleAssumption ==
  /\ Nobody \notin Workers
  /\ {MaxGeneration, MaxOperations} \subseteq Nat \ {0}
  /\ {MaxFaults, StopRetryLimit, FenceRetryLimit} \subseteq Nat

VARIABLES
  sb,       \* the sandboxes row
  ws,       \* workspaces.state
  slot,     \* the Workspace mutation columns
  asg,      \* the Assignment of the current generation
  live,     \* guest_liveness of the current Instance
  stop,     \* the stop effects of the current generation
  fx,       \* the create and delete effects
  ops,      \* pending and running Operations
  cmds,     \* live runner_commands, ordered by created_at
  work,     \* what each lifecycle worker holds between its transactions
  link,     \* the control connection and what is in flight on it
  rn,       \* the Runner: compute, recorded Assignment, local Workspace
  faults    \* faults so far
vars == <<sb, ws, slot, asg, live, stop, fx, ops, cmds, work, link, rn, faults>>
database == <<sb, ws, slot, asg, live, stop, fx, ops, cmds>>

Generations == 1 .. MaxGeneration
Desired == {"running", "stopped", "deleted"}
States == {"creating", "stopped", "starting", "ready", "draining", "stopping",
           "failed", "deleting", "deleted"}
Actions == {"wait", "drain", "expire", "mark_ready", "finish_stop", "fail",
            "start_instance", "stop_instance", "delete"}
StopEffects == {"stop", "loss"}
EffectStates == {"none", "queued", "runner_failed", "runner_succeeded"}

NoSlot == [kind |-> "none", state |-> "none", effect |-> "none", op |-> 0]
NoAssignment == [state |-> "none", class |-> "none", retries |-> 0]
NoStop == [state |-> "none", cmd |-> "none", left |-> 0]
NoLink == [up |-> FALSE, down |-> <<>>, in |-> <<>>]
Idle == [pc |-> "idle", act |-> "wait", fresh |-> FALSE,
         gen |-> 0, op |-> 0, wait |-> FALSE]

\* Of created_at only the order matters: a row keeps its rank among the live ones.
Command(k, e) == [kind |-> k, gen |-> sb.gen, effect |-> e]
Content(c) == [kind |-> c.kind, gen |-> c.gen, effect |-> c.effect]
Row(c, at, sent) == [kind |-> c.kind, gen |-> c.gen, effect |-> c.effect, at |-> at, sent |-> sent]
Ranked(rows) == {Row(c, Cardinality({d \in rows : d.at <= c.at}), c.sent) : c \in rows}
Queued(rows, c) == rows \cup {Row(c, Cardinality(rows) + 1, FALSE)}
Without(k, e) == Ranked({c \in cmds : ~(c.kind = k /\ c.gen = sb.gen /\ c.effect = e)})
Latest(o, S) == o \in S /\ \A p \in S : p.n <= o.n
Pending(kinds) == {o \in ops : o.kind \in kinds}

(***************************************************************************)
(* A write that advances sandboxes.revision invalidates every claim.       *)
(***************************************************************************)
Advanced(W) == [w \in Workers |-> [W[w] EXCEPT !.fresh = FALSE]]
AdvanceRevision == work' = Advanced(work)
Finish(w, advance) ==
  work' = [IF advance THEN Advanced(work) ELSE work EXCEPT ![w] = Idle]

Init ==  \* CreateSandbox has committed; its CREATE command is pending
  /\ sb = [desired |-> "running", state |-> "creating", gen |-> 1, inst |-> FALSE,
           owner |-> Nobody, due |-> FALSE, class |-> FALSE, issued |-> 1]
  /\ ws = "creating"
  /\ slot = [NoSlot EXCEPT !.kind = "create", !.state = "queued", !.op = 1]
  /\ asg = NoAssignment
  /\ live = "none"
  /\ stop = [e \in StopEffects |-> NoStop]
  /\ fx = [create |-> "queued", delete |-> "none"]
  /\ ops = {[kind |-> "create", n |-> 1, wait |-> FALSE]}
  /\ cmds = {Row(Command("create", "none"), 1, FALSE)}
  /\ work = [w \in Workers |-> Idle]
  /\ link = NoLink
  /\ rn = [run |-> 0, starting |-> 0, active |-> 0, exited |-> FALSE,
           manifest |-> 0, receipts |-> {}]
  /\ faults = 0

Fault == faults < MaxFaults /\ faults' = faults + 1

\* A deadline that passes while the Runner is connected races its answer.
Elapsed(passed) == IF passed /\ link.up THEN Fault ELSE UNCHANGED faults

-----------------------------------------------------------------------------
(***************************************************************************)
(* Decide.  A view is what ClaimLifecycleBatch reads; "expire" is drain    *)
(* with the reason idle_timeout or maximum_duration, which also changes    *)
(* the desired state.                                                      *)
(***************************************************************************)
LatestStop == IF stop["loss"].state # "none" THEN "loss" ELSE "stop"

View(sessions, expired) ==
  [desired |-> sb.desired, observed |-> sb.state, inst |-> sb.inst, live |-> live,
   stop |-> stop[LatestStop].state, sessions |-> sessions, expired |-> expired]

decideStopping(v) ==
  CASE v.stop = "runner_failed" -> "fail"
    [] v.stop = "queued" -> "stop_instance"
    [] v.stop \notin {"queued", "runner_failed"} /\ v.inst
         /\ v.live \notin {"stopped", "lost"} -> "stop_instance"
    [] v.stop = "runner_succeeded" /\ (v.inst => v.live \in {"stopped", "lost"}) ->
         "finish_stop"
    [] OTHER -> "wait"

decideRunning(v) ==
  CASE v.observed = "creating" -> "wait"
    [] v.observed = "stopped" -> "start_instance"
    [] v.observed = "starting" -> IF v.live = "ready" THEN "mark_ready"
                                  ELSE IF v.inst THEN "wait" ELSE "start_instance"
    [] v.observed = "ready" -> IF v.live \in {"stopped", "lost"} THEN "drain"
                               ELSE IF v.expired THEN "expire" ELSE "wait"
    [] v.observed = "failed" -> "start_instance"
    [] OTHER -> "fail"

decideStopped(v) ==
  CASE v.observed \in {"stopped", "failed", "creating"} -> "wait"
    [] v.observed \in {"ready", "starting"} -> "drain"
    [] OTHER -> "fail"

decideDeleted(v) ==
  CASE v.observed = "deleted" -> "wait"
    [] v.observed \in {"stopped", "failed", "deleting"} -> "delete"
    [] v.observed = "creating" -> IF v.inst THEN "drain" ELSE "delete"
    [] v.observed \in {"ready", "starting"} -> "drain"
    [] OTHER -> "fail"

Decide(v) ==
  CASE v.observed = "failed" /\ v.inst -> "stop_instance"
    [] v.observed = "draining" -> IF v.sessions THEN "wait" ELSE "stop_instance"
    [] v.observed = "stopping" -> decideStopping(v)
    [] OTHER -> CASE v.desired = "deleted" -> decideDeleted(v)
                  [] v.desired = "stopped" -> decideStopped(v)
                  [] v.desired = "running" -> decideRunning(v)

\* Mutant: a ready Sandbox is parked past its idle and maximum durations.
AtRestWhenReady(desired, observed) ==
  \/ desired = "stopped" /\ observed \in {"stopped", "failed"}
  \/ desired = "running" /\ observed = "ready"
  \/ desired = "deleted" /\ observed = "deleted"
stateIsAtRest(desired, observed) ==
  \/ desired = "stopped" /\ observed \in {"stopped", "failed"}
  \/ desired = "deleted" /\ observed = "deleted"

-----------------------------------------------------------------------------
(***************************************************************************)
(* A lifecycle request.  "stop" stands for drain and stop, which differ in *)
(* the reason they record.  A start may carry a capacity-wait deadline.    *)
(***************************************************************************)
SetSandboxDesiredState(kind, wait) ==
  LET n == sb.issued + 1
      satisfied == kind = "stop" /\ sb.state = "stopped"
      target == CASE kind = "start" -> "running" [] kind = "stop" -> "stopped"
                  [] kind = "delete" -> "deleted" IN
  /\ sb.issued < MaxOperations
  /\ wait => kind = "start"
  /\ sb.state # "deleted" /\ sb.desired # "deleted"
  /\ slot.kind = "none" \/ (kind = "delete" /\ slot.kind = "create")
  /\ ws = "ready" \/ (kind = "delete" /\ ws \in {"creating", "failed"})
  /\ kind = "start" => sb.state \in {"stopped", "failed"} /\ link.up
  /\ slot' = IF kind = "start" THEN [NoSlot EXCEPT !.kind = "start", !.state = "queued", !.op = n]
             ELSE slot
  /\ sb' = [sb EXCEPT !.desired = target, !.due = TRUE, !.class = FALSE, !.issued = n]
  /\ ops' = IF satisfied THEN ops ELSE ops \cup {[kind |-> kind, n |-> n, wait |-> wait]}
  /\ AdvanceRevision
  /\ UNCHANGED <<ws, asg, live, stop, fx, cmds, link, rn, faults>>

(***************************************************************************)
(* A worker claims the due Sandbox and decides.  A claim whose owner is    *)
(* still at work can be taken over only after it expires, which is a       *)
(* fault; one its owner gave up on expires by itself.                      *)
(***************************************************************************)
ClaimLifecycle(w, sessions, expired) ==
  LET act == Decide(View(sessions, expired)) IN
  /\ work[w].pc = "idle"
  /\ sb.due /\ sb.state # "deleted" /\ ~(sb.state = "failed" /\ sb.class)
  /\ act = "start_instance" => sb.gen < MaxGeneration
  /\ IF sb.owner \in {Nobody, w} \/ work[sb.owner].pc = "idle" THEN UNCHANGED faults ELSE Fault
  /\ sb' = [sb EXCEPT !.owner = w]
  /\ work' = [work EXCEPT ![w] = [Idle EXCEPT !.pc = "claimed", !.act = act, !.fresh = TRUE]]
  /\ UNCHANGED <<ws, slot, asg, live, stop, fx, ops, cmds, link, rn>>

\* Mutant: the revision is not compared.
HoldsStale(w, act) == work[w].pc = "claimed" /\ work[w].act = act /\ sb.owner = w
Holds(w, act) ==
  work[w].pc = "claimed" /\ work[w].act = act /\ work[w].fresh /\ sb.owner = w
Released(due) == [sb EXCEPT !.owner = Nobody, !.due = due]

StopCompleted ==
  /\ slot.kind = "stop" /\ slot.state = "runner_succeeded"
  /\ stop[slot.effect].state = "runner_succeeded"

(***************************************************************************)
(* A transaction that finds its claim overtaken, or a finish_stop that     *)
(* does not find the receipt's slot state, commits nothing.  The claim     *)
(* itself is left to expire.  A replica that stops mid-claim leaves the    *)
(* same state behind.                                                      *)
(***************************************************************************)
Conflicting(w) ==
  IF work[w].act = "start_instance" THEN sb.owner # w
  ELSE work[w].fresh /\ sb.owner = w => work[w].act = "finish_stop" /\ ~StopCompleted
RevisionConflict(w) ==
  /\ work[w].pc = "claimed" /\ Conflicting(w)
  /\ work' = [work EXCEPT ![w] = Idle]
  /\ UNCHANGED <<database, link, rn, faults>>

WorkerCrash(w) ==
  /\ work[w].pc # "idle"
  /\ Fault
  /\ work' = [work EXCEPT ![w] = Idle]
  /\ UNCHANGED <<database, link, rn>>

ApplyWait(w) ==
  /\ Holds(w, "wait")
  /\ sb' = Released(~stateIsAtRest(sb.desired, sb.state))
  /\ Finish(w, FALSE)
  /\ UNCHANGED <<ws, slot, asg, live, stop, fx, ops, cmds, link, rn, faults>>

(***************************************************************************)
(* drain, also for a passed idle or maximum duration ("expire"), and       *)
(* mark_ready, which meets only a Sandbox that readiness left starting.    *)
(***************************************************************************)
ApplyTransition(w) ==
  LET act == work[w].act IN
  /\ act \in {"drain", "expire", "mark_ready"} /\ Holds(w, act)
  /\ sb' = [Released(TRUE) EXCEPT
             !.state = IF act = "mark_ready" THEN "ready" ELSE "draining",
             !.desired = IF act = "expire" THEN "stopped" ELSE @]
  /\ ops' = IF act = "mark_ready" THEN ops \ Pending({"create", "start"}) ELSE ops
  /\ Finish(w, TRUE)
  /\ UNCHANGED <<ws, slot, asg, live, stop, fx, cmds, link, rn, faults>>

ApplyFail(w) ==
  /\ Holds(w, "fail")
  /\ sb' = [Released(FALSE) EXCEPT !.state = "failed", !.class = TRUE]
  /\ ops' = ops \ Pending({"create", "start", "stop", "delete"})
  /\ Finish(w, TRUE)
  /\ UNCHANGED <<ws, slot, asg, live, stop, fx, cmds, link, rn, faults>>

ApplyFinishStop(w) ==
  LET restarts == IF sb.desired = "running" THEN Pending({"start"}) ELSE {}
      done == IF sb.desired = "running" THEN {"stop"} ELSE {"stop", "create", "start"} IN
  /\ Holds(w, "finish_stop") /\ StopCompleted
  /\ sb' = [Released(sb.desired # "stopped") EXCEPT
             !.state = "stopped", !.gen = @ + 1, !.inst = FALSE]
  /\ \/ restarts = {} /\ slot' = NoSlot
     \/ \E o \in restarts :
          /\ Latest(o, restarts)
          /\ slot' = [NoSlot EXCEPT !.kind = "start", !.state = "queued", !.op = o.n]
  /\ asg' = NoAssignment /\ live' = "none" /\ stop' = [e \in StopEffects |-> NoStop]
  /\ ops' = ops \ Pending(done)
  /\ Finish(w, TRUE)
  /\ UNCHANGED <<ws, fx, cmds, link, rn, faults>>

-----------------------------------------------------------------------------
(***************************************************************************)
(* Stop.  The effect keeps its identity across retries, exhaustion and     *)
(* recovery; its command is a fence until compute is proved stopped and    *)
(* the local generation advance afterwards.                                *)
(***************************************************************************)
StopStates == {"assigned", "starting", "ready", "uncertain", "fencing",
               "failed_terminal", "released"}
ReplaceFailedStart ==
  /\ sb.state = "failed" /\ slot.kind = "start" /\ slot.state = "queued"
  /\ \E o \in ops : Latest(o, ops) /\ slot.op = o.n
AcquiresStop == slot.kind = "none" \/ ReplaceFailedStart
StopAdmissible == asg.state \in StopStates /\ ws = "ready" /\ (AcquiresStop \/ slot.kind = "stop")
StopEffect == IF slot.kind = "stop" THEN slot.effect ELSE LatestStop
StopSlot(e) == IF AcquiresStop
               THEN [NoSlot EXCEPT !.kind = "stop", !.state = "stopping", !.effect = e]
               ELSE slot
\* Mutant: a retry forgets that compute is already proved stopped.
StopCommandFence(e) == Command("lifecycle_fence", "stop")
StopCommand(e) == IF stop[e].cmd = "advance" THEN Command("advance", e)
                  ELSE Command("lifecycle_fence", "stop")
WithoutStopCommand(e) == IF stop[e].cmd = "advance" THEN Without("advance", e)
                         ELSE Without("lifecycle_fence", "stop")
Stopping == IF sb.state = "failed" THEN "stopping" ELSE sb.state

queueStop(w) ==
  LET e == StopEffect IN
  /\ Holds(w, "stop_instance") /\ StopAdmissible
  /\ stop[e].state = "none"
  /\ slot' = StopSlot(e)
  /\ stop' = [stop EXCEPT ![e] = [state |-> "queued", cmd |-> "fence", left |-> StopRetryLimit]]
  /\ cmds' = Queued(cmds, Command("lifecycle_fence", "stop"))
  /\ sb' = [Released(TRUE) EXCEPT !.state = "stopping"]
  /\ Finish(w, TRUE)
  /\ UNCHANGED <<ws, asg, live, fx, ops, link, rn, faults>>

(***************************************************************************)
(* An effect past its deadline is retried while retries are left; then it  *)
(* fails and gives the mutation slot back.                                 *)
(***************************************************************************)
resumeStopEffect(w, passed) ==
  LET e == StopEffect
      renewed == stop[e].state = "runner_failed" /\ sb.state = "failed"
      effect == IF renewed THEN [stop[e] EXCEPT !.state = "queued", !.left = StopRetryLimit + 1]
                ELSE stop[e]
      elapsed == effect.state = "queued" /\ (renewed \/ passed) IN
  /\ Holds(w, "stop_instance") /\ StopAdmissible
  /\ stop[e].state # "none"
  /\ passed => effect.state = "queued" /\ ~renewed
  /\ Elapsed(passed)
  /\ sb' = [Released(TRUE) EXCEPT !.state = Stopping]
  /\ \/ /\ ~elapsed
        /\ slot' = StopSlot(e)
        /\ Finish(w, AcquiresStop \/ sb.state = "failed")
        /\ UNCHANGED <<stop, cmds>>
     \/ /\ elapsed /\ effect.left = 0
        /\ slot' = NoSlot
        /\ stop' = [stop EXCEPT ![e].state = "runner_failed"]
        /\ cmds' = WithoutStopCommand(e)
        /\ Finish(w, TRUE)
     \/ /\ elapsed /\ effect.left > 0
        /\ slot' = IF effect.cmd = "advance" THEN [StopSlot(e) EXCEPT !.state = "advancing"]
                   ELSE StopSlot(e)
        /\ stop' = [stop EXCEPT ![e] = [effect EXCEPT !.left = @ - 1]]
        /\ cmds' = Queued(WithoutStopCommand(e), StopCommand(e))
        /\ Finish(w, TRUE)
  /\ UNCHANGED <<ws, asg, live, fx, ops, link, rn>>

-----------------------------------------------------------------------------
(***************************************************************************)
(* Delete.  The effect is retried without bound.                           *)
(***************************************************************************)
ReplaceFailedCreate == slot.kind = "create" /\ slot.state = "failed"
DeleteAdmissible ==
  /\ ~sb.inst /\ ws \in {"ready", "failed", "deleting"}
  /\ Pending({"delete"}) # {}
  /\ (slot.kind \in {"none", "delete"} \/ ReplaceFailedCreate)
DeleteSlot == [NoSlot EXCEPT !.kind = "delete", !.state = "deleting"]

queueWorkspaceDelete(w) ==
  /\ Holds(w, "delete") /\ DeleteAdmissible
  /\ fx.delete = "none"
  /\ ws' = "deleting" /\ slot' = DeleteSlot
  /\ fx' = [fx EXCEPT !.delete = "queued"]
  /\ cmds' = Queued(cmds, Command("delete", "none"))
  /\ sb' = [Released(TRUE) EXCEPT !.state = "deleting"]
  /\ Finish(w, TRUE)
  /\ UNCHANGED <<asg, live, stop, ops, link, rn, faults>>

resumeWorkspaceDeleteEffect(w, passed) ==
  /\ Holds(w, "delete") /\ DeleteAdmissible
  /\ fx.delete # "none"
  /\ passed => fx.delete = "queued"
  /\ Elapsed(passed)
  /\ sb' = Released(TRUE)
  /\ IF fx.delete = "runner_failed" \/ passed
     THEN /\ fx' = [fx EXCEPT !.delete = "queued"]
          /\ cmds' = Queued(Without("delete", "none"), Command("delete", "none"))
          /\ slot' = DeleteSlot
          /\ Finish(w, TRUE)
     ELSE Finish(w, FALSE) /\ UNCHANGED <<fx, cmds, slot>>
  /\ UNCHANGED <<ws, asg, live, stop, ops, link, rn>>

(***************************************************************************)
(* An effect refused by the rows it finds is deferred to the next poll.    *)
(***************************************************************************)
DeferEffect(w) ==
  /\ \/ Holds(w, "stop_instance") /\ ~StopAdmissible
     \/ Holds(w, "delete") /\ ~DeleteAdmissible
  /\ sb' = Released(TRUE)
  /\ Finish(w, FALSE)
  /\ UNCHANGED <<ws, slot, asg, live, stop, fx, ops, cmds, link, rn, faults>>

-----------------------------------------------------------------------------
(***************************************************************************)
(* Start.  The plan is read in one transaction and placed in another, and  *)
(* placement rechecks neither the claim nor the revision: it is fenced by  *)
(* the generation, the Assignment and the mutation slot.                   *)
(***************************************************************************)
loadStartPlan(w) ==
  /\ work[w].pc = "claimed" /\ work[w].act = "start_instance" /\ sb.owner = w
  /\ work' = [work EXCEPT ![w] =
       [@ EXCEPT !.pc = "planned", !.gen = sb.gen, !.op = slot.op,
                 !.wait = \E o \in ops : o.n = slot.op /\ o.wait]]
  /\ UNCHANGED <<database, link, rn, faults>>

Plans(w) == work[w].pc = "planned"
PlanCurrent(w) == work[w].fresh /\ work[w].gen = sb.gen /\ ~sb.inst /\ sb.owner = w
Mismatch(w) ==
  \/ work[w].gen # sb.gen \/ ws \notin {"creating", "ready"}
  \/ asg.state = "none" /\ work[w].wait /\ sb.desired # "running"
SlotFree(w) ==
  slot.kind = "none" \/ (slot.kind = "start" /\ slot.op = work[w].op)

scheduleOnce(w) ==
  /\ Plans(w) /\ ~Mismatch(w)
  /\ asg.state = "none" /\ SlotFree(w) /\ ~sb.inst
  /\ slot' = [kind |-> "start", state |-> "assigned", effect |-> "live", op |-> work[w].op]
  /\ asg' = [NoAssignment EXCEPT !.state = "assigned"]
  /\ live' = "starting"
  /\ cmds' = Queued(cmds, Command("assignment", "none"))
  /\ sb' = [sb EXCEPT !.state = "starting", !.inst = TRUE,
                      !.owner = IF @ = w THEN Nobody ELSE @,
                      !.due = @ \/ sb.owner = w]
  /\ Finish(w, TRUE)
  /\ UNCHANGED <<ws, stop, fx, ops, link, rn, faults>>

(***************************************************************************)
(* The generation already has an Assignment: only the claim is released.   *)
(***************************************************************************)
ReplaySchedule(w) ==
  /\ Plans(w) /\ ~Mismatch(w) /\ asg.state # "none"
  /\ sb' = IF sb.owner = w THEN Released(TRUE) ELSE sb
  /\ Finish(w, sb.owner = w)
  /\ UNCHANGED <<ws, slot, asg, live, stop, fx, ops, cmds, link, rn, faults>>

(***************************************************************************)
(* A placement the rows refuse, or one whose Runner or capacity wait is    *)
(* gone when the claim is lost too; a claim still held is left to expire.  *)
(***************************************************************************)
RefuseSchedule(w) ==
  /\ Plans(w)
  /\ Mismatch(w) \/ (asg.state = "none" /\ ~(SlotFree(w) /\ PlanCurrent(w)))
  /\ work' = [work EXCEPT ![w] = Idle]
  /\ UNCHANGED <<database, link, rn, faults>>

deferUnavailableHomeRunnerStart(w) ==
  /\ Plans(w) /\ PlanCurrent(w)
  /\ Elapsed(TRUE)
  /\ sb' = Released(TRUE)
  /\ Finish(w, FALSE)
  /\ UNCHANGED <<ws, slot, asg, live, stop, fx, ops, cmds, link, rn>>

failStartPreparation(w) ==
  /\ Plans(w) /\ PlanCurrent(w)
  /\ slot.kind \in {"none", "start"}
  /\ Fault
  /\ slot' = NoSlot
  /\ sb' = [Released(FALSE) EXCEPT !.state = "failed", !.class = TRUE]
  /\ ops' = {o \in ops : o.n # work[w].op}
  /\ Finish(w, TRUE)
  /\ UNCHANGED <<ws, asg, live, stop, fx, cmds, link, rn>>

expireStartCapacityWait(w) ==
  /\ Plans(w) /\ PlanCurrent(w) /\ work[w].wait
  /\ sb.desired = "running"
  /\ slot.kind = "start" /\ slot.op = work[w].op
  /\ Elapsed(TRUE)
  /\ slot' = NoSlot
  /\ sb' = [Released(FALSE) EXCEPT !.desired = "stopped"]
  /\ ops' = {o \in ops : o.n # work[w].op}
  /\ Finish(w, TRUE)
  /\ UNCHANGED <<ws, asg, live, stop, fx, cmds, link, rn>>

-----------------------------------------------------------------------------
(***************************************************************************)
(* The Assignment reconciler.  Every write to an Assignment advances its   *)
(* revision, which fences the reconciler's claim, so claim and decision    *)
(* are one step.  Its commands carry the assignment, not an effect.        *)
(***************************************************************************)
AssignmentCommands == {"assignment", "fence"}
Superseded(kinds) == Ranked({c \in cmds : ~(c.kind \in kinds /\ c.gen = sb.gen)})
\* The command a start slot names as its effect.
SlotCommand(state) ==
  IF slot.kind = "start" /\ slot.effect = "live" THEN [slot EXCEPT !.effect = state] ELSE slot

MarkExpiredRunners ==
  /\ ~link.up
  /\ asg.state \in {"assigned", "starting", "ready"}
  /\ asg' = [asg EXCEPT !.state = "uncertain", !.class = "transient"]
  /\ UNCHANGED <<sb, ws, slot, live, stop, fx, ops, cmds, work, link, rn, faults>>

\* Mutant: the retry limit is forgotten.
FenceUnbounded(late) ==
  \/ ~late /\ asg.state = "uncertain"
  \/ late /\ asg.state \in {"assigned", "starting", "failed", "fencing"}
DecidesFence(late) ==
  \/ ~late /\ asg.state = "uncertain"
  \/ late /\ asg.state \in {"assigned", "starting", "failed"}
  \/ late /\ asg.state = "fencing" /\ asg.retries < FenceRetryLimit

ApplyFence(late) ==
  /\ DecidesFence(late) /\ Elapsed(late)
  /\ asg' = [state |-> "fencing",
             class |-> IF asg.state = "uncertain" \/ asg.class = "fencing"
                       THEN "fencing" ELSE "startup_timeout",
             retries |-> IF asg.state = "fencing" THEN asg.retries + 1 ELSE 0]
  /\ cmds' = Queued(Superseded(AssignmentCommands), Command("fence", "none"))
  /\ slot' = SlotCommand("expired")
  /\ UNCHANGED <<sb, ws, live, stop, fx, ops, work, link, rn>>

ApplyRetry ==
  /\ asg.state = "failed" /\ asg.class = "transient" /\ asg.retries < FenceRetryLimit
  /\ asg' = [state |-> "assigned", class |-> "none", retries |-> asg.retries + 1]
  /\ cmds' = Queued(Superseded({"assignment"}), Command("assignment", "none"))
  /\ slot' = SlotCommand("expired")
  /\ UNCHANGED <<sb, ws, live, stop, fx, ops, work, link, rn, faults>>

DecidesTerminal(late) ==
  \/ late /\ asg.state = "fencing" /\ asg.retries >= FenceRetryLimit
  \/ ~late /\ asg.state = "failed" /\ ~(asg.class = "transient" /\ asg.retries < FenceRetryLimit)
  \/ ~late /\ asg.state = "fenced" /\ asg.class = "startup_timeout"

ApplyFailTerminal(late) ==
  /\ DecidesTerminal(late) /\ Elapsed(late)
  /\ slot.kind \in {"none", "start"}
  /\ slot' = NoSlot
  /\ asg' = [asg EXCEPT !.state = "failed_terminal"]
  /\ cmds' = Superseded(AssignmentCommands)
  /\ live' = IF live = "stopped" THEN live ELSE "lost"
  /\ sb' = [Released(FALSE) EXCEPT !.state = "failed", !.class = TRUE]
  /\ ops' = ops \ Pending({"create", "start"})
  /\ AdvanceRevision
  /\ UNCHANGED <<ws, stop, fx, link, rn>>

ReplaceFencedStart == slot.kind = "start" /\ slot.state = "assigned" /\ slot.effect = "expired"

AdvanceFencedGeneration ==
  LET queue == slot.kind = "none" \/ ReplaceFencedStart
      kept == Superseded(AssignmentCommands \cup {"lifecycle_fence"}) IN
  /\ asg.state = "fenced" /\ asg.class = "fencing" /\ ws = "ready"
  /\ queue \/ slot.kind = "stop"
  /\ IF queue
     THEN /\ slot' = [kind |-> "stop", state |-> "advancing", effect |-> "loss", op |-> 0]
          /\ stop' = [stop EXCEPT !["loss"] =
                        [state |-> "queued", cmd |-> "advance", left |-> StopRetryLimit]]
          /\ cmds' = Queued(kept, Command("advance", "loss"))
     ELSE cmds' = kept /\ UNCHANGED <<slot, stop>>
  /\ asg' = [asg EXCEPT !.state = "released"]
  /\ live' = "lost"
  /\ sb' = [Released(TRUE) EXCEPT !.state = "stopping", !.class = FALSE]
  /\ AdvanceRevision
  /\ UNCHANGED <<ws, fx, ops, link, rn, faults>>

-----------------------------------------------------------------------------
(***************************************************************************)
(* The control connection.  It delivers in order in both directions; what  *)
(* is in flight when it drops is lost.  A new connection makes every       *)
(* unfinished command pending again.                                       *)
(***************************************************************************)
OpenConnection ==
  /\ ~link.up
  /\ link' = [NoLink EXCEPT !.up = TRUE]
  /\ cmds' = {Row(c, c.at, FALSE) : c \in cmds}
  /\ UNCHANGED <<sb, ws, slot, asg, live, stop, fx, ops, work, rn, faults>>

ClaimCommands ==
  /\ link.up
  /\ \E c \in cmds :
       /\ ~c.sent /\ \A d \in cmds : d.sent \/ c.at <= d.at
       /\ link' = [link EXCEPT !.down = Append(@, Content(c))]
       /\ cmds' = (cmds \ {c}) \cup {Row(c, c.at, TRUE)}
  /\ UNCHANGED <<sb, ws, slot, asg, live, stop, fx, ops, work, rn, faults>>

CanStart(g) == rn.active = 0 /\ rn.run = 0 /\ rn.manifest = g
Started(g) == [rn EXCEPT !.starting = 0, !.run = g, !.active = g, !.exited = FALSE]

\* A start in flight either completes unheard or is cancelled.
Drop ==
  /\ link' = NoLink
  /\ \/ rn' = [rn EXCEPT !.starting = 0]
     \/ rn.starting # 0 /\ CanStart(rn.starting) /\ rn' = Started(rn.starting)

CloseConnection ==
  /\ link.up /\ Fault /\ Drop
  /\ UNCHANGED <<database, work>>

\* Compute left over by the previous process is swept before registration.
RunnerRestart ==
  /\ Fault
  /\ link' = NoLink
  /\ rn' = [rn EXCEPT !.run = 0, !.starting = 0, !.active = 0, !.exited = FALSE]
  /\ UNCHANGED <<database, work>>

-----------------------------------------------------------------------------
(***************************************************************************)
(* The Runner.  It takes commands in order; an Assignment starts off the   *)
(* receive loop, and only a fence waits for it.                            *)
(***************************************************************************)
Receives(kinds) == link.up /\ link.down # <<>> /\ Head(link.down).kind \in kinds
Message(k, c, ok) == [kind |-> k, gen |-> c.gen, effect |-> c.effect, cmd |-> c.kind, ok |-> ok]
Reply(messages) == link' = [link EXCEPT !.down = Tail(@), !.in = @ \o messages]
Answer(k, ok) == Message(k, Head(link.down), ok)
\* A create or delete that fails reports generation 0 and capacity 0.
NoEvidence(k) == [Answer(k, FALSE) EXCEPT !.gen = 0]
Heartbeat == [kind |-> "heartbeat", gen |-> 0, effect |-> "none", cmd |-> "none", ok |-> TRUE]
OnlyConnection == UNCHANGED <<database, work>>

handleAssignment ==
  /\ Receives({"assignment"}) /\ rn.starting = 0
  /\ \/ /\ Reply(<<Answer("ack", TRUE)>>)
        /\ rn' = [rn EXCEPT !.starting = Head(link.down).gen]
        /\ UNCHANGED faults
     \/ Fault /\ Reply(<<Answer("ack", FALSE)>>) /\ UNCHANGED rn
  /\ OnlyConnection

\* An Assignment already recorded as active is reported ready again.
StartAssignment ==
  LET g == rn.starting
      result(ok) == Message("result", [gen |-> g, effect |-> "none", kind |-> "assignment"], ok)
      send(ok) == link' = [link EXCEPT !.in = Append(@, result(ok))] IN
  /\ g # 0
  /\ \/ /\ CanStart(g) \/ rn.active = g
        /\ rn' = IF rn.active = g THEN [rn EXCEPT !.starting = 0] ELSE Started(g)
        /\ send(TRUE) /\ UNCHANGED faults
     \/ /\ IF CanStart(g) \/ rn.active = g THEN Fault ELSE UNCHANGED faults
        /\ rn' = [rn EXCEPT !.starting = 0]
        /\ send(FALSE)
  /\ OnlyConnection

\* Mutant: a fence does not wait for the start it fences.
StartIgnored == TRUE
StartSettled == rn.starting = 0

(***************************************************************************)
(* The recorded Assignment is removed before the result is sent, so a      *)
(* heartbeat can overtake the result.                                      *)
(***************************************************************************)
handleFence ==
  LET active == rn.active = Head(link.down).gen
      stopped == Answer("fence", TRUE) IN
  /\ Receives({"fence", "lifecycle_fence"}) /\ StartSettled
  /\ \/ /\ rn' = IF active THEN [rn EXCEPT !.run = 0, !.active = 0] ELSE rn
        /\ \/ Reply(<<stopped>>)
           \/ active /\ Reply(<<Heartbeat, stopped>>)
        /\ UNCHANGED faults
     \/ active /\ Fault /\ Reply(<<Answer("fence", FALSE)>>) /\ UNCHANGED rn
  /\ OnlyConnection

(***************************************************************************)
(* AdvanceGeneration replays its receipt, and otherwise needs the manifest *)
(* at the expected generation and no open writer.                          *)
(***************************************************************************)
handleAdvance ==
  LET c == Head(link.down)
      receipt == <<c.effect, c.gen>> IN
  /\ Receives({"advance"})
  /\ \/ receipt \in rn.receipts /\ Reply(<<Answer("advance", TRUE)>>) /\ UNCHANGED <<rn, faults>>
     \/ /\ receipt \notin rn.receipts /\ rn.manifest = c.gen /\ rn.run = 0
        /\ rn' = [rn EXCEPT !.manifest = @ + 1, !.receipts = @ \cup {receipt}]
        /\ Reply(<<Answer("advance", TRUE)>>) /\ UNCHANGED faults
     \/ /\ receipt \notin rn.receipts
        /\ IF rn.manifest = c.gen /\ rn.run = 0 /\ rn.starting = 0 THEN Fault ELSE UNCHANGED faults
        /\ Reply(<<Answer("advance", FALSE)>>) /\ UNCHANGED rn
  /\ OnlyConnection

(***************************************************************************)
(* An existing Workspace replays its receipt.  A create whose storage      *)
(* reservation cannot be released reports a failure with the evidence of   *)
(* the Workspace it made.                                                  *)
(***************************************************************************)
handleCreate ==
  /\ Receives({"create"})
  /\ \/ /\ rn' = [rn EXCEPT !.manifest = IF @ = 0 THEN 1 ELSE @]
        /\ \/ Reply(<<Answer("create", TRUE)>>) /\ UNCHANGED faults
           \/ rn.manifest = 0 /\ Fault /\ Reply(<<Answer("create", FALSE)>>)
     \/ rn.manifest = 0 /\ Fault /\ Reply(<<NoEvidence("create")>>) /\ UNCHANGED rn
  /\ OnlyConnection

handleDelete ==
  /\ Receives({"delete"})
  /\ \/ /\ rn.run = 0 /\ rn.starting = 0
        /\ rn' = [rn EXCEPT !.manifest = 0, !.receipts = {}]
        /\ Reply(<<Answer("delete", TRUE)>>) /\ UNCHANGED faults
     \/ /\ IF rn.run = 0 /\ rn.starting = 0 THEN Fault ELSE UNCHANGED faults
        /\ Reply(<<NoEvidence("delete")>>) /\ UNCHANGED rn
  /\ OnlyConnection

sendHeartbeat ==
  /\ link.up /\ rn.active = 0 /\ \A i \in DOMAIN link.in : link.in[i] # Heartbeat
  /\ link' = [link EXCEPT !.in = Append(@, Heartbeat)]
  /\ UNCHANGED <<database, work, rn, faults>>

\* The guest powers itself off; its Assignment stays recorded.
GuestExit ==
  /\ rn.run # 0 /\ Fault
  /\ rn' = [rn EXCEPT !.run = 0, !.exited = TRUE]
  /\ UNCHANGED <<database, work, link>>

\* Evidence whose Assignment was fenced meanwhile ends the session.
sendInstanceTerminal ==
  LET c == [gen |-> rn.active, effect |-> "none", kind |-> "none"] IN
  /\ rn.exited /\ link.up
  /\ rn' = [rn EXCEPT !.exited = FALSE, !.starting = IF rn.active = 0 THEN 0 ELSE @]
  /\ link' = IF rn.active = 0 THEN NoLink
             ELSE [link EXCEPT !.in = Append(@, Message("terminal", c, TRUE))]
  /\ UNCHANGED <<database, work, faults>>

-----------------------------------------------------------------------------
(***************************************************************************)
(* The control plane records what the Runner reports.  Evidence it cannot  *)
(* reconcile with the rows commits nothing and ends the connection.        *)
(***************************************************************************)
Hears(kind) == link.up /\ link.in # <<>> /\ Head(link.in).kind = kind
msg == Head(link.in)
Recorded == link' = [link EXCEPT !.in = Tail(@)]
CurrentFence == msg.gen = sb.gen /\ sb.inst
AcknowledgeAssignment ==
  cmds' = Ranked({c \in cmds : ~(c.kind = "assignment" /\ c.gen = msg.gen)})
Refuse == Drop /\ UNCHANGED <<database, work, faults>>

assignmentFails ==
  /\ \E class \in {"transient", "other"} :
       asg' = [asg EXCEPT !.state = "failed", !.class = class]
  /\ slot' = SlotCommand("acknowledged")
  /\ sb' = Released(TRUE) /\ AdvanceRevision
  /\ AcknowledgeAssignment
  /\ UNCHANGED <<ws, live, stop, fx, ops>>

recordAssignmentAck ==
  /\ Hears("ack") /\ Recorded /\ CurrentFence
  /\ \/ /\ msg.ok /\ asg.state \in {"assigned", "starting", "ready"}
        /\ asg' = [asg EXCEPT !.state = IF @ = "assigned" THEN "starting" ELSE @]
        /\ UNCHANGED <<sb, ws, slot, live, stop, fx, ops, cmds, work>>
     \/ ~msg.ok /\ asg.state = "assigned" /\ assignmentFails
  /\ UNCHANGED <<rn, faults>>

\* projectReadySandbox; a Sandbox it does not match is only woken.
Projected == sb.state = "starting" /\ sb.desired = "running"

recordAssignmentReady ==
  /\ Hears("result") /\ Recorded /\ CurrentFence /\ msg.ok
  /\ \/ asg.state = "ready" /\ UNCHANGED <<sb, slot, asg, live, ops, work>>
     \/ /\ asg.state \in {"assigned", "starting"} /\ slot.kind = "start"
        /\ asg' = [asg EXCEPT !.state = "ready"] /\ live' = "ready"
        /\ slot' = NoSlot
        /\ sb' = [Released(TRUE) EXCEPT !.state = IF Projected THEN "ready" ELSE @]
        /\ ops' = IF Projected THEN ops \ Pending({"create", "start"}) ELSE ops
        /\ AdvanceRevision
  /\ AcknowledgeAssignment
  /\ UNCHANGED <<ws, stop, fx, rn, faults>>

recordAssignmentFailed ==
  /\ Hears("result") /\ Recorded /\ CurrentFence /\ ~msg.ok
  /\ asg.state \in {"assigned", "starting"}
  /\ assignmentFails
  /\ UNCHANGED <<rn, faults>>

RefuseAssignmentEvent ==
  /\ Hears("ack") \/ Hears("result")
  /\ \/ ~CurrentFence
     \/ msg.kind = "ack" /\ asg.state \notin (IF msg.ok THEN {"assigned", "starting", "ready"}
                                                ELSE {"assigned"})
     \/ msg.kind = "result" /\ msg.ok /\ asg.state # "ready"
          /\ ~(asg.state \in {"assigned", "starting"} /\ slot.kind = "start")
     \/ msg.kind = "result" /\ ~msg.ok /\ asg.state \notin {"assigned", "starting"}
  /\ Refuse

(***************************************************************************)
(* Fence results.  With a queued stop effect the proof releases the        *)
(* Assignment and turns the effect's command into the generation advance;  *)
(* without one the Assignment reconciler goes on from "fenced".            *)
(***************************************************************************)
Authority == {e \in StopEffects : stop[e].state = "queued"}
\* The fence command a result answers, whatever became of it since.
Matching == {c \in cmds : c.kind = msg.cmd /\ c.gen = msg.gen}
AcknowledgeMatching ==
  cmds' = Ranked({c \in cmds : c \in Matching => \E d \in Matching : d.at < c.at})
FenceAuthority == IF Authority = {} THEN asg.class \in {"fencing", "startup_timeout"}
                  ELSE slot.kind = "stop" /\ slot.effect \in Authority

recordFenceStopped ==
  /\ Hears("fence") /\ Recorded /\ CurrentFence /\ msg.ok /\ FenceAuthority
  /\ asg' = [asg EXCEPT !.state = IF Authority = {} THEN "fenced" ELSE "released"]
  /\ live' = "stopped"
  /\ \/ Authority = {} /\ AcknowledgeMatching /\ UNCHANGED <<slot, stop>>
     \/ /\ Authority # {} /\ stop[slot.effect].cmd = "advance"
        /\ UNCHANGED <<slot, stop, cmds>>
     \/ /\ Authority # {} /\ stop[slot.effect].cmd = "fence"
        /\ cmds' = Queued(Without("lifecycle_fence", "stop"), Command("advance", slot.effect))
        /\ stop' = [stop EXCEPT ![slot.effect].cmd = "advance"]
        /\ slot' = [slot EXCEPT !.state = "advancing"]
  /\ UNCHANGED <<sb, ws, fx, ops, work, rn, faults>>

recordFenceFailed ==
  /\ Hears("fence") /\ Recorded /\ CurrentFence /\ ~msg.ok
  /\ asg' = [asg EXCEPT !.state = "uncertain", !.class = "fencing"]
  /\ UNCHANGED <<sb, ws, slot, live, stop, fx, ops, cmds, work, rn, faults>>

\* A generation is left only with its fence proof recorded.
acknowledgeRedundantFenceResult ==
  /\ Hears("fence") /\ Recorded /\ ~CurrentFence
  /\ msg.ok /\ Matching # {}
  /\ AcknowledgeMatching
  /\ UNCHANGED <<sb, ws, slot, asg, live, stop, fx, ops, work, rn, faults>>

RefuseFenceEvent ==
  /\ Hears("fence")
  /\ IF CurrentFence THEN msg.ok /\ ~FenceAuthority ELSE ~(msg.ok /\ Matching # {})
  /\ Refuse

(***************************************************************************)
(* Results of local Workspace commands.                                    *)
(***************************************************************************)
Acknowledge(k) == cmds' = Without(k, msg.effect)

AdvanceAuthority == slot.kind = "stop" /\ slot.effect = msg.effect /\ msg.gen = sb.gen
\* Mutant: the first result is taken for a replay.
AdvanceReplayedQueued == stop[msg.effect].state # "none"
AdvanceReplayed ==
  \/ stop[msg.effect].state = "runner_succeeded"
  \/ stop[msg.effect].state = "runner_failed" /\ ~msg.ok
AdvanceInOrder ==
  /\ stop[msg.effect].state \in {"queued", "runner_failed"}
  /\ ws = "ready" /\ slot.state = "advancing" /\ sb.state \in {"stopping", "failed"}

\* Mutant: a failed advance is taken for the receipt.
AdvanceSucceeds == "runner_succeeded"
AdvanceOutcome == IF msg.ok THEN "runner_succeeded" ELSE "runner_failed"

recordLocalGenerationAdvanceResult ==
  LET outcome == AdvanceOutcome
      woken == [Released(TRUE) EXCEPT !.state = IF msg.ok THEN Stopping ELSE @,
                                      !.class = @ /\ ~msg.ok] IN
  /\ Hears("advance") /\ Recorded /\ AdvanceAuthority
  /\ \/ AdvanceReplayed /\ UNCHANGED <<sb, slot, stop, cmds, work>>
     \/ /\ ~AdvanceReplayed /\ AdvanceInOrder
        /\ slot' = [slot EXCEPT !.state = IF outcome = "runner_succeeded" THEN outcome ELSE "failed"]
        /\ stop' = [stop EXCEPT ![msg.effect].state = outcome]
        /\ Acknowledge("advance")
        /\ sb' = woken /\ AdvanceRevision
  /\ UNCHANGED <<ws, asg, live, fx, ops, rn, faults>>

\* A create result after the effect's end is a replay, whatever it reports.
CreateAuthority == fx.create = "queued" => msg.gen = sb.gen

recordLocalWorkspaceResult ==
  LET run == sb.desired = "running" IN
  /\ Hears("create") /\ Recorded /\ CreateAuthority
  /\ \/ fx.create # "queued" /\ UNCHANGED <<sb, ws, slot, fx, ops, cmds, work>>
     \/ /\ fx.create = "queued" /\ msg.ok
        /\ ws' = "ready"
        /\ slot' = IF run THEN [slot EXCEPT !.kind = "start"] ELSE NoSlot
        /\ sb' = [Released(sb.desired \in {"running", "deleted"}) EXCEPT !.state = "stopped"]
        /\ ops' = IF run THEN ops ELSE {o \in ops : o.n # slot.op}
        /\ fx' = [fx EXCEPT !.create = "succeeded"]
        /\ Acknowledge("create") /\ AdvanceRevision
     \/ /\ fx.create = "queued" /\ ~msg.ok
        /\ ws' = "failed"
        /\ slot' = [slot EXCEPT !.state = "failed"]
        /\ sb' = [Released(sb.due \/ sb.desired = "deleted") EXCEPT
                    !.state = "failed", !.class = TRUE]
        /\ ops' = {o \in ops : o.n # slot.op}
        /\ fx' = [fx EXCEPT !.create = "runner_failed"]
        /\ Acknowledge("create") /\ AdvanceRevision
  /\ UNCHANGED <<asg, live, stop, rn, faults>>

DeleteAuthority ==
  /\ msg.gen = sb.gen
  /\ IF fx.delete = "succeeded" THEN ws = "deleted" /\ sb.state = "deleted"
     ELSE ws = "deleting" /\ sb.state = "deleting" /\ sb.desired = "deleted" /\ slot.kind = "delete"

\* A failed delete carries no generation, so none is ever recorded.
recordLocalWorkspaceDeleteResult ==
  /\ Hears("delete") /\ Recorded /\ DeleteAuthority
  /\ \/ fx.delete # "queued" /\ UNCHANGED <<sb, ws, slot, fx, ops, cmds, work>>
     \/ /\ fx.delete = "queued" /\ msg.ok
        /\ ws' = "deleted" /\ slot' = NoSlot
        /\ sb' = [Released(FALSE) EXCEPT !.state = "deleted", !.inst = FALSE]
        /\ ops' = {}
        /\ fx' = [fx EXCEPT !.delete = "succeeded"]
        /\ Acknowledge("delete") /\ AdvanceRevision
  /\ UNCHANGED <<asg, live, stop, rn, faults>>

RefuseLocalWorkspaceResult ==
  /\ \/ Hears("advance") /\ ~(AdvanceAuthority /\ (AdvanceReplayed \/ AdvanceInOrder))
     \/ Hears("create") /\ ~CreateAuthority
     \/ Hears("delete") /\ ~DeleteAuthority
  /\ Refuse

(***************************************************************************)
(* Terminal evidence and heartbeats.  The terminal transaction wakes the   *)
(* Sandbox and leaves a claim in place.                                    *)
(***************************************************************************)
TerminalCurrent == CurrentFence /\ asg.state = "ready" /\ live = "ready"

recordInstanceTerminal ==
  /\ Hears("terminal") /\ Recorded /\ TerminalCurrent
  /\ live' = "stopped"
  /\ sb' = [sb EXCEPT !.due = TRUE] /\ AdvanceRevision
  /\ UNCHANGED <<ws, slot, asg, stop, fx, ops, cmds, rn, faults>>

RefuseInstanceTerminal ==
  /\ Hears("terminal") /\ ~TerminalCurrent
  /\ Refuse

reconcileRunnerActiveAssignments ==
  /\ Hears("heartbeat") /\ Recorded
  /\ asg' = IF asg.state = "ready" THEN [asg EXCEPT !.state = "uncertain", !.class = "transient"]
            ELSE asg
  /\ UNCHANGED <<sb, ws, slot, live, stop, fx, ops, cmds, work, rn, faults>>

-----------------------------------------------------------------------------
Worker(w) ==
  \/ \E sessions, expired \in BOOLEAN : ClaimLifecycle(w, sessions, expired)
  \/ RevisionConflict(w) \/ ApplyWait(w) \/ ApplyTransition(w)
  \/ ApplyFail(w) \/ ApplyFinishStop(w)
  \/ queueStop(w) \/ queueWorkspaceDelete(w) \/ DeferEffect(w)
  \/ \E passed \in BOOLEAN : resumeStopEffect(w, passed) \/ resumeWorkspaceDeleteEffect(w, passed)
  \/ loadStartPlan(w) \/ scheduleOnce(w) \/ ReplaySchedule(w) \/ RefuseSchedule(w)
  \/ deferUnavailableHomeRunnerStart(w)

Reconciler ==
  \/ MarkExpiredRunners \/ ApplyRetry \/ AdvanceFencedGeneration
  \/ \E late \in BOOLEAN : ApplyFence(late) \/ ApplyFailTerminal(late)

Runner ==
  \/ handleAssignment \/ StartAssignment \/ handleFence \/ handleAdvance
  \/ handleCreate \/ handleDelete \/ sendHeartbeat \/ sendInstanceTerminal

RecordEvent ==
  \/ recordAssignmentAck \/ recordAssignmentReady \/ recordAssignmentFailed
  \/ RefuseAssignmentEvent
  \/ recordFenceStopped \/ recordFenceFailed \/ acknowledgeRedundantFenceResult
  \/ RefuseFenceEvent
  \/ recordLocalGenerationAdvanceResult \/ recordLocalWorkspaceResult
  \/ recordLocalWorkspaceDeleteResult \/ RefuseLocalWorkspaceResult
  \/ recordInstanceTerminal \/ RefuseInstanceTerminal \/ reconcileRunnerActiveAssignments

Environment ==
  \/ \E kind \in {"start", "stop", "delete"}, wait \in BOOLEAN : SetSandboxDesiredState(kind, wait)
  \/ \E w \in Workers : WorkerCrash(w) \/ failStartPreparation(w) \/ expireStartCapacityWait(w)
  \/ CloseConnection \/ RunnerRestart \/ GuestExit

Next ==
  \/ \E w \in Workers : Worker(w)
  \/ Reconciler \/ Runner \/ RecordEvent
  \/ OpenConnection \/ ClaimCommands
  \/ Environment

Spec == Init /\ [][Next]_vars

-----------------------------------------------------------------------------
(***************************************************************************)
(* The rows, the workers and the Runner keep their shapes, and commands    *)
(* and messages concern generations that exist.                            *)
(***************************************************************************)
TypeOK ==
  /\ sb \in [desired : Desired, state : States, gen : Generations, inst : BOOLEAN,
             owner : Workers \cup {Nobody}, due : BOOLEAN, class : BOOLEAN,
             issued : 1 .. MaxOperations]
  /\ ws \in {"creating", "ready", "failed", "deleting", "deleted"}
  /\ slot \in [kind : {"none", "create", "start", "stop", "delete"},
               state : {"none", "queued", "assigned", "stopping", "advancing",
                        "runner_succeeded", "failed", "deleting"},
               effect : {"none", "live", "acknowledged", "expired"} \cup StopEffects,
               op : 0 .. MaxOperations]
  /\ asg \in [state : {"none", "assigned", "starting", "ready", "uncertain", "failed",
                       "fencing", "fenced", "released", "failed_terminal"},
              class : {"none", "transient", "other", "fencing", "startup_timeout"},
              retries : 0 .. FenceRetryLimit]
  /\ live \in {"none", "starting", "ready", "stopped", "lost"}
  /\ stop \in [StopEffects -> [state : EffectStates, cmd : {"none", "fence", "advance"},
                               left : 0 .. StopRetryLimit]]
  /\ fx.create \in {"queued", "succeeded", "runner_failed"}
  /\ fx.delete \in {"none", "queued", "succeeded", "runner_failed"}
  /\ \A o \in ops : o.n \in 1 .. sb.issued /\ (o.wait => o.kind = "start")
  /\ \A c \in cmds : c.gen \in 1 .. sb.gen
  /\ \A i \in DOMAIN link.in : link.in[i].gen \in 0 .. sb.gen
  /\ \A w \in Workers : work[w].pc \in {"idle", "claimed", "planned"} /\ work[w].act \in Actions
  /\ rn.manifest \in 0 .. MaxGeneration
  /\ faults \in 0 .. MaxFaults

(***************************************************************************)
(* The committed generation is never ahead of the Runner's manifest, and   *)
(* the manifest is ahead by at most the one advance whose receipt a stop   *)
(* effect of this generation is waiting for: finish_stop commits exactly   *)
(* the receipt's generation.                                               *)
(***************************************************************************)
GenerationNotAhead ==
  ws = "ready" =>
    \/ rn.manifest = sb.gen
    \/ /\ rn.manifest = sb.gen + 1
       /\ \E e \in StopEffects : stop[e].cmd = "advance" /\ <<e, sb.gen>> \in rn.receipts

(***************************************************************************)
(* One writer.  Compute runs only for the Assignment of the current        *)
(* generation, over a manifest of that generation, and an Assignment that  *)
(* is gone, fenced or released has no compute and none in flight: the      *)
(* proof recordFenceEvent stores cannot be overtaken by a start the Runner *)
(* had accepted or was sent again.                                         *)
(***************************************************************************)
OneWriter ==
  /\ rn.run # 0 => rn.run = sb.gen /\ rn.run = rn.manifest /\ sb.inst
  /\ asg.state \in {"none", "fenced", "released"} => rn.run = 0 /\ rn.starting = 0

(***************************************************************************)
(* A Sandbox with no scheduled pass and no failure class is one whose      *)
(* decision no clock changes, or one whose Assignment is still owed        *)
(* evidence that will schedule it.                                         *)
(***************************************************************************)
Unscheduled == ~sb.due /\ ~sb.class /\ sb.state \notin {"creating", "deleted"}
Quiescent == \A expired \in BOOLEAN : Decide(View(FALSE, expired)) = "wait"
NoLostWakeup ==
  Unscheduled =>
    Quiescent \/ asg.state \in {"assigned", "starting", "uncertain", "failed", "fencing", "fenced"}

LiveCommand(k, e) ==
  \E c \in cmds : c.kind = k /\ c.effect = e /\ c.gen = sb.gen

(***************************************************************************)
(* A stop effect waits for the Runner exactly while it holds the           *)
(* Workspace's one mutation slot, and every effect that waits has the      *)
(* command that produces its evidence among the live ones: across          *)
(* exhaustion, renewal and the Assignment reconciler's own stops, neither  *)
(* superseding nor acknowledging commands removes the one it waits for.    *)
(***************************************************************************)
EffectsAwaited ==
  /\ \A e \in StopEffects : stop[e].state = "queued" =>
       /\ slot.kind = "stop" /\ slot.effect = e
       /\ IF stop[e].cmd = "advance" THEN LiveCommand("advance", e)
          ELSE LiveCommand("lifecycle_fence", "stop")
  /\ slot.kind = "stop" => stop[slot.effect].state # "none" /\ sb.inst
  /\ fx.delete = "queued" => LiveCommand("delete", "none")
  /\ fx.create = "queued" => LiveCommand("create", "none")

(***************************************************************************)
(* An Instance is retired, and the generation left, only by one step of    *)
(* the generation, with compute stopped and the Runner's manifest already  *)
(* at the next generation.  Runner loss, exhaustion and failure retain     *)
(* both.                                                                   *)
(***************************************************************************)
RetiredByReceipt ==
  [][sb.inst /\ (~sb'.inst \/ sb'.gen # sb.gen) =>
       /\ rn.run = 0 /\ rn.starting = 0
       /\ rn.manifest = sb.gen + 1 /\ sb'.gen = sb.gen + 1]_vars

(***************************************************************************)
(* An accepted delete dominates: no claim, expiry or evidence decided      *)
(* before it changes the desired state back or makes the Sandbox ready.    *)
(* Once the Sandbox is deleted nothing is written to it: a placement       *)
(* planned before, a late result or a replayed command leaves every row    *)
(* alone and queues no command.                                            *)
(***************************************************************************)
DeleteDominates ==
  [][/\ sb.desired = "deleted" =>
         sb'.desired = "deleted" /\ (sb'.state = "ready" => sb.state = "ready")
     /\ sb.state = "deleted" =>
         /\ UNCHANGED <<sb, ws, slot, asg, live, stop, fx, ops>>
         /\ \A c \in cmds' : \E d \in cmds : Content(c) = Content(d)]_vars

(***************************************************************************)
(* Fairness.  Workers, reconciler, Runner and connection run in loops that *)
(* only shutdown ends, so a step that stays possible is taken.  The drain  *)
(* deadline ends every drain barrier, so a claim that finds no session     *)
(* cannot be passed over for ever.  Nothing is assumed of faults, guest    *)
(* exits, intents or heartbeats.                                           *)
(***************************************************************************)
Handle == handleAssignment \/ handleFence \/ handleAdvance \/ handleCreate \/ handleDelete
Fairness ==
  /\ \A w \in Workers : WF_vars(Worker(w)) /\ SF_vars(ClaimLifecycle(w, FALSE, FALSE))
  /\ WF_vars(Reconciler) /\ WF_vars(RecordEvent)
  /\ WF_vars(OpenConnection) /\ WF_vars(ClaimCommands)
  /\ WF_vars(Handle) /\ WF_vars(StartAssignment) /\ WF_vars(sendInstanceTerminal)
LiveSpec == Spec /\ Fairness

FencedStart == asg.state = "fenced" /\ asg.class = "fencing" /\ slot.kind = "start"
Unwanted(d) == sb.desired # d

(***************************************************************************)
(* Every intent settles, whatever finite series of faults it meets.  A     *)
(* delete whose Operation is still pending ends in deletion or a recorded  *)
(* failure class; a wanted stop ends stopped or failed, a wanted start     *)
(* ready or failed, unless something else is wanted.  A create or delete   *)
(* that fails on the Runner records nothing: its result has no evidence    *)
(* and is refused, which ends the connection, and the command is delivered *)
(* again.  Left out are the bound on generations and a fenced start that   *)
(* keeps the slot: one that was retried names an acknowledged command in   *)
(* it, and AdvanceFencedGeneration replaces expired ones only.             *)
(***************************************************************************)
IntentsSettle ==
  /\ sb.desired = "deleted" /\ Pending({"delete"}) # {} ~> sb.state = "deleted" \/ sb.class
  /\ sb.desired = "stopped" ~> sb.state \in {"stopped", "failed"} \/ Unwanted("stopped")
  /\ sb.desired = "running" ~>
       sb.state \in {"ready", "failed"} \/ Unwanted("running") \/ sb.gen = MaxGeneration \/ FencedStart
====
