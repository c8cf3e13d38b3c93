----------------------------- MODULE Relocation -----------------------------
(***************************************************************************)
(* The relocation of a stopped Sandbox's Workspace from its home Runner to *)
(* another one: the rows and commands the control plane keeps, the frames  *)
(* it forwards between the two Runners' connections, and what each Runner  *)
(* does with its WorkspaceStore.                                           *)
(*                                                                         *)
(* All relocation commands go to the source Runner; the target only sees   *)
(* the forwarded transfer.  The control plane's rows are one record, db,   *)
(* and a transaction is an operator from db to the set of its outcomes:    *)
(* one, or none when the code returns an error and rolls back, which ends  *)
(* the connection whose frame caused it.  RunnerSession models opening a   *)
(* connection and recording a frame step by step; here opening one is a    *)
(* single step, and a handler records its frames one at a time.            *)
(***************************************************************************)
EXTENDS Naturals, Sequences

CONSTANTS
  Runners,    \* the Runners between which the Workspace moves
  First,      \* the Workspace's first home
  Chunks,     \* chunks of an image
  Window,     \* the credit an import opens with, in chunks
  Scenarios   \* what a behaviour may hold, at most

(* Relocations asked for, connections that break, Runner processes that    *)
(* crash, crashes between a change in a WorkspaceStore and its receipt,    *)
(* operations on a WorkspaceStore or its files that fail, and handlers     *)
(* that go on reading after their connection was superseded.               *)
Bounds == {"relocate", "break", "crash", "torn", "fail", "late"}

ASSUME RelocationAssumption ==
  /\ First \in Runners /\ Chunks \in Nat \ {0} /\ Window \in Nat \ {0}
  /\ Scenarios \subseteq [Bounds -> Nat]

VARIABLES
  db,         \* the control plane's rows, see InitialRows
  link,       \* "up"; "cut": the stream is dead, its handler is not; "closed"
  up, down,   \* frames on the current connection
  late,       \* frames the handler of the connection before it still reads
  routed,     \* the frame each of the two handlers is about to forward
  session,    \* the Runner is in a session
  busy,       \* its receive loop waits for the export in flight
  doomed,     \* an asynchronous error is about to end the session
  exporting, importing,
  image,      \* "none", "open", or "sealed": the published Workspace image
  made,       \* the relocation that published it, 0 for the first home
  receipts,   \* durable receipts: <<kind, relocation>>
  budget

wire == <<link, up, down, late, routed>>
runner == <<session, busy, doomed, exporting, importing>>
store == <<image, made, receipts>>
vars == <<db, wire, runner, store, budget>>

NoExport == [phase |-> "off", op |-> 0, name |-> "", sent |-> 0, credit |-> 0]
NoImport == [op |-> 0, seq |-> 0]
None == [type |-> "none"]

(* slot: the Workspace's mutation_state; effect: its mutation_effect_id;   *)
(* state: of the relocation row op; failed: reconciliation marked          *)
(* Workspace and Sandbox failed; recon: the Runners' reconcile commands;   *)
(* cmds: the other commands that are not settled, at most one export and   *)
(* one cleanup of each relocation.                                         *)
InitialRows ==
  [home |-> First, failed |-> FALSE, slot |-> "", effect |-> "",
   op |-> 0, source |-> First, target |-> First, state |-> "none",
   operation |-> "none",
   recon |-> [r \in Runners |-> "none"], cmds |-> {}]

(* A transfer frame: seq is its number in the source's stream; in a credit *)
(* frame, of the target's, it is the credit.                               *)
Transfer(what, n, seq, ok) ==
  [type |-> "transfer", what |-> what, op |-> n, seq |-> seq, ok |-> ok]
Result(kind, name, n, ok, full) ==
  [type |-> "result", kind |-> kind, name |-> name, op |-> n, ok |-> ok, full |-> full]
Command(kind, name, n, corr) ==
  [type |-> "command", kind |-> kind, name |-> name, op |-> n, corr |-> corr]

Settled(d) == d.operation \in {"none", "succeeded", "failed"}

(* Command identifiers are only compared with those of the relocation      *)
(* row: "export" is its export_command_id, "cleanup" its                   *)
(* cleanup_command_id, and "stale" an export_command_id it had before.     *)
Stale(q) ==
  [i \in DOMAIN q |-> IF q[i].type \in {"result", "command"} /\ q[i].name = "export"
                      THEN [q[i] EXCEPT !.name = "stale"] ELSE q[i]]

-----------------------------------------------------------------------------
(* The transactions.                                                       *)

Acked(d, name) == [d EXCEPT !.cmds = {c \in @ : c.name # name \/ c.op # d.op}]

(* insertWorkspaceRelocationCommand: every command is the source's; corr   *)
(* is the Runner its correlation names.                                    *)
Queued(d, kind, name, corr) ==
  [d EXCEPT !.cmds = @ \cup {[kind |-> kind, name |-> name, op |-> d.op, corr |-> corr,
                               to |-> d.source, state |-> "pending"]}]

AbortedInSlotOnly(d) ==
  Queued([d EXCEPT !.slot = "aborting", !.effect = "cleanup"], "abort", "cleanup", d.source)

(* beginWorkspaceRelocationAbort, from "queued" or "source_sealed".        *)
Aborted(d) ==
  Queued([d EXCEPT !.state = "aborting", !.effect = "cleanup",
                   !.slot = IF d.state = "source_sealed" THEN "aborting_source_sealed" ELSE "aborting"],
         "abort", "cleanup", d.source)

(* commitWorkspaceRelocation: the home moves.                              *)
Committed(d) ==
  Queued([d EXCEPT !.home = d.target, !.state = "deleting_source", !.slot = "deleting_source",
                   !.effect = "cleanup"],
         "delete", "cleanup", d.source)

Sealed(d) ==
  [d EXCEPT !.state = "source_sealed", !.slot = "source_sealed",
            !.operation = IF @ = "pending" THEN "running" ELSE @]

(* retryWorkspaceRelocationCleanup: the new command is the cleanup now.    *)
Retried(d, kind) == Queued([d EXCEPT !.effect = "cleanup"], kind, "cleanup", d.source)

ReleasedByName(d, verdict) ==
  [d EXCEPT !.slot = "none", !.effect = "", !.state = verdict,
            !.operation = IF @ \in {"pending", "running"} THEN verdict ELSE @]

(* releaseWorkspaceRelocationMutation and finishRelocationOperation.       *)
Released(d, verdict) ==
  [d EXCEPT !.slot = "", !.effect = "", !.state = verdict,
            !.operation = IF @ \in {"pending", "running"} THEN verdict ELSE @]

(* recordLocalWorkspaceRelocationResult.  An export that succeeds again    *)
(* once the source is sealed changes nothing, and acknowledges nothing.    *)
Recorded(d, r, f) ==
  IF f.op # d.op \/ d.source # r \/ d.slot = "" \/ (f.ok /\ ~f.full) THEN {}
  ELSE CASE f.kind = "export" /\ f.name = "export" /\ d.state = "source_sealed" /\ f.ok -> {d}
         [] f.kind = "export" /\ f.name = "export" /\ d.state = "queued" /\ d.home = d.source ->
              {IF f.ok THEN Sealed(Acked(d, f.name)) ELSE Aborted(Acked(d, f.name))}
         [] f.kind = "delete" /\ f.name = "cleanup" /\ d.state = "deleting_source" /\ d.home = d.target ->
              {IF f.ok THEN Released(Acked(d, f.name), "succeeded")
                       ELSE Retried(Acked(d, f.name), "delete")}
         [] f.kind = "abort" /\ f.name = "cleanup" /\ d.state = "aborting" /\ d.home = d.source ->
              {IF f.ok THEN Released(Acked(d, f.name), "failed")
                       ELSE Retried(Acked(d, f.name), "abort")}
         [] OTHER -> {}

(* replayReconciledWorkspaceReceipt, for the receipts of one kind.         *)
Replayed(d, r, kind, held) ==
  IF d.home = r /\ d.slot # "" /\ <<kind, d.op>> \in held
  THEN Recorded(d, r, Result(kind, d.effect, d.op, TRUE, TRUE))
  ELSE {d}

(* What recordLocalWorkspaceReconciliation makes of the home's inventory:  *)
(* failReconciledWorkspace or recoverReconciledWorkspace.                  *)
Compared(d, r, held) ==
  IF d.home # r THEN d
  ELSE IF held # (IF d.slot \in {"source_sealed", "aborting_source_sealed"} THEN "sealed" ELSE "open")
  THEN [d EXCEPT !.failed = TRUE, !.slot = IF @ = "" THEN "" ELSE "failed",
                 !.operation = IF d.slot # "" /\ @ \in {"pending", "running"} THEN "failed" ELSE @]
  ELSE [d EXCEPT !.failed = @ /\ d.slot # ""]

(* A Runner's report: receipts are replayed in the order of their file     *)
(* names, relocation_abort before relocation_export.  A receipt without a  *)
(* capacity refuses the report.                                            *)
Reconciled(d, r, f) ==
  IF \E m \in 1..d.op : <<"delete, no capacity", m>> \in f.receipts THEN {}
  ELSE {[Compared(e, r, f.image) EXCEPT !.recon[r] = "none"] :
          e \in UNION {Replayed(a, r, "export", f.receipts) :
                         a \in Replayed(d, r, "abort", f.receipts)}}

RoutedAnyResult(d, r, f) ==
  IF f.op # d.op \/ d.failed \/ d.slot = "" \/ d.state # "source_sealed" \/ d.home # d.source THEN {}
  ELSE CASE r = d.source /\ f.what = "result" -> {Aborted(d)}
         [] r = d.target /\ f.what = "result" -> {Committed(d)}
         [] OTHER -> {d}

(* RouteWorkspaceTransfer.  It does not ask whether the frame's connection *)
(* is the Runner's current one.                                            *)
Routed(d, r, f) ==
  IF \/ f.op # d.op \/ d.failed \/ d.slot = ""
     \/ d.state # "source_sealed" \/ d.home # d.source
  THEN {}
  ELSE CASE r = d.source /\ f.what = "result" -> {Aborted(d)}
         [] r = d.source /\ f.what \in {"open", "chunk", "commit"} -> {d}
         [] r = d.target /\ f.what = "result" -> {IF f.ok THEN Committed(d) ELSE Aborted(d)}
         [] r = d.target /\ f.what = "credit" -> {d}
         [] OTHER -> {}

(* queueWorkspaceRelocationRestarts: the new export's correlation names    *)
(* the Runner that connects, whichever of the two it is.                   *)
Restarts(d, r) == d.state = "source_sealed" /\ r \in {d.source, d.target}
Restarted(d, r) ==
  IF Restarts(d, r)
  THEN Queued([d EXCEPT !.effect = IF d.slot = "" THEN @ ELSE "export",
                        !.cmds = {c \in @ : c.op # d.op}],
              "export", "export", r)
  ELSE d

InState(cmds, r, state) ==
  {c \in cmds : c.to # r} \cup {[c EXCEPT !.state = state] : c \in {x \in cmds : x.to = r}}

OpenedWithoutRedelivery(d, r) == Restarted([d EXCEPT !.recon[r] = "pending"], r)

(* OpenConnection: the Runner's commands are pending again, and a new      *)
(* reconcile command replaces those of its earlier connections.            *)
Opened(d, r) ==
  Restarted([d EXCEPT !.recon[r] = "pending",
                      !.cmds = InState(@, r, "pending")], r)

-----------------------------------------------------------------------------
(* The control plane.                                                      *)

Spend(b) == budget[b] > 0 /\ budget' = [budget EXCEPT ![b] = @ - 1]

(* RelocateSandbox: source and target are connected, the slot is free.     *)
Requested(d, t) ==
  Queued([d EXCEPT !.op = @ + 1, !.source = d.home, !.target = t, !.state = "queued",
                   !.effect = "export", !.slot = "queued", !.operation = "pending"],
         "export", "export", d.home)
Relocate(t) ==
  /\ Spend("relocate")
  /\ t # db.home /\ link[t] = "up" /\ link[db.home] # "closed"
  /\ ~db.failed /\ db.slot = ""
  /\ db' = Requested(db, t)
  /\ UNCHANGED <<wire, runner, store>>

(* Commands go out in the order they were inserted: those of an earlier    *)
(* relocation first, and a relocation's export before its cleanup.         *)
Before(c, e) == c.op < e.op \/ (c.op = e.op /\ c.name = "export" /\ e.name # "export")
Ordered(q) == \A i, j \in DOMAIN q : i < j => Before(q[i], q[j])

(* The pump claims what is pending, a reconcile command first.             *)
Deliver(r) ==
  LET mine == {c \in db.cmds : c.to = r /\ c.state = "pending"}
      report == IF db.recon[r] = "pending" THEN <<Command("reconcile", "", 0, r)>> ELSE <<>>
  IN /\ link[r] = "up" /\ (report # <<>> \/ mine # {})
     /\ \E n \in 0..(2 * db.op) : \E q \in [1..n -> mine] :
          /\ Ordered(q) /\ {q[i] : i \in 1..n} = mine
          /\ down' = [down EXCEPT ![r] = @ \o report \o
                        [i \in 1..n |-> Command(q[i].kind, q[i].name, q[i].op, q[i].corr)]]
     /\ db' = [db EXCEPT !.recon[r] = IF @ = "pending" THEN "sent" ELSE @,
                         !.cmds = InState(@, r, "sent")]
     /\ UNCHANGED <<link, up, late, routed, runner, store, budget>>

(* The handler returns: its connection ends, what it had not read is lost. *)
EndHandler(r) ==
  /\ link' = [link EXCEPT ![r] = "closed"] /\ up' = [up EXCEPT ![r] = <<>>]
  /\ routed' = [routed EXCEPT ![<<r, "up">>] = None]

HandleEvent(r) ==
  LET f == Head(up[r])
      outcome == IF f.type = "report" THEN Reconciled(db, r, f) ELSE Recorded(db, r, f)
  IN /\ link[r] # "closed" /\ up[r] # <<>> /\ f.type # "transfer" /\ routed[<<r, "up">>] = None
     /\ \/ outcome = {} /\ EndHandler(r) /\ db' = db
        \/ db' \in outcome /\ up' = [up EXCEPT ![r] = Tail(@)] /\ UNCHANGED <<link, routed>>
     /\ UNCHANGED <<down, late, runner, store, budget>>

(* WorkspaceTransferHub.Handle, for a frame of r: the transaction, and in  *)
(* a step of its own the frame goes to the peer's connection.  A frame     *)
(* sent on a dead stream may be lost, or its sender may get the error,     *)
(* which ends the sender's own handler.                                    *)
HandleTransfer(r) ==
  LET f == Head(up[r])
      outcome == Routed(db, r, f)
  IN /\ link[r] # "closed" /\ up[r] # <<>> /\ f.type = "transfer" /\ routed[<<r, "up">>] = None
     /\ \/ outcome = {} /\ EndHandler(r) /\ db' = db
        \/ /\ db' \in outcome /\ routed' = [routed EXCEPT ![<<r, "up">>] = f]
           /\ up' = [up EXCEPT ![r] = Tail(@)] /\ link' = link
     /\ UNCHANGED <<down, late, runner, store, budget>>

(* The handler of a superseded connection routes the transfer frames it    *)
(* still reads; the first other frame ends it.                             *)
HandleLate(r) ==
  LET f == Head(late[r])
      outcome == IF f.type = "transfer" THEN Routed(db, r, f) ELSE {}
  IN /\ late[r] # <<>> /\ routed[<<r, "late">>] = None
     /\ \/ outcome = {} /\ late' = [late EXCEPT ![r] = <<>>] /\ UNCHANGED <<db, routed>>
        \/ /\ db' \in outcome /\ routed' = [routed EXCEPT ![<<r, "late">>] = f]
           /\ late' = [late EXCEPT ![r] = Tail(@)]
     /\ UNCHANGED <<link, up, down, runner, store, budget>>

Forward(r, q) ==
  LET f == routed[<<r, q>>]
      peer == IF r = db.source THEN db.target ELSE db.source
  IN /\ f # None /\ (q = "up" => link[r] # "closed")
     /\ \/ /\ link[peer] # "closed"
           /\ down' = IF link[peer] = "up" THEN [down EXCEPT ![peer] = Append(@, f)] ELSE down
           /\ routed' = [routed EXCEPT ![<<r, q>>] = None] /\ UNCHANGED <<link, up, late>>
        \/ /\ link[peer] # "up" /\ down' = down
           /\ IF q = "up" THEN EndHandler(r) /\ late' = late
              ELSE /\ routed' = [routed EXCEPT ![<<r, q>>] = None]
                   /\ late' = [late EXCEPT ![r] = <<>>] /\ UNCHANGED <<link, up>>
     /\ UNCHANGED <<db, runner, store, budget>>

(* A handler notices that its stream is dead.                              *)
Notice(r) ==
  /\ \/ link[r] = "cut" /\ EndHandler(r) /\ late' = late
     \/ /\ late[r] # <<>> /\ late' = [late EXCEPT ![r] = <<>>]
        /\ routed' = [routed EXCEPT ![<<r, "late">>] = None] /\ UNCHANGED <<link, up>>
  /\ UNCHANGED <<db, down, runner, store, budget>>

(* The Runner's next connection.  A restart makes the export before it     *)
(* stale wherever its identifier still is.                                 *)
Connect(r) ==
  LET old(q) == IF Restarts(db, r) THEN Stale(q) ELSE q IN
  /\ ~session[r] /\ link[r] # "up"
  /\ session' = [session EXCEPT ![r] = TRUE]
  /\ db' = Opened(db, r)
  /\ link' = [link EXCEPT ![r] = "up"]
  /\ IF up[r] = <<>> /\ routed[<<r, "up">>] = None
     THEN budget' = budget /\ late' = [s \in Runners |-> old(late[s])] /\ routed' = routed
     ELSE /\ Spend("late") /\ late' = [s \in Runners |-> old(IF s = r THEN up[r] ELSE late[s])]
          /\ routed' = [routed EXCEPT ![<<r, "late">>] = routed[<<r, "up">>], ![<<r, "up">>] = None]
  /\ up' = [s \in Runners |-> IF s = r THEN <<>> ELSE old(up[s])]
  /\ down' = [s \in Runners |-> IF s = r THEN <<>> ELSE old(down[s])]
  /\ exporting' = [s \in Runners |-> IF Restarts(db, r) /\ exporting[s].name = "export"
                                      THEN [exporting[s] EXCEPT !.name = "stale"] ELSE exporting[s]]
  /\ UNCHANGED <<busy, doomed, importing, store>>

-----------------------------------------------------------------------------
(* The Runner's receive loop.                                              *)

(* What the Runner sends on a dead stream is lost.                         *)
Send(r, frames) == up' = IF link[r] = "up" THEN [up EXCEPT ![r] = @ \o frames] ELSE up

Receives(r) == session[r] /\ ~busy[r] /\ down[r] # <<>>
Next1(r) == down' = [down EXCEPT ![r] = Tail(@)]
Inline(f) == f.type = "command" /\ f.kind # "export"
Holds(r, kind, n) == <<kind, n>> \in receipts[r]

(* Every command but an export waits for the export in flight, and the     *)
(* loop with it.                                                           *)
Wait(r) ==
  /\ Receives(r) /\ Inline(Head(down[r])) /\ exporting[r] # NoExport
  /\ busy' = [busy EXCEPT ![r] = TRUE]
  /\ UNCHANGED <<db, wire, session, doomed, exporting, importing, store, budget>>

Resumes(r) ==
  session[r] /\ down[r] # <<>> /\ Inline(Head(down[r])) /\ exporting[r] = NoExport

ServeReconcile(r) ==
  /\ Resumes(r) /\ Head(down[r]).kind = "reconcile"
  /\ Next1(r) /\ busy' = [busy EXCEPT ![r] = FALSE]
  /\ Send(r, <<[type |-> "report", image |-> image[r], receipts |-> receipts[r]]>>)
  /\ UNCHANGED <<db, link, routed, late, session, doomed, exporting, importing, store, budget>>

(* What a command does to the files before it writes its receipt: a        *)
(* failure or a crash may leave it at that.                                *)
SealedOnly(r) == image' = [image EXCEPT ![r] = "sealed"] /\ UNCHANGED <<made, receipts>>
UnsealedOnly(r) == image' = [image EXCEPT ![r] = "open"] /\ UNCHANGED <<made, receipts>>
RemovedOnly(r) ==
  /\ image' = [image EXCEPT ![r] = "none"] /\ made' = [made EXCEPT ![r] = 0]
  /\ receipts' = [receipts EXCEPT ![r] = {}]

(* AbortRelocation: unseals, then writes the receipt.                      *)
ServeAbort(r) ==
  LET f == Head(down[r]) IN
  /\ Resumes(r) /\ f.kind = "abort"
  /\ Next1(r) /\ busy' = [busy EXCEPT ![r] = FALSE]
  /\ \/ /\ Holds(r, "abort", f.op) \/ image[r] # "none"
        /\ image' = [image EXCEPT ![r] = IF Holds(r, "abort", f.op) THEN @ ELSE "open"]
        /\ receipts' = [receipts EXCEPT ![r] = @ \cup {<<"abort", f.op>>}]
        /\ Send(r, <<Result("abort", f.name, f.op, TRUE, TRUE)>>)
        /\ UNCHANGED <<made, budget>>
     \/ /\ Spend("fail")
        /\ Send(r, <<Result("abort", f.name, f.op, FALSE, TRUE)>>)
        /\ UNCHANGED store \/ (~Holds(r, "abort", f.op) /\ image[r] # "none" /\ UnsealedOnly(r))
  /\ UNCHANGED <<db, link, routed, late, session, doomed, exporting, importing>>

(* DeleteWorkspace removes the image and every receipt, then writes its    *)
(* own; where it finds no image that receipt has no capacity.              *)
Deleted(r, n) == Holds(r, "delete", n) \/ Holds(r, "delete, no capacity", n)
ServeDelete(r) ==
  LET f == Head(down[r])
      kind == IF image[r] = "none" THEN "delete, no capacity" ELSE "delete"
  IN
  /\ Resumes(r) /\ f.kind = "delete"
  /\ Next1(r) /\ busy' = [busy EXCEPT ![r] = FALSE]
  /\ \/ /\ IF Deleted(r, f.op) THEN UNCHANGED store
           ELSE /\ image' = [image EXCEPT ![r] = "none"] /\ made' = [made EXCEPT ![r] = 0]
                /\ receipts' = [receipts EXCEPT ![r] = {<<kind, f.op>>}]
        /\ Send(r, <<Result("delete", f.name, f.op, TRUE, <<"delete", f.op>> \in receipts'[r])>>)
        /\ budget' = budget
     \/ /\ Spend("fail") /\ ~Deleted(r, f.op)
        /\ Send(r, <<Result("delete", f.name, f.op, FALSE, TRUE)>>)
        /\ UNCHANGED store \/ RemovedOnly(r)
  /\ UNCHANGED <<db, link, routed, late, session, doomed, exporting, importing>>

(* An export runs on its own goroutine.  A correlation that names another  *)
(* Runner is an asynchronous error.  A second export finds the lock of the *)
(* Workspace taken, and fails, or takes it when the first has ended.       *)
ServeExport(r) ==
  LET f == Head(down[r]) IN
  /\ Receives(r) /\ f.type = "command" /\ f.kind = "export"
  /\ \/ f.corr # r /\ doomed' = [doomed EXCEPT ![r] = TRUE] /\ UNCHANGED <<exporting, up>>
     \/ /\ f.corr = r /\ exporting[r] = NoExport
        /\ exporting' = [exporting EXCEPT ![r] = [NoExport EXCEPT !.phase = "opening", !.op = f.op, !.name = f.name]]
        /\ UNCHANGED <<doomed, up>>
     \/ /\ f.corr = r /\ exporting[r] # NoExport
        /\ Send(r, <<Result("export", f.name, f.op, FALSE, TRUE)>>)
        /\ UNCHANGED <<doomed, exporting>>
  /\ Next1(r)
  /\ UNCHANGED <<db, link, routed, late, session, busy, importing, store, budget>>

(* handleWorkspaceRelocationExport: seals the image and writes the receipt *)
(* unless there is one, sends the result and opens the transfer.  It may   *)
(* fail before the seal, before the receipt, and after both.               *)
OpenExport(r) ==
  LET e == exporting[r]
      good == IF Holds(r, "export", e.op) THEN image[r] = "sealed" ELSE image[r] # "none"
  IN
  /\ e.phase = "opening"
  /\ \/ /\ good
        /\ image' = [image EXCEPT ![r] = "sealed"]
        /\ receipts' = [receipts EXCEPT ![r] = @ \cup {<<"export", e.op>>}]
        /\ Send(r, <<Result("export", e.name, e.op, TRUE, TRUE), Transfer("open", e.op, 1, TRUE)>>)
        /\ exporting' = [exporting EXCEPT ![r] = IF link[r] = "up" THEN [e EXCEPT !.phase = "sending"] ELSE NoExport]
        /\ UNCHANGED <<made, budget>>
     \/ /\ IF good THEN Spend("fail") ELSE budget' = budget
        /\ Send(r, <<Result("export", e.name, e.op, FALSE, TRUE)>>)
        /\ exporting' = [exporting EXCEPT ![r] = NoExport]
        /\ \/ UNCHANGED store
           \/ good /\ SealedOnly(r)
           \/ /\ good /\ image' = [image EXCEPT ![r] = "sealed"] /\ made' = made
              /\ receipts' = [receipts EXCEPT ![r] = @ \cup {<<"export", e.op>>}]
  /\ UNCHANGED <<db, link, down, late, routed, session, busy, doomed, importing>>

(* One chunk for one credit, the commit right after the last, then it      *)
(* waits for the target's result or for the end of the session.            *)
SendChunk(r) ==
  LET e == exporting[r]
      n == e.sent + 1
      commit == IF n = Chunks THEN <<Transfer("commit", e.op, n + 2, TRUE)>> ELSE <<>>
  IN
  /\ e.phase = "sending" /\ e.credit > 0
  /\ \/ /\ Send(r, <<Transfer("chunk", e.op, n + 1, TRUE)>> \o commit)
        /\ exporting' = [exporting EXCEPT ![r] =
             IF link[r] # "up" THEN NoExport
             ELSE [e EXCEPT !.sent = n, !.credit = @ - 1, !.phase = IF n = Chunks THEN "waiting" ELSE @]]
        /\ budget' = budget
     \/ /\ Spend("fail")
        /\ Send(r, <<Transfer("result", e.op, n + 1, FALSE)>>)
        /\ exporting' = [exporting EXCEPT ![r] = NoExport]
  /\ UNCHANGED <<db, link, down, late, routed, session, busy, doomed, importing, store>>

(* The session's end: an export gives up, an import is removed.            *)
Leave(r) ==
  /\ session' = [session EXCEPT ![r] = FALSE] /\ busy' = [busy EXCEPT ![r] = FALSE]
  /\ doomed' = [doomed EXCEPT ![r] = FALSE]
  /\ exporting' = [exporting EXCEPT ![r] = NoExport]
  /\ importing' = [importing EXCEPT ![r] = NoImport]
  /\ link' = [link EXCEPT ![r] = IF @ = "up" THEN "cut" ELSE @]
  /\ down' = [down EXCEPT ![r] = <<>>]
  /\ UNCHANGED <<db, up, late, routed>>

(* The loop sees the dead stream, or the error of a goroutine, only while  *)
(* it is not waiting for an export.                                        *)
EndSession(r) ==
  /\ session[r] /\ ~busy[r] /\ (link[r] # "up" \/ doomed[r])
  /\ Leave(r) /\ UNCHANGED <<store, budget>>

-----------------------------------------------------------------------------
(* Transfer frames at a Runner: handleWorkspaceTransferFrame.              *)

IsTransfer(r, what) ==
  Receives(r) /\ Head(down[r]).type = "transfer" /\ Head(down[r]).what = what

Importing(r, seq) ==
  importing' = [importing EXCEPT ![r] = IF seq = 0 THEN NoImport ELSE [op |-> Head(down[r]).op, seq |-> seq]]
Reply(r, what, n, ok) == Send(r, <<Transfer(what, Head(down[r]).op, n, ok)>>)

(* beginWorkspaceRelocationImport: an import in progress is removed, one   *)
(* that has its receipt is answered at once, the image of an unrecorded    *)
(* one is removed, and any other image refuses the import.                 *)
ServeOpen(r) ==
  LET n == Head(down[r]).op IN
  /\ IsTransfer(r, "open") /\ Next1(r)
  /\ \/ /\ Holds(r, "import", n) /\ image[r] = "open"
        /\ Importing(r, 0) /\ Reply(r, "result", 1, TRUE) /\ UNCHANGED <<store, budget>>
     \/ /\ ~Holds(r, "import", n) /\ (image[r] = "none" \/ made[r] = n)
        /\ Importing(r, 1) /\ Reply(r, "credit", Window, TRUE)
        /\ image' = [image EXCEPT ![r] = "none"] /\ made' = [made EXCEPT ![r] = 0]
        /\ UNCHANGED <<receipts, budget>>
     \/ /\ IF Holds(r, "import", n) THEN image[r] # "open" /\ budget' = budget
           ELSE IF image[r] = "none" \/ made[r] = n THEN Spend("fail") ELSE budget' = budget
        /\ Importing(r, 0) /\ Reply(r, "result", 1, FALSE) /\ UNCHANGED store
  /\ UNCHANGED <<db, link, routed, late, session, busy, doomed, exporting>>

Expected(r) ==
  /\ exporting[r].op # Head(down[r]).op \/ exporting[r].phase = "opening"
  /\ importing[r].op = Head(down[r]).op /\ Head(down[r]).seq = importing[r].seq + 1

ServeChunk(r) ==
  /\ IsTransfer(r, "chunk") /\ Expected(r) /\ Next1(r)
  /\ \/ Importing(r, importing[r].seq + 1) /\ Reply(r, "credit", 1, TRUE) /\ budget' = budget
     \/ Spend("fail") /\ Importing(r, 0) /\ Reply(r, "result", 1, FALSE)
  /\ UNCHANGED <<db, link, routed, late, session, busy, doomed, exporting, store>>

(* Complete: publishes the image, writes the receipt, and answers.         *)
ServeCommit(r) ==
  LET n == Head(down[r]).op IN
  /\ IsTransfer(r, "commit") /\ Expected(r) /\ Next1(r) /\ Importing(r, 0)
  /\ \/ /\ importing[r].seq = Chunks + 1
        /\ image' = [image EXCEPT ![r] = "open"] /\ made' = [made EXCEPT ![r] = n]
        /\ receipts' = [receipts EXCEPT ![r] = @ \cup {<<"import", n>>}]
        /\ Reply(r, "result", 1, TRUE) /\ budget' = budget
     \/ /\ IF importing[r].seq = Chunks + 1 THEN Spend("fail") ELSE budget' = budget
        /\ Reply(r, "result", 1, FALSE) /\ UNCHANGED store
  /\ UNCHANGED <<db, link, routed, late, session, busy, doomed, exporting>>

(* Credit and the target's result reach the export; the source's result    *)
(* reaches the import and removes it.                                      *)
Exporting(r) == exporting[r].op = Head(down[r]).op /\ exporting[r].phase # "opening"

ServeCredit(r) ==
  /\ IsTransfer(r, "credit") /\ Exporting(r) /\ Next1(r)
  /\ exporting' = [exporting EXCEPT ![r].credit = @ + Head(down[r]).seq]
  /\ UNCHANGED <<db, link, up, routed, late, session, busy, doomed, importing, store, budget>>

ServeResult(r) ==
  /\ IsTransfer(r, "result") /\ Next1(r)
  /\ \/ /\ Exporting(r) /\ exporting' = [exporting EXCEPT ![r] = NoExport] /\ importing' = importing
     \/ /\ Expected(r) /\ Importing(r, 0) /\ exporting' = exporting
  /\ UNCHANGED <<db, link, up, routed, late, session, busy, doomed, store, budget>>

(* Any other transfer frame is reordered or unknown and ends the session.  *)
ServeUnknown(r) ==
  /\ Receives(r) /\ Head(down[r]).type = "transfer" /\ Head(down[r]).what # "open"
  /\ ~Exporting(r) /\ ~Expected(r)
  /\ Leave(r) /\ UNCHANGED <<store, budget>>

-----------------------------------------------------------------------------
(* Faults.                                                                 *)

Break(r) ==
  /\ Spend("break") /\ link[r] = "up" /\ link' = [link EXCEPT ![r] = "cut"]
  /\ UNCHANGED <<db, up, down, late, routed, runner, store>>

Crash(r) == Spend("crash") /\ session[r] /\ Leave(r) /\ UNCHANGED store

(* A crash between a change in the WorkspaceStore and its receipt.         *)
CrashInStore(r) ==
  LET head == Head(down[r]) IN
  /\ Spend("torn") /\ session[r] /\ Leave(r)
  /\ \/ /\ exporting[r].phase = "opening" /\ ~Holds(r, "export", exporting[r].op) /\ image[r] # "none"
        /\ SealedOnly(r)
     \/ /\ Resumes(r) /\ head.kind = "abort" /\ ~Holds(r, "abort", head.op) /\ image[r] # "none"
        /\ UnsealedOnly(r)
     \/ /\ Resumes(r) /\ head.kind = "delete" /\ ~Deleted(r, head.op) /\ RemovedOnly(r)
     \/ /\ IsTransfer(r, "commit") /\ Expected(r) /\ importing[r].seq = Chunks + 1
        /\ image' = [image EXCEPT ![r] = "open"] /\ made' = [made EXCEPT ![r] = head.op]
        /\ receipts' = receipts

-----------------------------------------------------------------------------
Init ==
  /\ db = InitialRows
  /\ link = [r \in Runners |-> "up"]
  /\ up = [r \in Runners |-> <<>>] /\ down = up /\ late = up
  /\ routed = [h \in Runners \X {"up", "late"} |-> None]
  /\ session = [r \in Runners |-> TRUE]
  /\ busy = [r \in Runners |-> FALSE] /\ doomed = busy
  /\ exporting = [r \in Runners |-> NoExport] /\ importing = [r \in Runners |-> NoImport]
  /\ image = [r \in Runners |-> IF r = First THEN "open" ELSE "none"]
  /\ made = [r \in Runners |-> 0] /\ receipts = [r \in Runners |-> {}]
  /\ budget \in Scenarios

Loop(r) ==
  \/ Wait(r) \/ ServeReconcile(r) \/ ServeAbort(r) \/ ServeDelete(r) \/ ServeExport(r)
  \/ ServeOpen(r) \/ ServeChunk(r) \/ ServeCommit(r) \/ ServeCredit(r) \/ ServeResult(r)
  \/ ServeUnknown(r)
Export(r) == OpenExport(r) \/ SendChunk(r)
Handler(r) == HandleEvent(r) \/ HandleTransfer(r) \/ Forward(r, "up")
Superseded(r) == HandleLate(r) \/ Forward(r, "late")
Faults(r) == Break(r) \/ Crash(r) \/ CrashInStore(r)

Next ==
  \E r \in Runners :
    \/ Relocate(r) \/ Deliver(r) \/ Handler(r) \/ Superseded(r) \/ Notice(r) \/ Connect(r)
    \/ Loop(r) \/ Export(r) \/ EndSession(r) \/ Faults(r)

Spec == Init /\ [][Next]_vars

(* Handlers, pump and the Runner's goroutines keep running, a dead stream  *)
(* is noticed, and a Runner between two sessions dials again.  Two races   *)
(* that recur with every reconnect are not lost every time: a cleanup that *)
(* keeps being delivered is served before its session ends, and a result   *)
(* that keeps being sent is read before its connection ends.               *)
Fairness ==
  \A r \in Runners :
    /\ WF_vars(Deliver(r)) /\ WF_vars(Handler(r)) /\ WF_vars(Superseded(r)) /\ WF_vars(Notice(r))
    /\ WF_vars(Connect(r)) /\ WF_vars(Loop(r)) /\ WF_vars(Export(r)) /\ WF_vars(EndSession(r))
    /\ SF_vars(ServeDelete(r) \/ ServeAbort(r))
    /\ SF_vars(HandleEvent(r) /\ Head(up[r]).type = "result")

LiveSpec == Spec /\ Fairness

-----------------------------------------------------------------------------
TypeOK ==
  /\ db.home \in Runners /\ db.slot \in {"", "queued", "source_sealed", "aborting",
                                         "aborting_source_sealed", "deleting_source", "failed"}
  /\ db.operation \in {"none", "pending", "running", "succeeded", "failed"}
  /\ link \in [Runners -> {"up", "cut", "closed"}]
  /\ image \in [Runners -> {"none", "open", "sealed"}]
  /\ budget \in [Bounds -> Nat]

(* Whatever breaks or crashes, the Runner the rows name as the home holds  *)
(* a complete published image: no order of transfer, commit, deletion and  *)
(* recovery loses the Workspace.                                           *)
HomeHoldsImage == image[db.home] # "none"

(* A seal belongs to a relocation that holds the mutation slot: when the   *)
(* slot is free the home's image can be opened and the Sandbox can start.  *)
SealedOnlyInSlot == db.slot = "" /\ ~db.failed => image[db.home] # "sealed"

(* An export that was restarted and never acknowledged is still delivered  *)
(* to the home after its relocation has ended.                             *)
StaleExport == \E c \in db.cmds : c.kind = "export" /\ c.to = db.home /\ c.op < db.op

(* While a relocation can still move the home the source's image is        *)
(* sealed, and after it has moved it is sealed until it is deleted: no     *)
(* write can reach a copy that is about to be replaced, or was.  The seal  *)
(* is gone when the slot is free, unless an export of an earlier           *)
(* relocation is outstanding at the home: the Sandbox can start there.     *)
SealedWhileMoving ==
  /\ db.state = "source_sealed" => image[db.source] = "sealed"
  /\ db.state = "deleting_source" => image[db.source] # "open"
  /\ StaleExport \/ SealedOnlyInSlot

(* The receive loop waits for an export that waits for the loop.           *)
Stuck(r) ==
  /\ busy[r]
  /\ \/ exporting[r].phase = "waiting"
     \/ exporting[r].phase = "sending" /\ exporting[r].credit = 0

(* A reconnect restarted the export: the new command is not acknowledged,  *)
(* whatever the Runner answers, because the source is sealed already.      *)
RestartOutstanding ==
  db.state # "queued" /\ \E c \in db.cmds : c.kind = "export"

(* The source's deletion removed the image and was interrupted before its  *)
(* receipt.  The repeated deletion finds no image, its receipt has no      *)
(* capacity, and neither its result nor a report that holds it is ever     *)
(* accepted.                                                               *)
TornDeletion ==
  db.state = "deleting_source" /\ <<"delete, no capacity", db.op>> \in receipts[db.source]

(* A relocation whose connections break, whose Runners crash or whose      *)
(* steps fail ends: the export is restarted, the abort or the deletion is  *)
(* delivered again until its result is recorded.  Three situations the     *)
(* code does not leave are excepted: the source's receive loop waits for   *)
(* itself, a restarted export stays outstanding, and the source's deletion *)
(* was interrupted between the image and the receipt.                      *)
RelocationSettles ==
  <>[](\/ Settled(db) \/ RestartOutstanding \/ TornDeletion
       \/ \E r \in Runners : Stuck(r))
=============================================================================
