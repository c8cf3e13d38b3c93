----------------------------- MODULE DataPlane -----------------------------
(***************************************************************************)
(* Exec and File operations: from the public request that admits one, over *)
(* the live route or a direct connection, to the Runner that executes it,  *)
(* and back to the row that records how it ended.                          *)
(*                                                                         *)
(* A session is one admitted operation.  Its kind is "exec" (buffered,     *)
(* always proxied), "stream" (a WebSocket that may connect more than once) *)
(* or "file" (a write that uploads one chunk before it starts).  Requests  *)
(* are the HTTP handlers of one control-plane process.  One Runner, one    *)
(* Sandbox generation, one Lease.  PostgreSQL transactions are one step;   *)
(* what a handler does between two of them is not.                         *)
(***************************************************************************)
EXTENDS Naturals, Sequences, FiniteSets

CONSTANTS
  Sessions,   \* admitted operations
  Requests,   \* public requests
  Nobody,     \* no request
  Scenarios   \* the operations of a behaviour, and the faults it may hold

Kinds == {"exec", "stream", "file"}

(* Clients that disconnect, public cancellations, inputs a streaming       *)
(* client sends, streams that break, control-plane processes that crash,   *)
(* stops of the Sandbox, Leases that end.                                  *)
Bounds == {"gone", "cancel", "input", "break", "crash", "stop", "lease"}

ASSUME DataPlaneAssumption ==
  /\ Nobody \notin Requests
  /\ \A c \in Scenarios :
       /\ c.kind \in [Sessions -> Kinds] /\ c.direct \subseteq Sessions
       /\ c.of \in [Requests -> Sessions] /\ c.budget \in [Bounds -> Nat]
       /\ c.idle \subseteq Requests /\ c.later \subseteq Requests /\ \A s \in c.direct : c.kind[s] # "exec"

VARIABLES
  setup,      \* kind and transport of the sessions, session of the requests,
              \* and the requests sent only after their session was admitted
  budget,
  row,        \* data_plane_sessions: state and terminal_kind
  clock,      \* 0; 1: deadline_at passed; 2: ExecCompletionGrace as well
  assignment, \* "ready", "fencing", "fenced"
  lease,      \* the Lease is active
  command,    \* runner_commands of a session: "none", "pending", "delivered"
  online,     \* the Runner has an active row in runner_connections
  request,    \* the handlers
  owner,      \* broker.routes: the request whose route a session has
  due,        \* what the sweeper selected, with its reason, and has not acted on
  conn,       \* number of the newest control connection
  cut,        \* its stream is dead
  cp,         \* its handler: "bound", "unbound" or "off"
  rn,         \* the Runner is in its session
  up, down,   \* frames on it
  sent,       \* session.outboundStreams: the last frame of a session on it
  live,       \* the Assignment's fence is active on the Runner
  op,         \* the Runner's execOperations and fileOperations
  tcp,        \* direct registration and connection of a session
  starts,     \* how often guest work of a session was started
  ended       \* why the Runner ended its last session itself

rows == <<row, clock, assignment, lease, command, online>>
plane == <<request, owner, due>>
wire == <<conn, cut, cp, rn, up, down, sent>>
runner == <<live, op, tcp, starts, ended>>
vars == <<setup, budget, rows, plane, wire, runner>>

Kind(s) == setup.kind[s]
Direct(s) == s \in setup.direct
Of(r) == setup.of[r]

NoFrame == [type |-> "none", s |-> 0, seq |-> 0, by |-> Nobody]
Frame(type, s, seq, by) == [type |-> type, s |-> s, seq |-> seq, by |-> by]
NoOp == [stage |-> "none", next |-> 1, last |-> NoFrame, via |-> 0, stop |-> FALSE,
         confirm |-> FALSE, kind |-> "none"]
NoTcp == [reg |-> FALSE, stage |-> "none", try |-> Nobody, by |-> Nobody, down |-> <<>>, up |-> "none"]
NewRequest == [pc |-> "new", seen |-> "none", next |-> 1, inbox |-> "none", open |-> FALSE]

Spend(b) == budget[b] > 0 /\ budget' = [budget EXCEPT ![b] = @ - 1]

-----------------------------------------------------------------------------
(* Transactions on a session's row.                                        *)

State(s) == row[s].state
Ended(s) == State(s) \in {"completed", "failed"}
Unstopped(s) == State(s) \in {"pending", "running"}
Authority == assignment = "ready" /\ lease
DeadlineKind(s) == IF Kind(s) = "file" THEN "CANCELLED" ELSE "DEADLINE"

(* Mutant: a late terminal replaces the recorded outcome of a cancellation. *)
ProjectReported(s, reported) ==
  [state |-> IF reported = "DONE" THEN "completed" ELSE "failed", kind |-> reported]

(* applyDataPlaneProjection of a reported terminal.                        *)
Projection(s, reported) ==
  LET cancelling == State(s) = "cancelling"
      good == IF Kind(s) = "file" THEN cancelling \/ reported = "DONE"
              ELSE reported \in {"DONE", "DEADLINE", "CANCELLED"}
  IN [state |-> IF good THEN "completed" ELSE "failed",
      kind |-> IF cancelling THEN row[s].kind ELSE reported]

(* enqueueCancellation: ON CONFLICT DO NOTHING keeps an earlier command.   *)
Enqueued(s) == IF command[s].cancel = "none" THEN [command[s] EXCEPT !.cancel = "pending"]
               ELSE command[s]

CancelDataPlaneSession(s) ==
  IF Unstopped(s)
  THEN /\ row' = [row EXCEPT ![s] = IF State(s) = "pending" THEN Projection(s, "CANCELLED")
                                    ELSE [state |-> "cancelling", kind |-> "CANCELLED"]]
       /\ command' = [command EXCEPT ![s] = Enqueued(s)]
  ELSE UNCHANGED <<row, command>>

(* Mutant: an expired session gets a state that nobody who waits for its   *)
(* end, confirms it or fails it knows. *)
ExpiredByName(s) == IF Unstopped(s) THEN [state |-> "expired", kind |-> DeadlineKind(s)] ELSE row[s]

(* The row a request gets back is Expired(s).                              *)
Expired(s) == IF Unstopped(s) THEN [state |-> "cancelling", kind |-> DeadlineKind(s)] ELSE row[s]
ExpireDataPlaneSession(s) ==
  /\ row' = [row EXCEPT ![s] = Expired(s)]
  /\ command' = [command EXCEPT ![s] = IF Unstopped(s) THEN Enqueued(s) ELSE @]

CompleteDataPlaneSession(s, reported) ==
  /\ row' = [row EXCEPT ![s] = IF Ended(s) THEN @ ELSE Projection(s, reported)]
  /\ UNCHANGED command

(* completeCancelledSession, when the session is still cancelling.         *)
Confirmed(s) == IF State(s) = "cancelling" THEN [row[s] EXCEPT !.state = "completed"] ELSE row[s]

-----------------------------------------------------------------------------
(* What travels.  A frame sent on a dead stream is lost.                   *)

Put(queue, m) == IF cut THEN queue ELSE Append(queue, m)

(* session.ValidateOutboundDataPlaneFrame: an exact repetition, the next   *)
(* sequence, or any sequence on a stream this connection has not seen.     *)
OutboundValid(s, f) == sent[s] \in {NoFrame, f} \/ f.seq = sent[s].seq + 1

(* LiveDataPlaneStream.Send, or a write on the direct connection.          *)
Reachable(r) == IF Direct(Of(r)) THEN tcp[Of(r)].by = r /\ tcp[Of(r)].stage = "open"
                ELSE owner[Of(r)] = r
Sendable(r, f) == Reachable(r) /\ (Direct(Of(r)) \/ OutboundValid(Of(r), f))
Transmit(f) ==
  IF Direct(f.s)
  THEN /\ tcp' = [tcp EXCEPT ![f.s].down = Append(@, f)]
       /\ UNCHANGED <<down, sent>>
  ELSE /\ sent' = [sent EXCEPT ![f.s] = f]
       /\ down' = Put(down, f)
       /\ UNCHANGED tcp

(* A streaming Open is the same bytes for every attachment; a buffered one *)
(* carries the deadline of the request that sends it.                      *)
OpenFrame(r) == Frame("open", Of(r), 1, IF Kind(Of(r)) = "exec" THEN r ELSE Nobody)
CancelFrame(r) == Frame("cancel", Of(r), request[r].next, Nobody)
InputFrame(r) == Frame("input", Of(r), request[r].next, r)

(* Mutant: Close leaves the route in the broker. *)
ReleaseForgetsRoute(r) ==
  /\ tcp' = [tcp EXCEPT ![Of(r)] = IF @.by # r THEN @ ELSE [@ EXCEPT !.by = Nobody, !.up = "none"]]
  /\ UNCHANGED owner

(* The request leaves its route or its direct connection.                  *)
LeftTcp(t) == [t EXCEPT !.by = Nobody, !.up = "none", !.stage = IF t.stage = "open" THEN "fin" ELSE t.stage]
Release(r) ==
  /\ owner' = [owner EXCEPT ![Of(r)] = IF @ = r THEN Nobody ELSE @]
  /\ tcp' = [tcp EXCEPT ![Of(r)] = IF @.by # r THEN @ ELSE LeftTcp(@)]

To(r, pc) == request' = [request EXCEPT ![r].pc = pc]
Saw(r, pc, state) == request' = [request EXCEPT ![r].pc = pc, ![r].seen = state]
Done(r) == request' = [request EXCEPT ![r] = [NewRequest EXCEPT !.pc = "done", !.open = request[r].open]]
At(r, pcs) == request[r].pc \in pcs

-----------------------------------------------------------------------------
(* Public requests.                                                        *)

(* AdmitDataPlane of a new operation.  The direct Open is queued with it.  *)
Admit(r) ==
  LET s == Of(r) IN
  /\ At(r, {"new"}) /\ State(s) = "none" /\ r \notin setup.later
  /\ Authority /\ online
  /\ row' = [row EXCEPT ![s].state = "pending"]
  /\ command' = [command EXCEPT ![s].open = IF Direct(s) THEN "pending" ELSE @]
  /\ Saw(r, IF Kind(s) = "stream" THEN "connect" ELSE "attach", "pending")
  /\ UNCHANGED <<setup, budget, clock, assignment, lease, online, owner, due, wire, runner>>

(* The idempotency key names an existing session: wait for it to end.      *)
Replay(r) ==
  /\ At(r, {"new"}) /\ Kind(Of(r)) # "stream" /\ State(Of(r)) # "none"
  /\ Saw(r, IF Ended(Of(r)) THEN "done" ELSE "wait", State(Of(r)))
  /\ UNCHANGED <<setup, budget, rows, owner, due, wire, runner>>

(* waitForDataPlane: a poll that finds the session ended.                  *)
WaitEnds(r) ==
  /\ At(r, {"wait", "watch"}) /\ Ended(Of(r))
  /\ Done(r)
  /\ UNCHANGED <<setup, budget, rows, owner, due, wire, runner>>

(* Its timer: a buffered Exec goes on to execute unless the session ended, *)
(* a File request goes on polling.                                         *)
WaitExpires(r) ==
  LET s == Of(r) IN
  /\ At(r, {"wait"}) /\ clock[s] >= IF Kind(s) = "exec" THEN 2 ELSE 1
  /\ ExpireDataPlaneSession(s)
  /\ Saw(r, IF Kind(s) = "file" THEN "watch" ELSE IF Ended(s) THEN "done" ELSE "attach",
         Expired(s).state)
  /\ UNCHANGED <<setup, budget, clock, assignment, lease, online, owner, due, wire, runner>>

(* connectSandboxExecStream reads the session it then attaches to.         *)
Connect(r) ==
  LET s == Of(r) IN
  /\ At(r, {"new", "connect"}) /\ Kind(s) = "stream" /\ State(s) # "none"
  /\ Saw(r, IF Unstopped(s) THEN "attach" ELSE "done", State(s))
  /\ UNCHANGED <<setup, budget, rows, owner, due, wire, runner>>

(* openDataPlaneStream: LiveDataPlaneBroker.Open, or the dial.             *)
Attach(r) ==
  LET s == Of(r)
      free == cp = "bound" /\ owner[s] = Nobody
  IN
  /\ At(r, {"attach"})
  /\ IF Direct(s) THEN To(r, "dial") /\ UNCHANGED owner
     ELSE /\ To(r, IF ~free THEN "abort" ELSE IF request[r].seen = "pending" THEN "start" ELSE "open")
          /\ owner' = IF free THEN [owner EXCEPT ![s] = r] ELSE owner
  /\ UNCHANGED <<setup, budget, rows, due, wire, runner>>

StartDataPlaneSession(r) ==
  LET s == Of(r)
      granted == State(s) = "pending" /\ clock[s] = 0 /\ Authority
  IN
  /\ At(r, {"start"})
  /\ row' = IF granted THEN [row EXCEPT ![s].state = "running"] ELSE row
  /\ To(r, IF granted THEN "open" ELSE "abort")
  /\ UNCHANGED <<setup, budget, clock, assignment, lease, command, online, owner, due, wire, runner>>

(* The Open is sent; a write to a direct connection that the Runner has    *)
(* already closed may still look successful.                               *)
SendOpen(r) ==
  /\ At(r, {"open"})
  /\ \/ /\ Sendable(r, OpenFrame(r))
        /\ Transmit(OpenFrame(r))
        /\ request' = [request EXCEPT ![r].pc = "serve", ![r].next = 2, ![r].open = TRUE]
     \/ /\ ~Sendable(r, OpenFrame(r))
        /\ To(r, "abort")
        /\ UNCHANGED <<tcp, down, sent>>
     \/ /\ ~Reachable(r) /\ Direct(Of(r))
        /\ request' = [request EXCEPT ![r].pc = "serve", ![r].next = 2]
        /\ UNCHANGED <<tcp, down, sent>>
  /\ UNCHANGED <<setup, budget, rows, owner, due, conn, cut, cp, rn, up, live, op, starts, ended>>

(* abortDataPlaneSetup closes the stream, then decides by the session as   *)
(* this request read it.                                                   *)
AbortDataPlaneSetup(r) ==
  /\ At(r, {"abort"})
  /\ Release(r)
  /\ IF request[r].seen = "pending" THEN To(r, "record") ELSE Done(r)
  /\ UNCHANGED <<setup, budget, rows, due, wire, live, op, starts, ended>>

(* The deferred Close of a request whose outcome is decided.               *)
Leave(r) ==
  /\ At(r, {"leave"})
  /\ Release(r) /\ Done(r)
  /\ UNCHANGED <<setup, budget, rows, due, wire, live, op, starts, ended>>

(* The chunk of a File upload, or input and credit of a streaming client.  *)
(* A transport failure leaves the outcome to Receive.                      *)
SendInput(r) ==
  LET f == InputFrame(r) IN
  /\ At(r, {"serve"})
  /\ \/ Kind(Of(r)) = "file" /\ request[r].next = 2 /\ UNCHANGED budget
     \/ Kind(Of(r)) = "stream" /\ Spend("input")
  /\ Sendable(r, f)
  /\ Transmit(f)
  /\ request' = [request EXCEPT ![r].next = @ + 1]
  /\ UNCHANGED <<setup, rows, owner, due, conn, cut, cp, rn, up, live, op, starts, ended>>

Arrived(r) == IF Direct(Of(r)) THEN IF tcp[Of(r)].by = r THEN tcp[Of(r)].up ELSE "none"
              ELSE request[r].inbox

(* Receive returns the terminal.  A second attachment that did not get the *)
(* frames before it refuses it: it expects the stream from its first frame.*)
ReceiveTerminal(r) ==
  LET s == Of(r)
      others == \E q \in Requests \ {r} : Of(q) = s /\ request[q].open
  IN
  /\ At(r, {"serve"}) /\ Arrived(r) # "none"
  /\ \/ request' = [request EXCEPT ![r].pc = "complete", ![r].inbox = Arrived(r)]
     \/ Kind(s) = "stream" /\ others /\ To(r, "cancel")
  /\ UNCHANGED <<setup, budget, rows, owner, due, wire, runner>>

Complete(r) ==
  /\ At(r, {"complete"})
  /\ CompleteDataPlaneSession(Of(r), request[r].inbox)
  /\ To(r, "leave")
  /\ UNCHANGED <<setup, budget, clock, assignment, lease, online, owner, due, wire, runner>>

(* Receive returns the deadline: abandonBufferedDataPlane and the          *)
(* streaming Receive expire the session and answer with what they read.    *)
ReceiveExpires(r) ==
  LET s == Of(r) IN
  /\ At(r, {"serve"}) /\ clock[s] >= IF Kind(s) = "file" THEN 1 ELSE 2
  /\ ExpireDataPlaneSession(s)
  /\ To(r, "leave")
  /\ UNCHANGED <<setup, budget, clock, assignment, lease, online, owner, due, wire, runner>>

(* Receive fails: the route was closed, or the Runner closed the direct    *)
(* connection.  A buffered request returns the error and changes nothing.  *)
ReceiveFails(r) ==
  /\ At(r, {"serve"}) /\ ~Reachable(r)
  /\ Direct(Of(r)) \/ Arrived(r) = "none"
  /\ To(r, IF Kind(Of(r)) = "stream" THEN "cancel" ELSE "leave")
  /\ UNCHANGED <<setup, budget, rows, owner, due, wire, runner>>

(* The public client disconnects.                                          *)
ClientGone(r) ==
  /\ Spend("gone")
  /\ \/ At(r, {"wait", "watch"}) /\ Done(r)
     \/ At(r, {"start", "dial", "verdict"}) /\ To(r, "abort")
     \/ At(r, {"serve"}) /\ To(r, IF Kind(Of(r)) = "stream" THEN "cancel" ELSE "record")
  /\ UNCHANGED <<setup, rows, owner, due, wire, runner>>

(* SandboxExecStream.Cancel: the stop frame, then the record.  "ask" is a  *)
(* client's own cancellation, after which the stream goes on.              *)
ClientCancels(r) ==
  /\ At(r, {"serve"}) /\ Kind(Of(r)) = "stream"
  /\ Spend("cancel") /\ To(r, "ask")
  /\ UNCHANGED <<setup, rows, owner, due, wire, runner>>

SendCancel(r) ==
  LET f == CancelFrame(r)
      failed == request[r].pc = "cancel" \/ ~Sendable(r, f)
  IN
  /\ At(r, {"ask", "cancel"})
  /\ IF Sendable(r, f) THEN Transmit(f) ELSE UNCHANGED <<tcp, down, sent>>
  /\ request' = [request EXCEPT ![r].pc = IF failed THEN "record" ELSE "asked",
                                ![r].next = IF Sendable(r, f) THEN @ + 1 ELSE @]
  /\ UNCHANGED <<setup, budget, rows, owner, due, conn, cut, cp, rn, up, live, op, starts, ended>>

RecordCancellation(r) ==
  /\ At(r, {"asked", "record"})
  /\ CancelDataPlaneSession(Of(r))
  /\ To(r, IF request[r].pc = "asked" THEN "serve" ELSE "leave")
  /\ UNCHANGED <<setup, budget, clock, assignment, lease, online, owner, due, wire, runner>>

(* CancelPublicDataPlaneSession, for a streaming session.                  *)
CancelPublicDataPlaneSession(s) ==
  /\ Kind(s) = "stream" /\ Unstopped(s) /\ Spend("cancel")
  /\ CancelDataPlaneSession(s)
  /\ UNCHANGED <<setup, clock, assignment, lease, online, plane, wire, runner>>

-----------------------------------------------------------------------------
(* The sweeper, the Sandbox's lifecycle and the passing of time.           *)

(* Mutant: the sweep forgets sessions that nobody started. *)
SweepRunning(s) == State(s) = "running" /\ (~lease \/ clock[s] >= IF Kind(s) = "file" THEN 1 ELSE 2)

(* What SweepDataPlane selects: sessions past their deadline, whose Exec   *)
(* completion grace also passed, and sessions whose Lease is not active.   *)
Sweepable(s) == Unstopped(s) /\ (~lease \/ clock[s] >= IF Kind(s) = "file" THEN 1 ELSE 2)

SweepSelect ==
  /\ due = {} /\ \E s \in Sessions : Sweepable(s)
  /\ due' = {[s |-> s, late |-> lease] : s \in {x \in Sessions : Sweepable(x)}}
  /\ UNCHANGED <<setup, budget, rows, request, owner, wire, runner>>

(* Each selected session in a transaction of its own.                      *)
SweepSession(d) ==
  /\ IF d.late THEN ExpireDataPlaneSession(d.s) ELSE CancelDataPlaneSession(d.s)
  /\ due' = due \ {d}
  /\ UNCHANGED <<setup, budget, clock, assignment, lease, online, request, owner, wire, runner>>

(* Mutant: a cancellation is taken as confirmed while the fence is pending. *)
FinalizeWhileFencing(s) ==
  /\ State(s) = "cancelling" /\ assignment # "ready"
  /\ row' = [row EXCEPT ![s] = Confirmed(s)]
  /\ UNCHANGED <<setup, budget, clock, assignment, lease, command, online, plane, wire, runner>>

(* finalizeUnconfirmedCancellations: the Assignment is over.               *)
FinalizeUnconfirmed(s) ==
  /\ State(s) = "cancelling" /\ assignment = "fenced"
  /\ row' = [row EXCEPT ![s] = Confirmed(s)]
  /\ UNCHANGED <<setup, budget, clock, assignment, lease, command, online, plane, wire, runner>>

(* A stop commits, then CancelSandboxSessions takes session after session. *)
StopSandbox ==
  /\ assignment = "ready" /\ Spend("stop")
  /\ assignment' = "fencing"
  /\ UNCHANGED <<setup, row, clock, lease, command, online, plane, wire, runner>>

CancelSandboxSession(s) ==
  /\ assignment # "ready" /\ Unstopped(s)
  /\ CancelDataPlaneSession(s)
  /\ UNCHANGED <<setup, budget, clock, assignment, lease, online, plane, wire, runner>>

LeaseEnds ==
  /\ lease /\ Spend("lease")
  /\ lease' = FALSE
  /\ UNCHANGED <<setup, row, clock, assignment, command, online, plane, wire, runner>>

TimePasses(s) ==
  /\ State(s) # "none" /\ clock[s] < IF Kind(s) = "file" THEN 1 ELSE 2
  /\ clock' = [clock EXCEPT ![s] = @ + 1]
  /\ UNCHANGED <<setup, budget, row, assignment, lease, command, online, plane, wire, runner>>

-----------------------------------------------------------------------------
(* The control plane's side of the Runner connection.                      *)

(* removeRunnerRoutesLocked: the handlers find their routes closed.        *)
RoutesRemoved ==
  /\ owner' = [s \in Sessions |-> Nobody]
  /\ request' = [r \in Requests |-> IF owner[Of(r)] = r /\ request[r].pc # "complete"
                                    THEN [request[r] EXCEPT !.inbox = "none"] ELSE request[r]]

(* The command pump of the connection.                                     *)
PumpDirectOpen(s) ==
  /\ cp = "bound" /\ command[s].open = "pending"
  /\ command' = [command EXCEPT ![s].open = "delivered"]
  /\ down' = Put(down, Frame("register", s, 0, Nobody))
  /\ UNCHANGED <<setup, budget, row, clock, assignment, lease, online, plane, conn, cut, cp, rn, up, sent, runner>>

PumpCancel(s) ==
  /\ cp = "bound" /\ command[s].cancel = "pending"
  /\ command' = [command EXCEPT ![s].cancel = "delivered"]
  /\ down' = Put(down, Frame("command", s, 0, Nobody))
  /\ UNCHANGED <<setup, budget, row, clock, assignment, lease, online, plane, conn, cut, cp, rn, up, sent, runner>>

(* RouteRunnerOperationFrame: the route takes its first terminal; one that *)
(* no route takes confirms a cancellation.                                 *)
RouteTerminal ==
  LET m == Head(up)
      r == owner[m.s]
      taken == r # Nobody /\ request[r].inbox = "none"
  IN
  /\ cp = "bound" /\ up # <<>> /\ m.type = "terminal"
  /\ up' = Tail(up)
  /\ sent' = [sent EXCEPT ![m.s] = NoFrame]
  /\ IF taken THEN request' = [request EXCEPT ![r].inbox = m.kind] /\ UNCHANGED row
     ELSE row' = [row EXCEPT ![m.s] = Confirmed(m.s)] /\ UNCHANGED request
  /\ UNCHANGED <<setup, budget, clock, assignment, lease, command, online, owner, due, conn, cut, cp, rn, down, runner>>

(* answerDirectDataPlaneConsumption.                                       *)
ConsumeDirectDataPlaneSession ==
  LET m == Head(up)
      granted == State(m.s) = "pending" /\ clock[m.s] = 0 /\ Authority
  IN
  /\ cp = "bound" /\ up # <<>> /\ m.type = "consume"
  /\ up' = Tail(up)
  /\ row' = IF granted THEN [row EXCEPT ![m.s].state = "running"] ELSE row
  /\ down' = Put(down, Frame("admission", m.s, IF granted THEN 1 ELSE 0, m.by))
  /\ UNCHANGED <<setup, budget, clock, assignment, lease, command, online, plane, conn, cut, cp, rn, sent, runner>>

StreamBreaks ==
  /\ rn /\ ~cut /\ Spend("break")
  /\ cut' = TRUE
  /\ UNCHANGED <<setup, rows, plane, conn, cp, rn, up, down, sent, runner>>

(* The handler of the connection returns: detach, then CloseConnection in  *)
(* a later transaction, which does nothing once a newer connection opened. *)
Unbind ==
  /\ cp = "bound" /\ cut
  /\ cp' = "unbound" /\ up' = <<>>
  /\ RoutesRemoved
  /\ UNCHANGED <<setup, budget, rows, due, conn, cut, rn, down, sent, runner>>

(* failDisconnectedRunnerDataPlaneSessions.                                *)
CloseConnection ==
  /\ cp = "unbound"
  /\ cp' = "off" /\ online' = FALSE
  /\ row' = [s \in Sessions |-> IF State(s) \in {"none", "completed", "failed"} THEN row[s]
                                ELSE [state |-> "failed", kind |-> "LOST"]]
  /\ UNCHANGED <<setup, budget, clock, assignment, lease, command, plane, conn, cut, rn, up, down, sent, runner>>

(* The Runner is back: OpenConnection supersedes what was active, requeues *)
(* delivered commands, and bind replaces the routes.                       *)
OpenConnection ==
  /\ ~rn
  /\ conn' = conn + 1 /\ cut' = FALSE /\ cp' = "bound" /\ rn' = TRUE
  /\ up' = <<>> /\ down' = <<>> /\ sent' = [s \in Sessions |-> NoFrame]
  /\ online' = TRUE
  /\ command' = [s \in Sessions |-> [w \in {"open", "cancel"} |->
                   IF command[s][w] = "delivered" THEN "pending" ELSE command[s][w]]]
  /\ RoutesRemoved
  /\ UNCHANGED <<setup, budget, row, clock, assignment, lease, due, runner>>

(* The process dies: handlers, routes, the sweep and direct connections.   *)
ControlPlaneCrash ==
  /\ cp # "off" /\ Spend("crash")
  /\ cp' = "off" /\ cut' = TRUE /\ up' = <<>>
  /\ owner' = [s \in Sessions |-> Nobody] /\ due' = {}
  /\ request' = [r \in Requests |-> IF request[r].pc \in {"new", "connect"} THEN request[r]
                                    ELSE [NewRequest EXCEPT !.pc = "done", !.open = request[r].open]]
  /\ tcp' = [s \in Sessions |-> LeftTcp(tcp[s])]
  /\ UNCHANGED <<setup, rows, conn, rn, down, sent, live, op, starts, ended>>

-----------------------------------------------------------------------------
(* The Runner.                                                             *)

Terminal(s, kind) == [type |-> "terminal", s |-> s, kind |-> kind, by |-> Nobody]
Consume(s, r) == [type |-> "consume", s |-> s, kind |-> "none", by |-> r]

Active(o) == o.stage \in {"upload", "run"}
Stopped(o) == IF Active(o) THEN [o EXCEPT !.stop = TRUE] ELSE o

(* recordAbsentOperationTerminalLocked: a late Open meets it in sequence.  *)
Absent == [NoOp EXCEPT !.stage = "done", !.kind = "CANCELLED"]

(* closeMatching: the session leaves the registry; a served connection is  *)
(* closed and its operation cancelled, one still asking is not reached.    *)
Served(t) == t.stage \in {"open", "fin"}
ClosedTcp(t) == IF t.reg /\ Served(t) THEN [t EXCEPT !.reg = FALSE, !.stage = "closing", !.down = <<>>]
                ELSE [t EXCEPT !.reg = FALSE]
ClosedOp(s) == IF tcp[s].reg /\ Served(tcp[s]) /\ op[s].via = 0 THEN Stopped(op[s]) ELSE op[s]

(* acceptRunnerDataPlaneInput.                                             *)
Repeats(o, f) == o.stage # "none" /\ f.seq + 1 = o.next /\ f = o.last
Violates(o, f) == IF o.stage = "none" THEN f.type # "open" \/ f.seq # 1
                  ELSE ~Repeats(o, f) /\ f.seq # o.next

(* handleExecFrame and handleFileFrame: the operation after a frame that   *)
(* came on connection via, zero for a direct one.                          *)
Opened(f, via) ==
  [NoOp EXCEPT !.next = 2, !.last = f, !.via = via,
               !.stage = IF ~live THEN "done" ELSE IF Kind(f.s) = "file" THEN "upload" ELSE "run",
               !.kind = IF live THEN "none" ELSE "FAILED"]

Sequenced(o, f) == [o EXCEPT !.next = @ + 1, !.last = f]

(* Mutant: an Open replaces an operation that has completed. *)
HandledAnew(f, via) ==
  LET o == op[f.s] IN
  IF o.stage = "none" \/ (f.type = "open" /\ o.kind = "DONE") THEN Opened(f, via)
  ELSE IF Active(o) /\ f.type = "cancel" THEN Stopped(Sequenced(o, f))
  ELSE IF o.stage = "upload" /\ f.type = "input" /\ ~o.stop THEN [Sequenced(o, f) EXCEPT !.stage = "run"]
  ELSE IF Repeats(o, f) THEN o
  ELSE Sequenced(o, f)

Handled(f, via) ==
  LET o == op[f.s] IN
  IF o.stage = "none" THEN Opened(f, via)
  ELSE IF Repeats(o, f) THEN o
  ELSE IF Active(o) /\ f.type = "cancel" THEN Stopped(Sequenced(o, f))
  ELSE IF o.stage = "upload" /\ f.type = "input" /\ ~o.stop THEN [Sequenced(o, f) EXCEPT !.stage = "run"]
  ELSE Sequenced(o, f)

(* A refused Open is answered; a repetition replays a retained terminal.   *)
Answers(f) == IF op[f.s].stage = "none" THEN ~live ELSE Repeats(op[f.s], f) /\ op[f.s].stage = "done"
Started(f) == Handled(f, 0).stage = "run" /\ op[f.s].stage # "run"
Handle(f, via) ==
  /\ op' = [op EXCEPT ![f.s] = Handled(f, via)]
  /\ starts' = [starts EXCEPT ![f.s] = IF Started(f) THEN @ + 1 ELSE @]

(* The Runner leaves its session: service.go after Run's stream ended.     *)
LeaveSession ==
  /\ rn' = FALSE /\ cut' = TRUE /\ down' = <<>>
  /\ op' = [s \in Sessions |-> Stopped(op[s])]
  /\ tcp' = [s \in Sessions |-> ClosedTcp(tcp[s])]

RunnerLosesStream ==
  /\ rn /\ cut
  /\ LeaveSession
  /\ UNCHANGED <<setup, budget, rows, plane, conn, cp, up, sent, live, starts, ended>>

NextFrame == Head(down)
Reads(types) == rn /\ down # <<>> /\ NextFrame.type \in types

ReceiveFrame ==
  LET f == NextFrame IN
  /\ Reads({"open", "input", "cancel"}) /\ ~Violates(op[f.s], f)
  /\ down' = Tail(down)
  /\ Handle(f, conn)
  /\ up' = IF Answers(f) THEN Put(up, Terminal(f.s, Handled(f, conn).kind)) ELSE up
  /\ UNCHANGED <<setup, budget, rows, plane, conn, cut, cp, rn, sent, live, tcp, ended>>

(* A protocol violation ends the whole session.                            *)
RefuseFrame ==
  LET f == NextFrame IN
  /\ Reads({"open", "input", "cancel"}) /\ Violates(op[f.s], f)
  /\ LeaveSession
  /\ ended' = IF op[f.s].stage = "none" THEN "unknown" ELSE "reordered"
  /\ UNCHANGED <<setup, budget, rows, plane, conn, cp, up, sent, live, starts>>

RegisterDirectDataPlaneSession ==
  LET s == NextFrame.s IN
  /\ Reads({"register"})
  /\ down' = Tail(down)
  /\ tcp' = [tcp EXCEPT ![s].reg = @ \/ (clock[s] = 0 /\ live)]
  /\ UNCHANGED <<setup, budget, rows, plane, conn, cut, cp, rn, up, sent, live, op, starts, ended>>

HandleDataPlaneCancel ==
  LET s == NextFrame.s
      o == op[s]
      after == IF o.stage = "none" THEN Absent ELSE IF Active(o) THEN [Stopped(o) EXCEPT !.confirm = TRUE] ELSE o
  IN
  /\ Reads({"command"})
  /\ down' = Tail(down)
  /\ op' = [op EXCEPT ![s] = after]
  /\ tcp' = [tcp EXCEPT ![s] = IF Active(o) THEN @ ELSE ClosedTcp(@)]
  /\ up' = IF after.stage = "done" THEN Put(up, Terminal(s, after.kind)) ELSE up
  /\ UNCHANGED <<setup, budget, rows, plane, conn, cut, cp, rn, sent, live, starts, ended>>

(* The worker returns.  A cancelled command never reports success, a       *)
(* cancelled file operation may.                                           *)
Results(s) ==
  LET stopped == op[s].stop \/ ~live
      late == clock[s] > 0 /\ Kind(s) # "file"
  IN CASE op[s].stage = "upload" -> IF op[s].stop THEN {"CANCELLED"} ELSE {}
       [] op[s].stage = "run" -> (IF stopped THEN {"CANCELLED", "FAILED"} ELSE {"DONE", "FAILED"})
                                 \union (IF late THEN {"DEADLINE"} ELSE {})
                                 \union (IF Kind(s) = "file" /\ live THEN {"DONE"} ELSE {})
       [] OTHER -> {}

(* sendOperationTerminal: on the operation's own stream and, when it was   *)
(* cancelled durably, on the control connection.                           *)
Finish(s, kind) ==
  LET o == op[s]
      copies == (IF o.via = conn THEN 1 ELSE 0) + (IF o.confirm THEN 1 ELSE 0)
  IN
  /\ kind \in Results(s)
  /\ op' = [op EXCEPT ![s] = [NoOp EXCEPT !.stage = "done", !.next = o.next, !.last = o.last, !.kind = kind]]
  /\ up' = IF rn /\ ~cut THEN up \o [i \in 1..copies |-> Terminal(s, kind)] ELSE up
  /\ tcp' = [tcp EXCEPT ![s].up = IF o.via = 0 /\ tcp[s].stage = "open" THEN kind ELSE @]
  /\ UNCHANGED <<setup, budget, rows, plane, conn, cut, cp, rn, down, sent, live, starts, ended>>

(* The fence closes the Assignment's direct sessions, then takes effect;   *)
(* its receipt ends the Assignment.                                        *)
FenceAssignment ==
  /\ live /\ assignment = "fencing" /\ rn
  /\ live' = FALSE
  /\ op' = [s \in Sessions |-> ClosedOp(s)]
  /\ tcp' = [s \in Sessions |-> ClosedTcp(tcp[s])]
  /\ UNCHANGED <<setup, budget, rows, plane, wire, starts, ended>>

AssignmentFenced ==
  /\ assignment = "fencing" /\ ~live /\ cp = "bound" /\ ~cut
  /\ assignment' = "fenced"
  /\ UNCHANGED <<setup, budget, row, clock, lease, command, online, plane, wire, runner>>

-----------------------------------------------------------------------------
(* Direct connections.                                                     *)

(* serveDirectTypedConnection claims a registered session and asks the     *)
(* control plane to consume its credential.                                *)
Claimable(s) == tcp[s].reg /\ tcp[s].stage = "none" /\ clock[s] = 0 /\ live

ClaimDirect(r) ==
  LET s == Of(r) IN
  /\ At(r, {"dial"}) /\ Claimable(s) /\ rn
  /\ tcp' = [tcp EXCEPT ![s].stage = "consuming", ![s].try = r, ![s].by = r]
  /\ up' = Put(up, Consume(s, r))
  /\ To(r, "verdict")
  /\ UNCHANGED <<setup, budget, rows, owner, due, conn, cut, cp, rn, down, sent, live, op, starts, ended>>

(* The credential is not registered in time, or the session is refused.    *)
DenyDirect(r) ==
  /\ At(r, {"dial"}) /\ ~(Claimable(Of(r)) /\ rn)
  /\ To(r, "abort")
  /\ UNCHANGED <<setup, budget, rows, owner, due, wire, runner>>

Verdict(s, admitted) ==
  LET t == tcp[s] IN
  /\ tcp' = [tcp EXCEPT ![s] =
       IF ~admitted THEN [t EXCEPT !.stage = "none", !.try = Nobody, !.by = Nobody]
       ELSE [t EXCEPT !.stage = IF t.by = Nobody THEN "fin" ELSE "open"]]
  /\ request' = [r \in Requests |-> IF t.by # r THEN request[r]
                                    ELSE [request[r] EXCEPT !.pc = IF admitted THEN "open" ELSE "abort"]]

ReceiveAdmission ==
  LET s == NextFrame.s
      awaited == tcp[s].stage = "consuming" /\ tcp[s].try = NextFrame.by
  IN
  /\ Reads({"admission"})
  /\ down' = Tail(down)
  /\ IF awaited THEN Verdict(s, NextFrame.seq = 1) ELSE UNCHANGED <<tcp, request>>
  /\ UNCHANGED <<setup, budget, rows, owner, due, conn, cut, cp, rn, up, sent, live, op, starts, ended>>

AdmissionTimesOut(s) ==
  /\ tcp[s].stage = "consuming"
  /\ Verdict(s, FALSE)
  /\ UNCHANGED <<setup, budget, rows, owner, due, wire, live, op, starts, ended>>

DirectReceive(s) ==
  LET f == Head(tcp[s].down)
      t == [tcp[s] EXCEPT !.down = Tail(@)]
  IN
  /\ Served(tcp[s]) /\ tcp[s].down # <<>>
  /\ IF Violates(op[s], f)
     THEN tcp' = [tcp EXCEPT ![s].stage = "closing", ![s].down = <<>>] /\ UNCHANGED <<op, starts>>
     ELSE /\ Handle(f, 0)
          /\ tcp' = [tcp EXCEPT ![s] = IF Answers(f) /\ t.stage = "open" THEN [t EXCEPT !.up = Handled(f, 0).kind] ELSE t]
  /\ UNCHANGED <<setup, budget, rows, plane, wire, live, ended>>

(* The connection's delivery deadline, or its loss.                        *)
DirectBreaks(s) ==
  /\ tcp[s].stage = "open"
  /\ \/ clock[s] >= (IF Kind(s) = "file" THEN 1 ELSE 2) /\ UNCHANGED budget
     \/ Spend("break")
  /\ tcp' = [tcp EXCEPT ![s].stage = "closing", ![s].down = <<>>]
  /\ UNCHANGED <<setup, rows, plane, wire, live, op, starts, ended>>

(* serveDirectTypedConnection returns: it cancels its operation, and one   *)
(* that was never opened is retained as cancelled.                         *)
DirectServed(s) ==
  /\ tcp[s].stage = "closing" \/ (tcp[s].stage = "fin" /\ tcp[s].down = <<>>)
  /\ tcp' = [tcp EXCEPT ![s] = NoTcp]
  /\ op' = [op EXCEPT ![s] = IF @.stage = "none" THEN Absent ELSE IF @.via = 0 THEN Stopped(@) ELSE @]
  /\ UNCHANGED <<setup, budget, rows, plane, wire, live, starts, ended>>

-----------------------------------------------------------------------------
Init ==
  \E c \in Scenarios :
    /\ setup = [kind |-> c.kind, direct |-> c.direct, of |-> c.of, later |-> c.later]
    /\ budget = c.budget
    /\ row = [s \in Sessions |-> [state |-> "none", kind |-> "none"]]
    /\ clock = [s \in Sessions |-> 0]
    /\ assignment = "ready" /\ lease = TRUE /\ online = TRUE
    /\ command = [s \in Sessions |-> [w \in {"open", "cancel"} |-> "none"]]
    /\ request = [r \in Requests |-> [NewRequest EXCEPT !.pc = IF r \in c.idle THEN "done" ELSE @]]
    /\ owner = [s \in Sessions |-> Nobody] /\ due = {}
    /\ conn = 1 /\ cut = FALSE /\ cp = "bound" /\ rn = TRUE
    /\ up = <<>> /\ down = <<>> /\ sent = [s \in Sessions |-> NoFrame]
    /\ live = TRUE
    /\ op = [s \in Sessions |-> NoOp] /\ tcp = [s \in Sessions |-> NoTcp]
    /\ starts = [s \in Sessions |-> 0] /\ ended = "none"

(* What a handler does on its own, as opposed to what its client does.     *)
Handler(r) ==
  \/ WaitEnds(r) \/ WaitExpires(r)
  \/ Attach(r) \/ StartDataPlaneSession(r) \/ SendOpen(r) \/ AbortDataPlaneSetup(r) \/ Leave(r)
  \/ ReceiveTerminal(r) \/ Complete(r) \/ ReceiveExpires(r) \/ ReceiveFails(r)
  \/ SendCancel(r) \/ RecordCancellation(r)
  \/ ClaimDirect(r) \/ DenyDirect(r)

Client(r) == Admit(r) \/ Replay(r) \/ Connect(r) \/ SendInput(r) \/ ClientGone(r) \/ ClientCancels(r)

Sweeper == SweepSelect \/ (\E d \in due : SweepSession(d)) \/ (\E s \in Sessions : FinalizeUnconfirmed(s))

ControlConnection ==
  \/ RouteTerminal \/ ConsumeDirectDataPlaneSession \/ Unbind \/ CloseConnection
  \/ \E s \in Sessions : PumpDirectOpen(s) \/ PumpCancel(s)

RunnerConnection ==
  \/ ReceiveFrame \/ RefuseFrame \/ RegisterDirectDataPlaneSession \/ HandleDataPlaneCancel
  \/ ReceiveAdmission \/ RunnerLosesStream \/ OpenConnection \/ FenceAssignment \/ AssignmentFenced

RunnerWork(s) ==
  \/ AdmissionTimesOut(s) \/ DirectReceive(s) \/ DirectBreaks(s) \/ DirectServed(s)
  \/ \E kind \in {"DONE", "FAILED", "CANCELLED", "DEADLINE"} : Finish(s, kind)

Environment ==
  \/ StreamBreaks \/ ControlPlaneCrash \/ StopSandbox \/ LeaseEnds
  \/ \E s \in Sessions : TimePasses(s) \/ CancelSandboxSession(s) \/ CancelPublicDataPlaneSession(s)

Next ==
  \/ \E r \in Requests : Handler(r) \/ Client(r)
  \/ Sweeper \/ ControlConnection \/ RunnerConnection \/ Environment
  \/ \E s \in Sessions : RunnerWork(s)

Spec == Init /\ [][Next]_vars

(* Handlers, the sweeper, both ends of the connection and the clock do not *)
(* all stop at once.  A command ends by itself only after its deadline;    *)
(* any other work needs to be stopped.  What a client, a failure or an     *)
(* operator does is never required.                                        *)
WorkEnds(s) ==
  /\ op[s].stop \/ ~live \/ (clock[s] > 0 /\ Kind(s) # "file")
  /\ \E kind \in {"DONE", "FAILED", "CANCELLED", "DEADLINE"} : Finish(s, kind)

Progress ==
  \/ \E r \in Requests : Handler(r)
  \/ Sweeper \/ ControlConnection \/ RunnerConnection
  \/ \E s \in Sessions :
       TimePasses(s) \/ WorkEnds(s) \/ AdmissionTimesOut(s) \/ DirectReceive(s) \/ DirectServed(s)

FairSpec == Spec /\ WF_vars(Progress)

-----------------------------------------------------------------------------
(* Properties.                                                             *)

Executing(s) == op[s].stage = "run" /\ live

(* The ranges of the state: rows, clocks, handlers, routes and operations. *)
TypeOK ==
  /\ row \in [Sessions -> [state : {"none", "pending", "running", "cancelling", "completed", "failed"},
                           kind : {"none", "DONE", "FAILED", "CANCELLED", "DEADLINE", "LOST"}]]
  /\ clock \in [Sessions -> 0..2]
  /\ assignment \in {"ready", "fencing", "fenced"} /\ {lease, online, cut, rn, live} \subseteq BOOLEAN
  /\ owner \in [Sessions -> Requests \union {Nobody}]
  /\ cp \in {"bound", "unbound", "off"} /\ conn \in Nat \ {0}
  /\ \A s \in Sessions :
       /\ op[s].stage \in {"none", "upload", "run", "done"} /\ op[s].via \in 0..conn
       /\ tcp[s].stage \in {"none", "consuming", "open", "fin", "closing"}

(* A session that ended for any reason but a lost Runner connection has no *)
(* guest work left: completion, confirmation of a cancellation and the     *)
(* sweep's finalisation all rest on proof that the work stopped, and a     *)
(* retained terminal keeps a late Open from starting any.                  *)
EndedMeansStopped == \A s \in Sessions : Ended(s) /\ Executing(s) => row[s].kind = "LOST"

(* Repeated requests, second attachments, redelivered commands and         *)
(* reconnects start the guest work of an admitted operation at most once.  *)
RunsOnce == \A s \in Sessions : starts[s] <= 1

(* A broker route or direct connection belongs to a handler that is still  *)
(* using it, on a connection that is still bound: a leaked one would turn  *)
(* away every later attachment as already attached.                        *)
NothingOutlivesItsHandler ==
  \A s \in Sessions, r \in Requests :
    LET away == At(r, {"new", "wait", "watch", "connect", "attach", "done"}) IN
    /\ owner[s] = r => cp = "bound" /\ ~away
    /\ tcp[s].by = r => ~away

(* What a session's end reports never changes, and a recorded cancellation *)
(* or deadline is the outcome it ends with unless the connection is lost.  *)
(* (The fence of a lost Runner's or a restored generation, which is not    *)
(* modelled, fails a session that is being cancelled in the same way.)     *)
OutcomeSettled ==
  [][\A s \in Sessions :
       /\ Ended(s) => row'[s] = row[s]
       /\ State(s) = "cancelling" => row'[s].kind \in {row[s].kind, "LOST"}]_vars

(* Every admitted session is ended or being cancelled, and its guest work  *)
(* stops, whatever clients and connections do: the deadline, the sweep and *)
(* the redelivered cancellation command see to it.  No handler waits for   *)
(* ever on a route, a direct connection or a terminal.                     *)
SessionsSettle ==
  <>[](/\ \A s \in Sessions : ~Unstopped(s) /\ ~Executing(s)
       /\ \A r \in Requests : At(r, {"new", "connect", "watch", "done"}))

(* The Runner never ends its connection because frames of an operation it  *)
(* knows are out of sequence (docs/design/runner-protocol.md: "A           *)
(* per-operation failure never ends the Runner connection").               *)
NoReorderedFrame == ended # "reordered"
=============================================================================
