---------------------------- MODULE RunnerSession ----------------------------
(***************************************************************************)
(* The control connection between one Runner and the control plane, frame  *)
(* by frame: the Runner's reconnect loop and its command loop, the Session *)
(* and Server of internal/runnercontrol with the pump that delivers        *)
(* commands, and the transactions in which PostgreSQL opens and closes     *)
(* connections, records messages and hands out commands.                   *)
(*                                                                         *)
(* A connection is numbered when the Runner dials it.  Handlers of several *)
(* connections run at once, perhaps in different replicas: that of a       *)
(* connection the Runner gave up may still be reading frames, or may not   *)
(* have opened it yet, when the next one starts.  up[c] and down[c] are    *)
(* the frames on their way; a broken connection carries nothing more, what *)
(* it still holds may or may not arrive, and both ends notice in their own *)
(* time.  The Runner's numbering of its messages outlives a connection and *)
(* starts again with the process.                                          *)
(***************************************************************************)
EXTENDS Naturals, Sequences, FiniteSets

CONSTANTS
  MaxConn,           \* connections the Runner dials, at most
  MaxCommands,       \* durable commands, at most
  Slots,             \* concurrent starts, and concurrent Workspace creates
  Window,            \* maxSessionMessageIDs
  EventBatchSize, CommandBatchSize,
  Scenarios          \* the commands' kinds and the bounds, chosen at the start

Conns == 1..MaxConn

(* What a behaviour may hold, at most: Instance terminals the backend      *)
(* reports, frames that reach the control plane twice, commands that       *)
(* reconciliation expires, and faults.                                     *)
Bounds == {"terminal", "replay", "expiry", "fault"}

ASSUME SessionAssumption ==
  /\ MaxConn \in Nat /\ MaxCommands \in Nat /\ Window \in Nat \ {0}
  /\ EventBatchSize \in Nat \ {0} /\ CommandBatchSize \in Nat \ {0}
  /\ \A s \in Scenarios : /\ s.kinds \in Seq({"assignment", "create", "workspace", "fence"})
                           /\ Len(s.kinds) <= MaxCommands /\ s.budget \in [Bounds -> Nat]

Commands == {<<"command", i>> : i \in 1..MaxCommands} \cup {<<"reconcile", c>> : c \in Conns}
NoCommand == <<"none", 0>>

VARIABLES
  (* The Runner. *)
  dialled,    \* connections dialled so far
  rconn,      \* the connection it serves, 0 between two
  rphase,     \* "idle", "hello": waits for Welcome, "serving"
  sequence,   \* the number of the last message this process sent
  accepted,   \* command frames accepted on this connection
  running,    \* starts and creates in flight
  (* The wire. *)
  up, down, broken,
  wire,       \* wire[c]: every message the Runner sent on c
  (* The handlers of the control plane. *)
  phase,      \* "none", "greeted", "open", "registered", "closed"
  window,     \* the message numbers its Session remembers, oldest first
  batch,      \* durable events accepted and not yet persisted
  single,     \* the batch is being persisted one event at a time
  pump,       \* commands claimed and sent, and not yet marked
  failed,     \* an error is about to end the handler
  (* PostgreSQL. *)
  cstate,     \* runner_connections.state
  lastSeq, lastControl,
  messages,   \* runner_messages: numbers recorded for the connection
  log,        \* the same rows in the order of their transactions
  rowConn, rowState,      \* runners.active_connection_id and state
  cmdState, cmdTarget, created,
  kinds,      \* kinds[i]: the kind of the i-th durable command
  budget      \* what may still happen of the Bounds

runner   == <<dialled, rconn, rphase, sequence, accepted, running>>
streams  == <<up, down, broken, wire>>
handlers == <<phase, window, batch, single, pump, failed>>
ordered  == <<lastSeq, messages, log>>
rows     == <<cstate, lastControl, rowConn, rowState>>
commands == <<cmdState, cmdTarget, created>>
bounds   == <<kinds, budget>>
vars     == <<runner, streams, handlers, ordered, rows, commands, bounds>>

Live == {"pending", "delivering", "delivered"}

Welcome == [seq |-> 0, cmd |-> NoCommand]

Durable(f) == f.kind \in {"result", "terminal"}

(* How the command loop serves it: a reconciliation is one of the          *)
(* local-workspace commands that are served inline.                        *)
KindOf(k) == IF k[1] = "command" /\ k[2] \in DOMAIN kinds THEN kinds[k[2]] ELSE "workspace"

Spend(bound) == /\ budget[bound] > 0
                /\ budget' = [budget EXCEPT ![bound] = @ - 1]
                /\ UNCHANGED kinds

(* A lost connection, a restarted process, a transaction that fails, and   *)
(* an acknowledgement that overtakes the mark of its delivery.             *)
Fault == Spend("fault")

Init ==
  /\ dialled = 0 /\ rconn = 0 /\ rphase = "idle" /\ sequence = 0
  /\ accepted = {} /\ running = {}
  /\ up = [c \in Conns |-> <<>>] /\ down = [c \in Conns |-> <<>>]
  /\ broken = [c \in Conns |-> FALSE] /\ wire = [c \in Conns |-> <<>>]
  /\ phase = [c \in Conns |-> "none"]
  /\ window = [c \in Conns |-> <<>>]
  /\ batch = [c \in Conns |-> <<>>] /\ single = [c \in Conns |-> FALSE]
  /\ pump = [c \in Conns |-> <<>>] /\ failed = [c \in Conns |-> FALSE]
  /\ cstate = [c \in Conns |-> "none"]
  /\ lastSeq = [c \in Conns |-> 0] /\ lastControl = [c \in Conns |-> 0]
  /\ messages = [c \in Conns |-> {}] /\ log = <<>>
  /\ rowConn = 0 /\ rowState = "offline"
  /\ cmdState = [k \in Commands |-> "absent"] /\ cmdTarget = [k \in Commands |-> 0]
  /\ created = 0
  /\ \E s \in Scenarios : kinds = s.kinds /\ budget = s.budget

-----------------------------------------------------------------------------
(* The Runner. *)

(* Messages numbered and sent under one lock; a send on a broken           *)
(* connection uses up the number.                                          *)
Send(c, new) ==
  LET frames == [i \in 1..Len(new) |->
                   [seq |-> sequence + i, kind |-> new[i].kind, cmd |-> new[i].cmd]]
  IN  /\ sequence' = sequence + Len(new)
      /\ wire' = [wire EXCEPT ![c] = @ \o frames]
      /\ up' = [up EXCEPT ![c] = IF broken[c] THEN @ ELSE @ \o frames]

Message(kind, k) == [kind |-> kind, cmd |-> k]

(* runProtocolSession dials and says Hello, and a handler answers Welcome. *)
Connect ==
  /\ rphase = "idle" /\ dialled < MaxConn
  /\ LET c == dialled + 1 IN
       /\ dialled' = c /\ rconn' = c /\ rphase' = "hello"
       /\ phase' = [phase EXCEPT ![c] = "greeted"]
       /\ down' = [down EXCEPT ![c] = <<Welcome>>]
  /\ accepted' = {} /\ running' = {}
  /\ UNCHANGED <<sequence, up, broken, wire, window, batch, single, pump, failed,
                 ordered, rows, commands, bounds>>

(* On Welcome it registers and sends a first heartbeat. *)
Register ==
  /\ rphase = "hello" /\ down[rconn] # <<>>
  /\ Send(rconn, <<Message("registration", NoCommand), Message("heartbeat", NoCommand)>>)
  /\ down' = [down EXCEPT ![rconn] = Tail(@)]
  /\ rphase' = "serving"
  /\ UNCHANGED <<dialled, rconn, accepted, running, broken,
                 handlers, ordered, rows, commands, bounds>>

InFlight(some) == {k \in running : KindOf(k) \in some}

(* What the command loop waits for before it serves k. *)
MayServe(k) ==
  CASE KindOf(k) = "assignment" -> InFlight({"create"}) = {}
                                   /\ Cardinality(InFlight({"assignment"})) < Slots
    [] KindOf(k) = "create"     -> Cardinality(InFlight({"create"})) < Slots
    [] KindOf(k) = "workspace"  -> InFlight({"create"}) = {}
    [] KindOf(k) = "fence"      -> running = {}

(* controlCommandState.accept: the same frame again is dropped, another    *)
(* one with its identity or an old number ends the session.                *)
Reordered(f) == /\ f \notin accepted
                /\ \E g \in accepted : g.cmd = f.cmd \/ f.seq <= g.seq

EndSession == rphase' = "idle" /\ rconn' = 0 /\ running' = {}

(* consumeCommands takes the next command; starts and creates go on beside *)
(* the loop, the others are served in it.                                  *)
Serve ==
  /\ rphase = "serving" /\ down[rconn] # <<>>
  /\ LET f == Head(down[rconn])
         k == f.cmd
     IN  IF Reordered(f)
           THEN /\ EndSession
                /\ broken' = [broken EXCEPT ![rconn] = TRUE]
                /\ UNCHANGED <<accepted, down, up, sequence, wire>>
           ELSE /\ MayServe(k)
                /\ accepted' = accepted \cup {f}
                /\ down' = [down EXCEPT ![rconn] = Tail(@)]
                /\ IF f \notin accepted /\ KindOf(k) \notin {"assignment", "create"}
                     THEN Send(rconn, <<Message("result", k)>>) /\ UNCHANGED running
                     ELSE /\ running' = running \cup ({k} \ {g.cmd : g \in accepted})
                          /\ UNCHANGED <<sequence, up, wire>>
                /\ UNCHANGED <<rphase, rconn, broken>>
  /\ UNCHANGED <<dialled, handlers, ordered, rows, commands, bounds>>

(* A start or create ends and reports. *)
Finish(k) ==
  /\ k \in running
  /\ running' = running \ {k}
  /\ Send(rconn, <<Message("result", k)>>)
  /\ UNCHANGED <<dialled, rconn, rphase, accepted, down, broken,
                 handlers, ordered, rows, commands, bounds>>

(* The backend reports that an Instance ended by itself. *)
sendInstanceTerminal ==
  /\ rphase = "serving" /\ Spend("terminal")
  /\ Send(rconn, <<Message("terminal", NoCommand)>>)
  /\ UNCHANGED <<dialled, rconn, rphase, accepted, running, down, broken,
                 handlers, ordered, rows, commands>>

(* The session ends: starts are cancelled and waited for, their results    *)
(* are not sent, and the stream is closed.                                 *)
LoseSession ==
  /\ rconn # 0 /\ broken[rconn]
  /\ EndSession
  /\ UNCHANGED <<dialled, sequence, accepted, streams,
                 handlers, ordered, rows, commands, bounds>>

(* The process is restarted and numbers its messages from one again. *)
Restart ==
  /\ rconn # 0 /\ Fault
  /\ EndSession
  /\ sequence' = 0
  /\ broken' = [broken EXCEPT ![rconn] = TRUE]
  /\ UNCHANGED <<dialled, accepted, up, down, wire,
                 handlers, ordered, rows, commands>>

Break(c) ==
  /\ ~broken[c] /\ c <= dialled /\ Fault
  /\ broken' = [broken EXCEPT ![c] = TRUE]
  /\ UNCHANGED <<runner, up, down, wire, handlers, ordered, rows, commands>>

-----------------------------------------------------------------------------
(* The handler of a connection. *)

SessionLast(c) == IF window[c] = <<>> THEN 0 ELSE window[c][Len(window[c])]

replayOutsideMessageIDWindow(c, n) ==
  n <= SessionLast(c) /\ Len(window[c]) = Window /\ n < window[c][1]

(* Session.Accept: a number it remembers is a duplicate; one below all it  *)
(* remembers, once it forgets, is left to PostgreSQL; any other must be    *)
(* new.                                                                    *)
Accept(c, f) ==
  IF \E i \in 1..Len(window[c]) : window[c][i] = f.seq THEN "duplicate"
  ELSE IF f.seq <= SessionLast(c) /\ ~replayOutsideMessageIDWindow(c, f.seq) THEN "reordered"
  ELSE "event"

(* Session.record: the oldest number makes room for a new one. *)
record(c, f) ==
  window' = [window EXCEPT ![c] =
    IF f.seq <= SessionLast(c) THEN @
    ELSE Append(IF Len(@) = Window THEN Tail(@) ELSE @, f.seq)]

(* MUTANT: the connection before is not superseded.                        *)
OpenBeside(c) ==
  /\ phase[c] = "greeted"
  /\ phase' = [phase EXCEPT ![c] = "open"]
  /\ cstate' = [cstate EXCEPT ![c] = "active"]
  /\ cmdState' = [k \in Commands |->
       IF k = <<"reconcile", c>> THEN "pending"
       ELSE IF cmdState[k] \in Live
              THEN IF k[1] = "reconcile" THEN "expired" ELSE "pending"
              ELSE cmdState[k]]
  /\ cmdTarget' = [k \in Commands |-> IF cmdState[k] \in Live THEN 0 ELSE cmdTarget[k]]
  /\ UNCHANGED <<runner, streams, window, batch, single, pump, failed,
                 ordered, lastControl, rowConn, rowState, created, bounds>>

(* MUTANT: an earlier reconciliation is delivered again.                   *)
OpenRepeating(c) ==
  /\ phase[c] = "greeted"
  /\ phase' = [phase EXCEPT ![c] = "open"]
  /\ cstate' = [d \in Conns |-> IF d = c THEN "active"
                                ELSE IF cstate[d] = "active" THEN "superseded" ELSE cstate[d]]
  /\ cmdState' = [k \in Commands |->
       IF k = <<"reconcile", c>> THEN "pending"
       ELSE IF cmdState[k] \in Live
              THEN "pending"
              ELSE cmdState[k]]
  /\ cmdTarget' = [k \in Commands |-> IF cmdState[k] \in Live THEN 0 ELSE cmdTarget[k]]
  /\ UNCHANGED <<runner, streams, window, batch, single, pump, failed,
                 ordered, lastControl, rowConn, rowState, created, bounds>>

(* MUTANT: a claimed command is not taken back.                            *)
OpenKeeping(c) ==
  /\ phase[c] = "greeted"
  /\ phase' = [phase EXCEPT ![c] = "open"]
  /\ cstate' = [d \in Conns |-> IF d = c THEN "active"
                                ELSE IF cstate[d] = "active" THEN "superseded" ELSE cstate[d]]
  /\ cmdState' = [k \in Commands |->
       IF k = <<"reconcile", c>> THEN "pending"
       ELSE IF cmdState[k] \in {"pending", "delivered"}
              THEN IF k[1] = "reconcile" THEN "expired" ELSE "pending"
              ELSE cmdState[k]]
  /\ cmdTarget' = [k \in Commands |-> IF cmdState[k] \in Live THEN 0 ELSE cmdTarget[k]]
  /\ UNCHANGED <<runner, streams, window, batch, single, pump, failed,
                 ordered, lastControl, rowConn, rowState, created, bounds>>

(* OpenConnection supersedes the active connection, whichever was dialled  *)
(* first, takes back what was claimed or delivered, expires earlier        *)
(* reconciliations and asks for one on this connection.                    *)
OpenConnection(c) ==
  /\ phase[c] = "greeted"
  /\ phase' = [phase EXCEPT ![c] = "open"]
  /\ cstate' = [d \in Conns |-> IF d = c THEN "active"
                                ELSE IF cstate[d] = "active" THEN "superseded" ELSE cstate[d]]
  /\ cmdState' = [k \in Commands |->
       IF k = <<"reconcile", c>> THEN "pending"
       ELSE IF cmdState[k] \in Live
              THEN IF k[1] = "reconcile" THEN "expired" ELSE "pending"
              ELSE cmdState[k]]
  /\ cmdTarget' = [k \in Commands |-> IF cmdState[k] \in Live THEN 0 ELSE cmdTarget[k]]
  /\ UNCHANGED <<runner, streams, window, batch, single, pump, failed,
                 ordered, lastControl, rowConn, rowState, created, bounds>>

Active(c) == cstate[c] = "active"

(* MUTANT: any connection records.                                         *)
beginAnyMessage(c, f) ==
  IF f.seq \in messages[c] THEN "duplicate"
  ELSE IF f.seq <= lastSeq[c] THEN "refused"
  ELSE "new"

(* beginOrderedMessage: only the active connection records, a message it   *)
(* has is a duplicate, and the others come in order.                       *)
beginOrderedMessage(c, f) ==
  IF ~Active(c) THEN "refused"
  ELSE IF f.seq \in messages[c] THEN "duplicate"
  ELSE IF f.seq <= lastSeq[c] THEN "refused"
  ELSE "new"

(* The rows that messages fs of c leave, in one transaction. *)
Record(c, fs) ==
  /\ messages' = [messages EXCEPT ![c] = @ \cup {fs[i].seq : i \in 1..Len(fs)}]
  /\ lastSeq' = [lastSeq EXCEPT ![c] = fs[Len(fs)].seq]
  /\ log' = log \o [i \in 1..Len(fs) |-> [conn |-> c, seq |-> fs[i].seq]]

Fail(c) == failed' = [failed EXCEPT ![c] = TRUE]

(* The next frame of a running handler. *)
Receive(c, some) ==
  /\ up[c] # <<>> /\ ~failed[c] /\ ~single[c]
  /\ Head(up[c]).kind \in some
  /\ up' = [up EXCEPT ![c] = Tail(@)]

(* Registration: PostgreSQL records it if the connection is still the      *)
(* active one, the Runner is schedulable through it, and the pump starts.  *)
RecordRegistration(c) ==
  /\ phase[c] = "open" /\ Receive(c, {"registration"})
  /\ LET f == Head(up[c]) IN
       /\ record(c, f)
       /\ IF beginOrderedMessage(c, f) = "new"
            THEN /\ Record(c, <<f>>)
                 /\ rowConn' = c /\ rowState' = "ready"
                 /\ phase' = [phase EXCEPT ![c] = "registered"]
                 /\ UNCHANGED failed
            ELSE Fail(c) /\ UNCHANGED <<ordered, rowConn, rowState, phase>>
  /\ UNCHANGED <<runner, down, broken, wire, batch, single, pump,
                 cstate, lastControl, commands, bounds>>

(* A heartbeat is recorded by itself, after the events before it, and      *)
(* refreshes the Runner's row if that names this connection.               *)
RecordHeartbeat(c) ==
  /\ phase[c] = "registered" /\ batch[c] = <<>> /\ Receive(c, {"heartbeat"})
  /\ LET f == Head(up[c])
         new == Accept(c, f) = "event" /\ beginOrderedMessage(c, f) = "new" /\ rowConn = c
         old == \/ Accept(c, f) = "duplicate"
                \/ Accept(c, f) = "event" /\ beginOrderedMessage(c, f) = "duplicate"
     IN  /\ IF Accept(c, f) = "event" THEN record(c, f) ELSE UNCHANGED window
         /\ IF new THEN Record(c, <<f>>) /\ rowState' = "ready"
                   ELSE UNCHANGED <<ordered, rowState>>
         /\ IF new \/ old THEN UNCHANGED failed ELSE Fail(c)
  /\ UNCHANGED <<runner, down, broken, wire, phase, batch, single, pump,
                 cstate, lastControl, rowConn, commands, bounds>>

(* A durable event joins the batch.  (A frame of another kind ends the     *)
(* batch and is served after it.)                                          *)
collectDurableEventBatch(c) ==
  /\ phase[c] = "registered" /\ Len(batch[c]) < EventBatchSize
  /\ Receive(c, {"result", "terminal"})
  /\ LET f == Head(up[c]) IN
       /\ IF Accept(c, f) = "event"
            THEN record(c, f) /\ batch' = [batch EXCEPT ![c] = Append(@, f)]
            ELSE UNCHANGED <<window, batch>>
       /\ IF Accept(c, f) = "reordered" THEN Fail(c) ELSE UNCHANGED failed
  /\ UNCHANGED <<runner, down, broken, wire, phase, single, pump,
                 ordered, rows, commands, bounds>>

(* recordDurableEvent for the commands that fs report on. *)
Reported(fs) == {fs[i].cmd : i \in 1..Len(fs)}
acknowledge(fs) ==
  /\ cmdState' = [k \in Commands |->
       IF k \in Reported(fs) /\ cmdState[k] \in Live THEN "acknowledged" ELSE cmdState[k]]
  /\ UNCHANGED <<cmdTarget, created>>

(* The report of a command whose delivery is not marked yet. *)
Overtakes(c, fs) ==
  \E k \in Reported(fs) : \E i \in 1..Len(pump[c]) : pump[c][i] = k

Count(c, fs) ==
  IF Overtakes(c, fs) THEN Fault ELSE UNCHANGED bounds

(* RecordEvents: all of a batch or none of it; but a batch that holds a    *)
(* message recorded before is taken apart and recorded one by one.         *)
RecordEvents(c) ==
  /\ batch[c] # <<>> /\ ~single[c]
  /\ LET fs == batch[c]
         old == \E i \in 1..Len(fs) : fs[i].seq \in messages[c]
         inOrder == \A i \in 1..Len(fs) : /\ fs[i].seq > lastSeq[c]
                                          /\ \A j \in 1..(i - 1) : fs[i].seq > fs[j].seq
     IN  \/ /\ Active(c) /\ old
            /\ single' = [single EXCEPT ![c] = TRUE]
            /\ UNCHANGED <<batch, failed, ordered, commands, bounds>>
         \/ /\ Active(c) /\ ~old /\ inOrder
            /\ Record(c, fs) /\ acknowledge(fs) /\ Count(c, fs)
            /\ batch' = [batch EXCEPT ![c] = <<>>]
            /\ UNCHANGED <<single, failed>>
         \/ /\ ~Active(c) \/ (~old /\ ~inOrder)
            /\ batch' = [batch EXCEPT ![c] = <<>>] /\ Fail(c)
            /\ UNCHANGED <<single, ordered, commands, bounds>>
  /\ UNCHANGED <<runner, streams, phase, window, pump, rows>>

RecordEvent(c) ==
  /\ batch[c] # <<>> /\ single[c]
  /\ LET f == Head(batch[c])
         outcome == beginOrderedMessage(c, f)
         rest == IF outcome = "refused" THEN <<>> ELSE Tail(batch[c])
     IN  /\ batch' = [batch EXCEPT ![c] = rest]
         /\ single' = [single EXCEPT ![c] = rest # <<>>]
         /\ IF outcome = "refused" THEN Fail(c) ELSE UNCHANGED failed
         /\ IF outcome = "new" THEN Record(c, <<f>>) /\ acknowledge(<<f>>) /\ Count(c, <<f>>)
                                ELSE UNCHANGED <<ordered, commands, bounds>>
  /\ UNCHANGED <<runner, streams, phase, window, pump, rows>>

(* The transaction fails, or what it records is refused. *)
PersistFails(c) ==
  /\ batch[c] # <<>> /\ Fault
  /\ batch' = [batch EXCEPT ![c] = <<>>] /\ single' = [single EXCEPT ![c] = FALSE]
  /\ Fail(c)
  /\ UNCHANGED <<runner, streams, phase, window, pump, ordered, rows, commands>>

(* MUTANT: a late close takes the Runner offline.                          *)
CloseAnyway(c) ==
  /\ phase[c] \in {"open", "registered"} /\ batch[c] = <<>>
  /\ broken[c] \/ failed[c]
  /\ phase' = [phase EXCEPT ![c] = "closed"]
  /\ cstate' = [cstate EXCEPT ![c] = IF @ = "active" THEN "disconnected" ELSE @]
  /\ rowState' = "offline"
  /\ broken' = [broken EXCEPT ![c] = TRUE]
  /\ pump' = [pump EXCEPT ![c] = <<>>]
  /\ UNCHANGED <<runner, up, down, wire, window, batch, single, failed,
                 ordered, lastControl, rowConn, commands, bounds>>

(* The handler ends on an error, a lost stream or a failed pump, once the  *)
(* events it had collected are persisted.  CloseConnection takes the       *)
(* Runner offline only if its row still names this connection; then the    *)
(* stream ends.                                                            *)
CloseConnection(c) ==
  /\ phase[c] \in {"open", "registered"} /\ batch[c] = <<>>
  /\ broken[c] \/ failed[c]
  /\ phase' = [phase EXCEPT ![c] = "closed"]
  /\ cstate' = [cstate EXCEPT ![c] = IF @ = "active" THEN "disconnected" ELSE @]
  /\ rowState' = IF rowConn = c THEN "offline" ELSE rowState
  /\ broken' = [broken EXCEPT ![c] = TRUE]
  /\ pump' = [pump EXCEPT ![c] = <<>>]
  /\ UNCHANGED <<runner, up, down, wire, window, batch, single, failed,
                 ordered, lastControl, rowConn, commands, bounds>>

(* The stream is lost before the connection is opened. *)
GiveUp(c) ==
  /\ phase[c] = "greeted" /\ broken[c]
  /\ phase' = [phase EXCEPT ![c] = "closed"]
  /\ UNCHANGED <<runner, streams, window, batch, single, pump, failed,
                 ordered, rows, commands, bounds>>

(* The replica that runs the handler stops, and closes nothing. *)
Crash(c) ==
  /\ phase[c] \in {"greeted", "open", "registered"} /\ Fault
  /\ phase' = [phase EXCEPT ![c] = "closed"]
  /\ broken' = [broken EXCEPT ![c] = TRUE]
  /\ batch' = [batch EXCEPT ![c] = <<>>] /\ single' = [single EXCEPT ![c] = FALSE]
  /\ pump' = [pump EXCEPT ![c] = <<>>]
  /\ UNCHANGED <<runner, up, down, wire, window, failed,
                 ordered, rows, commands>>

(* A frame arrives a second time, which the control plane allows for:      *)
(* after all sent so far, or before the next one.  (The first frame, the   *)
(* Registration, is not repeated.)                                         *)
Replay(c) ==
  /\ Spend("replay") /\ phase[c] = "registered" /\ ~broken[c] /\ up[c] = <<>>
  /\ \E i \in 2..Len(wire[c]) : up' = [up EXCEPT ![c] = <<wire[c][i]>>]
  /\ UNCHANGED <<runner, down, broken, wire, handlers, ordered, rows, commands>>

-----------------------------------------------------------------------------
(* Commands and the pump that delivers them. *)

InsertCommand ==
  /\ created < Len(kinds)
  /\ created' = created + 1
  /\ cmdState' = [cmdState EXCEPT ![<<"command", created + 1>>] = "pending"]
  /\ UNCHANGED <<runner, streams, handlers, ordered, rows, cmdTarget, bounds>>

(* Reconciliation gives up on a command that nobody acknowledged. *)
ExpireCommand(k) ==
  /\ k[1] = "command" /\ cmdState[k] \in Live /\ Spend("expiry")
  /\ cmdState' = [cmdState EXCEPT ![k] = "expired"]
  /\ cmdTarget' = [cmdTarget EXCEPT ![k] = 0]
  /\ UNCHANGED <<runner, streams, handlers, ordered, rows, created>>

(* A Workspace is being created: Assignments are held back. *)
Creating == \E k \in Commands : KindOf(k) = "create" /\ cmdState[k] \in Live

Candidates == {k \in Commands : /\ cmdState[k] = "pending"
                                /\ KindOf(k) = "assignment" => ~Creating}

(* Reconciliation first, then in the order of insertion. *)
Before(j, k) == \/ j[1] = "reconcile" /\ k[1] = "command"
                \/ j[1] = k[1] /\ j[2] < k[2]

(* ClaimCommands takes a batch of them, in that order ... *)
Queues ==
  {q \in UNION {[1..n -> Candidates] : n \in 1..CommandBatchSize} :
     /\ \A i, j \in DOMAIN q : i < j => Before(q[i], q[j])
     /\ \A k \in Candidates :
          \/ \E i \in DOMAIN q : q[i] = k
          \/ Len(q) = CommandBatchSize /\ \A i \in DOMAIN q : Before(q[i], k)}

Among(q, n) == {q[i] : i \in 1..n}

(* ... and numbers it for connection c. *)
Claim(c, q) ==
  /\ phase[c] = "registered" /\ ~failed[c] /\ pump[c] = <<>> /\ Active(c)
  /\ lastControl' = [lastControl EXCEPT ![c] = @ + Len(q)]
  /\ cmdTarget' = [k \in Commands |-> IF k \in Among(q, Len(q)) THEN c ELSE cmdTarget[k]]

(* The frames of the first n of them. *)
Frames(c, q, n) == [i \in 1..n |-> [seq |-> lastControl[c] + i, cmd |-> q[i]]]

SendCommands(c) ==
  /\ \E q \in Queues :
       /\ Claim(c, q)
       /\ cmdState' = [k \in Commands |->
            IF k \in Among(q, Len(q)) THEN "delivering" ELSE cmdState[k]]
       /\ pump' = [pump EXCEPT ![c] = q]
       /\ down' = [down EXCEPT ![c] = IF broken[c] THEN @ ELSE @ \o Frames(c, q, Len(q))]
  /\ UNCHANGED <<runner, up, broken, wire, phase, window, batch, single, failed,
                 ordered, cstate, rowConn, rowState, created, bounds>>

(* The stream breaks under the n+1st: the commands sent before it are      *)
(* marked, if its context still allows that.                               *)
SendFails(c) ==
  /\ ~broken[c] /\ Fault
  /\ broken' = [broken EXCEPT ![c] = TRUE]
  /\ \E q \in Queues : \E n, marked \in 0..(Len(q) - 1) :
       /\ Claim(c, q)
       /\ marked \in {0, n}
       /\ down' = [down EXCEPT ![c] = @ \o Frames(c, q, n)]
       /\ cmdState' = [k \in Commands |->
            IF k \in Among(q, marked) THEN "delivered"
            ELSE IF k \in Among(q, Len(q)) THEN "delivering" ELSE cmdState[k]]
  /\ Fail(c)
  /\ UNCHANGED <<runner, up, wire, phase, window, batch, single, pump,
                 ordered, cstate, rowConn, rowState, created>>

(* MarkCommandsDelivered: all of them, or none when one is no longer being *)
(* delivered to this connection, and then the pump fails.                  *)
MarkCommandsDelivered(c) ==
  /\ phase[c] = "registered" /\ ~failed[c] /\ pump[c] # <<>>
  /\ LET sent == {pump[c][i] : i \in 1..Len(pump[c])} IN
       IF \A k \in sent : cmdState[k] = "delivering" /\ cmdTarget[k] = c
         THEN /\ cmdState' = [k \in Commands |-> IF k \in sent THEN "delivered" ELSE cmdState[k]]
              /\ UNCHANGED failed
         ELSE Fail(c) /\ UNCHANGED cmdState
  /\ pump' = [pump EXCEPT ![c] = <<>>]
  /\ UNCHANGED <<runner, streams, phase, window, batch, single,
                 ordered, rows, cmdTarget, created, bounds>>

(* The pump of a superseded connection fails at its next claim. *)
PumpFails(c) ==
  /\ phase[c] = "registered" /\ ~failed[c] /\ pump[c] = <<>> /\ ~Active(c)
  /\ Fail(c)
  /\ UNCHANGED <<runner, streams, phase, window, batch, single, pump,
                 ordered, rows, commands, bounds>>

-----------------------------------------------------------------------------
Reader(c) ==
  \/ OpenConnection(c) \/ RecordRegistration(c) \/ RecordHeartbeat(c)
  \/ collectDurableEventBatch(c) \/ RecordEvents(c) \/ RecordEvent(c)
  \/ CloseConnection(c) \/ GiveUp(c)

Pump(c) == SendCommands(c) \/ MarkCommandsDelivered(c) \/ PumpFails(c)

Loop == Connect \/ Register \/ Serve \/ LoseSession

Work == \E k \in Commands : Finish(k)

Environment ==
  \/ sendInstanceTerminal \/ InsertCommand \/ Restart
  \/ \E k \in Commands : ExpireCommand(k)
  \/ \E c \in Conns : Break(c) \/ PersistFails(c) \/ SendFails(c) \/ Crash(c) \/ Replay(c)

Next == Loop \/ Work \/ Environment \/ \E c \in Conns : Reader(c) \/ Pump(c)

Spec == Init /\ [][Next]_vars

(* The Runner's loop and what it started, and of every handler the reader  *)
(* and the pump, are goroutines that get to run.                           *)
Fairness == /\ WF_vars(Loop) /\ WF_vars(Work)
            /\ \A c \in Conns : WF_vars(Reader(c)) /\ WF_vars(Pump(c))
LiveSpec == Spec /\ Fairness

-----------------------------------------------------------------------------
(* Properties. *)

TypeOK ==
  /\ dialled \in 0..MaxConn /\ rconn \in 0..MaxConn
  /\ rphase \in {"idle", "hello", "serving"} /\ sequence \in Nat
  /\ running \subseteq Commands
  /\ \A c \in Conns : /\ up[c] \in Seq([seq : Nat,
                                        kind : {"registration", "heartbeat", "result", "terminal"},
                                        cmd : Commands \cup {NoCommand}])
                       /\ down[c] \in Seq([seq : Nat, cmd : Commands \cup {NoCommand}])
                       /\ Len(window[c]) <= Window /\ Len(batch[c]) <= EventBatchSize
                       /\ Len(pump[c]) <= CommandBatchSize
  /\ cmdState \in [Commands -> Live \cup {"absent", "acknowledged", "expired"}]
  /\ cmdTarget \in [Commands -> 0..MaxConn]
  /\ \A c, d \in Conns : Active(c) /\ Active(d) => c = d

(* The number of the last message sent on c.                               *)
Sent(c) == IF wire[c] = <<>> THEN 0 ELSE wire[c][Len(wire[c])].seq

(* The messages PostgreSQL records are a log of sessions (EventLog).       *)
Recorded == INSTANCE EventLog WITH
  sent    <- [c \in Conns |-> Sent(c)],
  opened  <- {c \in Conns : cstate[c] # "none"},
  current <- {c \in Conns : Active(c)},
  last    <- lastSeq

(* What beginOrderedMessage and RecordEvents record, for all the           *)
(* connections together, is one such log: while replicas still serve       *)
(* connections the Runner left, no message enters it twice, out of order,  *)
(* or after a later connection was opened.                                 *)
RecordsALog == Recorded!Spec

(* A connection that PostgreSQL calls active and the Runner's row names    *)
(* leaves the Runner schedulable, as far as the opening and the closing of *)
(* connections go: the late CloseConnection of an earlier one does not     *)
(* take it offline.  (A Runner that the reconciler finds lost, or that     *)
(* drains and says so in its heartbeats, is outside this model.)           *)
CurrentStaysReady == \A c \in Conns : Active(c) /\ rowConn = c => rowState = "ready"

(* The command frames of the connection the Runner serves are ones its     *)
(* accept takes: numbered upwards, no command twice, and the first one is  *)
(* the reconciliation of this connection.                                  *)
CommandsAcceptable ==
  rphase = "serving" =>
    /\ \A i \in 1..Len(down[rconn]) :
         /\ ~Reordered(down[rconn][i])
         /\ \A j \in 1..(i - 1) : /\ down[rconn][j].seq < down[rconn][i].seq
                                  /\ down[rconn][j].cmd # down[rconn][i].cmd
    /\ \A f \in accepted \cup {down[rconn][i] : i \in 1..Len(down[rconn])} :
         f.seq = 1 <=> f.cmd = <<"reconcile", rconn>>

Settled == \A k \in Commands : cmdState[k] \notin Live

(* Once connections stop failing, every command the control plane inserted *)
(* is acknowledged or given up, whatever the pump, OpenConnection and      *)
(* MarkCommandsDelivered did with it on the way, and the Runner is         *)
(* schedulable.                                                            *)
CommandsSettle == <>[](Settled /\ rowState = "ready")

=============================================================================
