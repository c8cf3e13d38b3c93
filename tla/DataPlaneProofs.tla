-------------------------- MODULE DataPlaneProofs --------------------------
(***************************************************************************)
(* Proofs about the data plane, for any number of sessions and requests    *)
(* and any number of faults: the guest work of a session starts at most    *)
(* once, a session that ended has none left unless its Runner was lost, an *)
(* outcome once recorded is final, and no route outlives its handler.      *)
(***************************************************************************)
EXTENDS DataPlane, TLAPS

Elems(q) == {q[i] : i \in DOMAIN q}

(* What a sequence holds is of its element type.                           *)
LEMMA ElemsIn ==
  ASSUME NEW S, NEW q \in Seq(S)
  PROVE  Elems(q) \subseteq S
  BY DEF Elems

(* Taking the head of a queue: it was in the queue, and nothing is added.  *)
LEMMA HeadIn ==
  ASSUME NEW S, NEW q \in Seq(S), q # <<>>
  PROVE  /\ Head(q) \in S /\ Head(q) \in Elems(q) /\ Tail(q) \in Seq(S)
         /\ Elems(Tail(q)) \subseteq Elems(q)
  <1>1. Head(q) = q[1] /\ 1 \in DOMAIN q /\ Tail(q) \in Seq(S) /\ q[1] \in S
    OBVIOUS
  <1>2. \A i \in DOMAIN Tail(q) : i + 1 \in DOMAIN q /\ Tail(q)[i] = q[i + 1]
    OBVIOUS
  <1>3. Elems(Tail(q)) \subseteq Elems(q)
    BY <1>2, Zenon DEF Elems
  <1>. QED BY <1>1, <1>3, Zenon DEF Elems

(* Appending to a queue adds only the appended element.                    *)
LEMMA AppendIn ==
  ASSUME NEW S, NEW q \in Seq(S), NEW x \in S
  PROVE  Append(q, x) \in Seq(S) /\ Elems(Append(q, x)) \subseteq Elems(q) \cup {x}
  <1>1. Append(q, x) \in Seq(S)
    OBVIOUS
  <1>2. Elems(Append(q, x)) \subseteq Elems(q) \cup {x}
    BY DEF Elems
  <1>. QED BY <1>1, <1>2

(* So does appending it several times.                                     *)
LEMMA RepeatIn ==
  ASSUME NEW S, NEW q \in Seq(S), NEW x \in S, NEW n \in Nat
  PROVE  /\ q \o [i \in 1..n |-> x] \in Seq(S)
         /\ Elems(q \o [i \in 1..n |-> x]) \subseteq Elems(q) \cup {x}
  <1>. DEFINE c == [i \in 1..n |-> x]
  <1>1. c \in Seq(S) /\ Len(c) = n /\ \A i \in 1..n : c[i] = x
    OBVIOUS
  <1>. HIDE DEF c
  <1>2. q \o c \in Seq(S)
    BY <1>1
  <1>3. ASSUME NEW i \in DOMAIN (q \o c) PROVE (q \o c)[i] \in Elems(q) \cup {x}
    <2>1. i \in 1 .. Len(q) + n /\ Len(q) \in Nat
      BY <1>1
    <2>2. CASE i <= Len(q)
      <3>1. (q \o c)[i] = q[i] /\ i \in DOMAIN q
        BY <1>1, <2>1, <2>2
      <3>. QED BY <3>1, Zenon DEF Elems
    <2>3. CASE i > Len(q)
      <3>1. (q \o c)[i] = c[i - Len(q)] /\ i - Len(q) \in 1..n
        BY <1>1, <2>1, <2>3
      <3>. QED BY <1>1, <3>1, Zenon
    <2>. QED BY <2>1, <2>2, <2>3
  <1>4. Elems(q \o c) \subseteq Elems(q) \cup {x}
    BY <1>3, Zenon DEF Elems
  <1>. QED BY <1>2, <1>4, Zenon DEF c

(* A frame put on the stream is appended, or lost with it.                 *)
LEMMA PutIn ==
  ASSUME NEW S, NEW q \in Seq(S), NEW x \in S
  PROVE  Put(q, x) \in Seq(S) /\ Elems(Put(q, x)) \subseteq Elems(q) \cup {x}
  <1>1. Put(q, x) = q \/ Put(q, x) = Append(q, x)
    BY Zenon DEF Put
  <1>2. Append(q, x) \in Seq(S) /\ Elems(Append(q, x)) \subseteq Elems(q) \cup {x}
    BY AppendIn, Zenon
  <1>. HIDE DEF Elems
  <1>. QED BY <1>1, <1>2

(* The empty queue holds nothing.                                          *)
LEMMA EmptyIn ==
  ASSUME NEW S
  PROVE  <<>> \in Seq(S) /\ Elems(<<>>) = {}
  <1>1. <<>> \in Seq(S)
    BY ONLY TRUE
  <1>2. Elems(<<>>) = {}
    BY DEF Elems
  <1>. QED BY <1>1, <1>2

-----------------------------------------------------------------------------
(***************************************************************************)
(* The inductive invariant.                                                *)
(***************************************************************************)
Terminals == {"DONE", "FAILED", "CANCELLED", "DEADLINE"}
RowStates == {"none", "pending", "running", "cancelling", "completed", "failed"}
RowTypes == [state : RowStates, kind : Terminals \cup {"none", "LOST"}]
Anybody == Requests \cup {Nobody}
Pcs == {"new", "wait", "watch", "connect", "attach", "start", "dial", "verdict", "open", "serve", "ask",
        "asked", "cancel", "record", "complete", "leave", "abort", "done"}
RequestTypes == [pc : Pcs, seen : RowStates, next : Nat, inbox : Terminals \cup {"none"}, open : BOOLEAN]
FrameKinds == {"open", "input", "cancel", "register", "command", "admission"}
FrameTypes == [type : FrameKinds, s : Sessions, seq : Nat, by : Anybody]
ReportTypes == [type : {"terminal", "consume"}, s : Sessions, kind : Terminals \cup {"none"}, by : Anybody]
OpStages == {"none", "upload", "run", "done"}
OpTypes == [stage : OpStages, next : Nat, last : FrameTypes \cup {NoFrame}, via : Nat,
            stop : BOOLEAN, confirm : BOOLEAN, kind : Terminals \cup {"none"}]
TcpStages == {"none", "consuming", "open", "fin", "closing"}
TcpTypes == [reg : BOOLEAN, stage : TcpStages, try : Anybody, by : Anybody,
             down : Seq(FrameTypes), up : Terminals \cup {"none"}]
SetupTypes == [kind : [Sessions -> Kinds], direct : SUBSET Sessions,
               of : [Requests -> Sessions], later : SUBSET Requests]

Types ==
  /\ setup \in SetupTypes
  /\ row \in [Sessions -> RowTypes] /\ clock \in [Sessions -> 0..2]
  /\ assignment \in {"ready", "fencing", "fenced"}
  /\ lease \in BOOLEAN /\ online \in BOOLEAN /\ cut \in BOOLEAN /\ rn \in BOOLEAN /\ live \in BOOLEAN
  /\ request \in [Requests -> RequestTypes] /\ owner \in [Sessions -> Anybody]
  /\ due \subseteq [s : Sessions, late : BOOLEAN]
  /\ conn \in Nat \ {0} /\ cp \in {"bound", "unbound", "off"}
  /\ up \in Seq(ReportTypes) /\ down \in Seq(FrameTypes)
  /\ op \in [Sessions -> OpTypes] /\ (\A s \in Sessions : op[s].via <= conn)
  /\ tcp \in [Sessions -> TcpTypes] /\ (\A s \in Sessions : \A f \in Elems(tcp[s].down) : f.s = s)
  /\ starts \in [Sessions -> Nat]

(* A route or a direct connection is held by a handler of its session.     *)
Away == {"new", "wait", "watch", "connect", "attach", "done"}
RouteInv ==
  \A s \in Sessions, r \in Requests :
    /\ owner[s] = r => Of(r) = s /\ cp = "bound" /\ request[r].pc \notin Away
    /\ tcp[s].by = r => Of(r) = s /\ request[r].pc \notin Away

(* Guest work not begun has no start; none has more than one.              *)
OnceInv ==
  \A s \in Sessions : starts[s] <= 1 /\ (op[s].stage \in {"none", "upload"} => starts[s] = 0)

FenceInv == assignment = "fenced" => ~live

(* A terminal that is on its way, or read, is of an operation that ended.  *)
Over(s) == op[s].stage = "done"
ProofInv ==
  /\ \A m \in Elems(up) : m.type = "terminal" => Over(m.s)
  /\ \A r \in Requests : request[r].inbox # "none" \/ request[r].pc = "complete" => Over(Of(r))
  /\ \A s \in Sessions : tcp[s].up # "none" => Over(s)

(* Nothing that could begin a session's work exists: no operation, no      *)
(* connection that serves one, no Open or admission on its way, and no     *)
(* handler about to send one.                                              *)
Begins(f, s) == f.s = s /\ (f.type = "open" \/ (f.type = "admission" /\ f.seq = 1))
Opens(r) == \/ request[r].pc = "open"
            \/ request[r].pc = "attach" /\ request[r].seen # "pending" /\ ~Direct(Of(r))
Unbegun(s) ==
  /\ op[s].stage \in {"none", "done"} /\ tcp[s].stage \in {"none", "consuming"}
  /\ \A f \in Elems(down) : ~Begins(f, s)
  /\ \A r \in Requests : Of(r) = s => ~Opens(r)
BeginInv ==
  \A s \in Sessions :
    /\ State(s) \in {"none", "pending"} => Unbegun(s)
    /\ Ended(s) /\ row[s].kind # "LOST" => Over(s) \/ ~live \/ Unbegun(s)
    /\ \A r \in Requests : Of(r) = s /\ request[r].pc = "wait" => State(s) # "none"

DataPlaneInv == Types /\ RouteInv /\ OnceInv /\ FenceInv /\ ProofInv /\ BeginInv
-----------------------------------------------------------------------------
(* Which actions change which variable.                                    *)

RowStep ==
  \/ \E r \in Requests : WaitExpires(r) \/ StartDataPlaneSession(r) \/ Complete(r)
                         \/ ReceiveExpires(r) \/ RecordCancellation(r) \/ Admit(r)
  \/ \E d \in due : SweepSession(d)
  \/ \E s \in Sessions : FinalizeUnconfirmed(s) \/ CancelSandboxSession(s)
                         \/ CancelPublicDataPlaneSession(s)
  \/ RouteTerminal \/ ConsumeDirectDataPlaneSession \/ CloseConnection

ClockStep ==
  \/ \E s \in Sessions : TimePasses(s)

AssignmentStep ==
  \/ AssignmentFenced \/ StopSandbox

LeaseStep ==
  \/ LeaseEnds

OnlineStep ==
  \/ CloseConnection \/ OpenConnection

RequestStep ==
  \/ \E r \in Requests : Handler(r) \/ Client(r)
  \/ \E s \in Sessions : AdmissionTimesOut(s)
  \/ RouteTerminal \/ Unbind \/ ReceiveAdmission \/ OpenConnection \/ ControlPlaneCrash

OwnerStep ==
  \/ \E r \in Requests : Attach(r) \/ AbortDataPlaneSetup(r) \/ Leave(r)
  \/ Unbind \/ OpenConnection \/ ControlPlaneCrash

DueStep ==
  \/ \E d \in due : SweepSession(d)
  \/ SweepSelect \/ ControlPlaneCrash

ConnStep ==
  \/ OpenConnection

CutStep ==
  \/ RefuseFrame \/ RunnerLosesStream \/ OpenConnection \/ StreamBreaks \/ ControlPlaneCrash

CpStep ==
  \/ Unbind \/ CloseConnection \/ OpenConnection \/ ControlPlaneCrash

RnStep ==
  \/ RefuseFrame \/ RunnerLosesStream \/ OpenConnection

UpStep ==
  \/ \E r \in Requests : ClaimDirect(r)
  \/ \E s \in Sessions, k \in Terminals : Finish(s, k)
  \/ RouteTerminal \/ ConsumeDirectDataPlaneSession \/ Unbind \/ ReceiveFrame
     \/ HandleDataPlaneCancel \/ OpenConnection \/ ControlPlaneCrash

DownStep ==
  \/ \E r \in Requests : SendOpen(r) \/ SendCancel(r) \/ SendInput(r)
  \/ \E s \in Sessions : PumpDirectOpen(s) \/ PumpCancel(s)
  \/ ConsumeDirectDataPlaneSession \/ ReceiveFrame \/ RefuseFrame
     \/ RegisterDirectDataPlaneSession \/ HandleDataPlaneCancel \/ ReceiveAdmission
     \/ RunnerLosesStream \/ OpenConnection

LiveStep ==
  \/ FenceAssignment

OpStep ==
  \/ \E s \in Sessions : DirectReceive(s) \/ DirectServed(s)
  \/ \E s \in Sessions, k \in Terminals : Finish(s, k)
  \/ ReceiveFrame \/ RefuseFrame \/ HandleDataPlaneCancel \/ RunnerLosesStream \/ FenceAssignment

TcpStep ==
  \/ \E r \in Requests : SendOpen(r) \/ AbortDataPlaneSetup(r) \/ Leave(r) \/ SendCancel(r)
                         \/ ClaimDirect(r) \/ SendInput(r)
  \/ \E s \in Sessions : AdmissionTimesOut(s) \/ DirectReceive(s) \/ DirectBreaks(s)
                         \/ DirectServed(s)
  \/ \E s \in Sessions, k \in Terminals : Finish(s, k)
  \/ RefuseFrame \/ RegisterDirectDataPlaneSession \/ HandleDataPlaneCancel \/ ReceiveAdmission
     \/ RunnerLosesStream \/ FenceAssignment \/ ControlPlaneCrash

StartsStep ==
  \/ \E s \in Sessions : DirectReceive(s)
  \/ ReceiveFrame

(* What a handler and its client leave alone.                              *)
LEMMA RequestKeeps ==
  ASSUME NEW r \in Requests, Handler(r) \/ Client(r)
  PROVE  UNCHANGED <<setup, clock, assignment, lease, online, due, conn, cut, cp, rn, live, op, starts>>
  <1>1. CASE WaitEnds(r) \/ WaitExpires(r) \/ Attach(r) \/ StartDataPlaneSession(r) \/ SendOpen(r)
    BY <1>1, Zenon DEF WaitEnds, WaitExpires, Attach, StartDataPlaneSession, SendOpen, rows,
        plane, wire, runner
  <1>2. CASE AbortDataPlaneSetup(r) \/ Leave(r) \/ ReceiveTerminal(r) \/ Complete(r) \/ ReceiveExpires(r)
    BY <1>2, Zenon DEF AbortDataPlaneSetup, Leave, ReceiveTerminal, Complete, ReceiveExpires,
        rows, plane, wire, runner
  <1>3. CASE ReceiveFails(r) \/ SendCancel(r) \/ RecordCancellation(r) \/ ClaimDirect(r) \/ DenyDirect(r)
    BY <1>3, Zenon DEF ReceiveFails, SendCancel, RecordCancellation, ClaimDirect, DenyDirect,
        rows, plane, wire, runner
  <1>4. CASE Admit(r) \/ Replay(r) \/ Connect(r) \/ SendInput(r) \/ ClientGone(r) \/ ClientCancels(r)
    BY <1>4, Zenon DEF Admit, Replay, Connect, SendInput, ClientGone, ClientCancels, rows,
        plane, wire, runner
  <1>. QED BY <1>1, <1>2, <1>3, <1>4, Zenon DEF Handler, Client

(* The operations of a behaviour are fixed.                                *)
LEMMA SetupKept ==
  ASSUME [Next]_vars
  PROVE  setup' = setup
  <1>1. CASE \E r \in Requests : Handler(r)
    BY <1>1, RequestKeeps, Zenon
  <1>2. CASE \E r \in Requests : Client(r)
    BY <1>2, RequestKeeps, Zenon
  <1>3. CASE Sweeper
    BY <1>3, Zenon DEF Sweeper, SweepSelect, SweepSession, FinalizeUnconfirmed, rows, plane,
        wire, runner
  <1>4. CASE ControlConnection
    BY <1>4, Zenon DEF ControlConnection, RouteTerminal, ConsumeDirectDataPlaneSession, Unbind,
        CloseConnection, PumpDirectOpen, PumpCancel, rows, plane, wire, runner
  <1>5. CASE RunnerConnection
    BY <1>5, Zenon DEF RunnerConnection, ReceiveFrame, RefuseFrame,
        RegisterDirectDataPlaneSession, HandleDataPlaneCancel, ReceiveAdmission, RunnerLosesStream,
        OpenConnection, FenceAssignment, AssignmentFenced, LeaveSession, rows, plane, wire, runner
  <1>6. CASE Environment
    BY <1>6, Zenon DEF Environment, StreamBreaks, ControlPlaneCrash, StopSandbox, LeaseEnds,
        TimePasses, CancelSandboxSession, CancelPublicDataPlaneSession, rows, plane, wire, runner
  <1>7. CASE \E s \in Sessions : RunnerWork(s)
    BY <1>7, Zenon DEF RunnerWork, AdmissionTimesOut, DirectReceive, DirectBreaks, DirectServed,
        Finish, rows, plane, wire, runner
  <1>8. CASE UNCHANGED vars
    BY <1>8, Zenon DEF vars, rows, plane, wire, runner
  <1>. QED BY <1>1, <1>2, <1>3, <1>4, <1>5, <1>6, <1>7, <1>8, Zenon DEF Next

LEMMA RowFrame ==
  ASSUME [Next]_vars
  PROVE  row' = row \/ RowStep
  <1>1. ASSUME NEW r \in Requests, Handler(r) PROVE row' = row \/ RowStep
    <2>1. CASE WaitEnds(r) \/ WaitExpires(r) \/ Attach(r) \/ StartDataPlaneSession(r) \/ SendOpen(r)
      BY <2>1, Zenon DEF RowStep, WaitEnds, Attach, SendOpen, rows, plane, wire, runner
    <2>2. CASE AbortDataPlaneSetup(r) \/ Leave(r) \/ ReceiveTerminal(r) \/ Complete(r) \/ ReceiveExpires(r)
      BY <2>2, Zenon DEF RowStep, AbortDataPlaneSetup, Leave, ReceiveTerminal, rows, plane,
          wire, runner
    <2>3. CASE ReceiveFails(r) \/ SendCancel(r) \/ RecordCancellation(r) \/ ClaimDirect(r) \/ DenyDirect(r)
      BY <2>3, Zenon DEF RowStep, ReceiveFails, SendCancel, ClaimDirect, DenyDirect, rows,
          plane, wire, runner
    <2>. QED BY <1>1, <2>1, <2>2, <2>3, Zenon DEF Handler
  <1>2. CASE \E r \in Requests : Client(r)
    BY <1>2, Zenon DEF RowStep, Client, Replay, Connect, SendInput, ClientGone, ClientCancels,
        rows, plane, wire, runner
  <1>3. CASE Sweeper
    BY <1>3, Zenon DEF RowStep, Sweeper, SweepSelect, rows, plane, wire, runner
  <1>4. CASE ControlConnection
    BY <1>4, Zenon DEF RowStep, ControlConnection, Unbind, PumpDirectOpen, PumpCancel, rows,
        plane, wire, runner
  <1>5. CASE RunnerConnection
    BY <1>5, Zenon DEF RowStep, RunnerConnection, ReceiveFrame, RefuseFrame,
        RegisterDirectDataPlaneSession, HandleDataPlaneCancel, ReceiveAdmission, RunnerLosesStream,
        OpenConnection, FenceAssignment, AssignmentFenced, LeaveSession, rows, plane, wire, runner
  <1>6. CASE Environment
    BY <1>6, Zenon DEF RowStep, Environment, StreamBreaks, ControlPlaneCrash, StopSandbox,
        LeaseEnds, TimePasses, rows, plane, wire, runner
  <1>7. CASE \E s \in Sessions : RunnerWork(s)
    BY <1>7, Zenon DEF RowStep, RunnerWork, AdmissionTimesOut, DirectReceive, DirectBreaks,
        DirectServed, Finish, rows, plane, wire, runner
  <1>8. CASE UNCHANGED vars
    BY <1>8, Zenon DEF vars, rows, plane, wire, runner
  <1>. QED BY <1>1, <1>2, <1>3, <1>4, <1>5, <1>6, <1>7, <1>8, Zenon DEF Next

LEMMA ClockFrame ==
  ASSUME [Next]_vars
  PROVE  clock' = clock \/ ClockStep
  <1>1. CASE \E r \in Requests : Handler(r)
    BY <1>1, RequestKeeps, Zenon
  <1>2. CASE \E r \in Requests : Client(r)
    BY <1>2, RequestKeeps, Zenon
  <1>3. CASE Sweeper
    BY <1>3, Zenon DEF ClockStep, Sweeper, SweepSelect, SweepSession, FinalizeUnconfirmed, rows,
        plane, wire, runner
  <1>4. CASE ControlConnection
    BY <1>4, Zenon DEF ClockStep, ControlConnection, RouteTerminal,
        ConsumeDirectDataPlaneSession, Unbind, CloseConnection, PumpDirectOpen, PumpCancel, rows,
        plane, wire, runner
  <1>5. CASE RunnerConnection
    BY <1>5, Zenon DEF ClockStep, RunnerConnection, ReceiveFrame, RefuseFrame,
        RegisterDirectDataPlaneSession, HandleDataPlaneCancel, ReceiveAdmission, RunnerLosesStream,
        OpenConnection, FenceAssignment, AssignmentFenced, LeaveSession, rows, plane, wire, runner
  <1>6. CASE Environment
    BY <1>6, Zenon DEF ClockStep, Environment, StreamBreaks, ControlPlaneCrash, StopSandbox,
        LeaseEnds, CancelSandboxSession, CancelPublicDataPlaneSession, rows, plane, wire, runner
  <1>7. CASE \E s \in Sessions : RunnerWork(s)
    BY <1>7, Zenon DEF ClockStep, RunnerWork, AdmissionTimesOut, DirectReceive, DirectBreaks,
        DirectServed, Finish, rows, plane, wire, runner
  <1>8. CASE UNCHANGED vars
    BY <1>8, Zenon DEF vars, rows, plane, wire, runner
  <1>. QED BY <1>1, <1>2, <1>3, <1>4, <1>5, <1>6, <1>7, <1>8, Zenon DEF Next

LEMMA AssignmentFrame ==
  ASSUME [Next]_vars
  PROVE  assignment' = assignment \/ AssignmentStep
  <1>1. CASE \E r \in Requests : Handler(r)
    BY <1>1, RequestKeeps, Zenon
  <1>2. CASE \E r \in Requests : Client(r)
    BY <1>2, RequestKeeps, Zenon
  <1>3. CASE Sweeper
    BY <1>3, Zenon DEF AssignmentStep, Sweeper, SweepSelect, SweepSession, FinalizeUnconfirmed,
        rows, plane, wire, runner
  <1>4. CASE ControlConnection
    BY <1>4, Zenon DEF AssignmentStep, ControlConnection, RouteTerminal,
        ConsumeDirectDataPlaneSession, Unbind, CloseConnection, PumpDirectOpen, PumpCancel, rows,
        plane, wire, runner
  <1>5. CASE RunnerConnection
    BY <1>5, Zenon DEF AssignmentStep, RunnerConnection, ReceiveFrame, RefuseFrame,
        RegisterDirectDataPlaneSession, HandleDataPlaneCancel, ReceiveAdmission, RunnerLosesStream,
        OpenConnection, FenceAssignment, LeaveSession, rows, plane, wire, runner
  <1>6. CASE Environment
    BY <1>6, Zenon DEF AssignmentStep, Environment, StreamBreaks, ControlPlaneCrash, LeaseEnds,
        TimePasses, CancelSandboxSession, CancelPublicDataPlaneSession, rows, plane, wire, runner
  <1>7. CASE \E s \in Sessions : RunnerWork(s)
    BY <1>7, Zenon DEF AssignmentStep, RunnerWork, AdmissionTimesOut, DirectReceive,
        DirectBreaks, DirectServed, Finish, rows, plane, wire, runner
  <1>8. CASE UNCHANGED vars
    BY <1>8, Zenon DEF vars, rows, plane, wire, runner
  <1>. QED BY <1>1, <1>2, <1>3, <1>4, <1>5, <1>6, <1>7, <1>8, Zenon DEF Next

LEMMA LeaseFrame ==
  ASSUME [Next]_vars
  PROVE  lease' = lease \/ LeaseStep
  <1>1. CASE \E r \in Requests : Handler(r)
    BY <1>1, RequestKeeps, Zenon
  <1>2. CASE \E r \in Requests : Client(r)
    BY <1>2, RequestKeeps, Zenon
  <1>3. CASE Sweeper
    BY <1>3, Zenon DEF LeaseStep, Sweeper, SweepSelect, SweepSession, FinalizeUnconfirmed, rows,
        plane, wire, runner
  <1>4. CASE ControlConnection
    BY <1>4, Zenon DEF LeaseStep, ControlConnection, RouteTerminal,
        ConsumeDirectDataPlaneSession, Unbind, CloseConnection, PumpDirectOpen, PumpCancel, rows,
        plane, wire, runner
  <1>5. CASE RunnerConnection
    BY <1>5, Zenon DEF LeaseStep, RunnerConnection, ReceiveFrame, RefuseFrame,
        RegisterDirectDataPlaneSession, HandleDataPlaneCancel, ReceiveAdmission, RunnerLosesStream,
        OpenConnection, FenceAssignment, AssignmentFenced, LeaveSession, rows, plane, wire, runner
  <1>6. CASE Environment
    BY <1>6, Zenon DEF LeaseStep, Environment, StreamBreaks, ControlPlaneCrash, StopSandbox,
        TimePasses, CancelSandboxSession, CancelPublicDataPlaneSession, rows, plane, wire, runner
  <1>7. CASE \E s \in Sessions : RunnerWork(s)
    BY <1>7, Zenon DEF LeaseStep, RunnerWork, AdmissionTimesOut, DirectReceive, DirectBreaks,
        DirectServed, Finish, rows, plane, wire, runner
  <1>8. CASE UNCHANGED vars
    BY <1>8, Zenon DEF vars, rows, plane, wire, runner
  <1>. QED BY <1>1, <1>2, <1>3, <1>4, <1>5, <1>6, <1>7, <1>8, Zenon DEF Next

LEMMA OnlineFrame ==
  ASSUME [Next]_vars
  PROVE  online' = online \/ OnlineStep
  <1>1. CASE \E r \in Requests : Handler(r)
    BY <1>1, RequestKeeps, Zenon
  <1>2. CASE \E r \in Requests : Client(r)
    BY <1>2, RequestKeeps, Zenon
  <1>3. CASE Sweeper
    BY <1>3, Zenon DEF OnlineStep, Sweeper, SweepSelect, SweepSession, FinalizeUnconfirmed,
        rows, plane, wire, runner
  <1>4. CASE ControlConnection
    BY <1>4, Zenon DEF OnlineStep, ControlConnection, RouteTerminal,
        ConsumeDirectDataPlaneSession, Unbind, PumpDirectOpen, PumpCancel, rows, plane, wire, runner
  <1>5. CASE RunnerConnection
    BY <1>5, Zenon DEF OnlineStep, RunnerConnection, ReceiveFrame, RefuseFrame,
        RegisterDirectDataPlaneSession, HandleDataPlaneCancel, ReceiveAdmission, RunnerLosesStream,
        FenceAssignment, AssignmentFenced, LeaveSession, rows, plane, wire, runner
  <1>6. CASE Environment
    BY <1>6, Zenon DEF OnlineStep, Environment, StreamBreaks, ControlPlaneCrash, StopSandbox,
        LeaseEnds, TimePasses, CancelSandboxSession, CancelPublicDataPlaneSession, rows, plane,
        wire, runner
  <1>7. CASE \E s \in Sessions : RunnerWork(s)
    BY <1>7, Zenon DEF OnlineStep, RunnerWork, AdmissionTimesOut, DirectReceive, DirectBreaks,
        DirectServed, Finish, rows, plane, wire, runner
  <1>8. CASE UNCHANGED vars
    BY <1>8, Zenon DEF vars, rows, plane, wire, runner
  <1>. QED BY <1>1, <1>2, <1>3, <1>4, <1>5, <1>6, <1>7, <1>8, Zenon DEF Next

LEMMA RequestFrame ==
  ASSUME [Next]_vars
  PROVE  request' = request \/ RequestStep
  <1>1. CASE \E r \in Requests : Handler(r)
    BY <1>1, Zenon DEF RequestStep
  <1>2. CASE \E r \in Requests : Client(r)
    BY <1>2, Zenon DEF RequestStep
  <1>3. CASE Sweeper
    BY <1>3, Zenon DEF RequestStep, Sweeper, SweepSelect, SweepSession, FinalizeUnconfirmed,
        rows, plane, wire, runner
  <1>4. CASE ControlConnection
    BY <1>4, Zenon DEF RequestStep, ControlConnection, ConsumeDirectDataPlaneSession,
        CloseConnection, PumpDirectOpen, PumpCancel, rows, plane, wire, runner
  <1>5. CASE RunnerConnection
    BY <1>5, Zenon DEF RequestStep, RunnerConnection, ReceiveFrame, RefuseFrame,
        RegisterDirectDataPlaneSession, HandleDataPlaneCancel, RunnerLosesStream, FenceAssignment,
        AssignmentFenced, LeaveSession, rows, plane, wire, runner
  <1>6. CASE Environment
    BY <1>6, Zenon DEF RequestStep, Environment, StreamBreaks, StopSandbox, LeaseEnds,
        TimePasses, CancelSandboxSession, CancelPublicDataPlaneSession, rows, plane, wire, runner
  <1>7. CASE \E s \in Sessions : RunnerWork(s)
    BY <1>7, Zenon DEF RequestStep, RunnerWork, DirectReceive, DirectBreaks, DirectServed,
        Finish, rows, plane, wire, runner
  <1>8. CASE UNCHANGED vars
    BY <1>8, Zenon DEF vars, rows, plane, wire, runner
  <1>. QED BY <1>1, <1>2, <1>3, <1>4, <1>5, <1>6, <1>7, <1>8, Zenon DEF Next

LEMMA OwnerFrame ==
  ASSUME [Next]_vars
  PROVE  owner' = owner \/ OwnerStep
  <1>1. ASSUME NEW r \in Requests, Handler(r) PROVE owner' = owner \/ OwnerStep
    <2>1. CASE WaitEnds(r) \/ WaitExpires(r) \/ Attach(r) \/ StartDataPlaneSession(r) \/ SendOpen(r)
      BY <2>1, Zenon DEF OwnerStep, WaitEnds, WaitExpires, StartDataPlaneSession, SendOpen,
          rows, plane, wire, runner
    <2>2. CASE AbortDataPlaneSetup(r) \/ Leave(r) \/ ReceiveTerminal(r) \/ Complete(r) \/ ReceiveExpires(r)
      BY <2>2, Zenon DEF OwnerStep, ReceiveTerminal, Complete, ReceiveExpires, rows, plane,
          wire, runner
    <2>3. CASE ReceiveFails(r) \/ SendCancel(r) \/ RecordCancellation(r) \/ ClaimDirect(r) \/ DenyDirect(r)
      BY <2>3, Zenon DEF OwnerStep, ReceiveFails, SendCancel, RecordCancellation, ClaimDirect,
          DenyDirect, rows, plane, wire, runner
    <2>. QED BY <1>1, <2>1, <2>2, <2>3, Zenon DEF Handler
  <1>2. CASE \E r \in Requests : Client(r)
    BY <1>2, Zenon DEF OwnerStep, Client, Admit, Replay, Connect, SendInput, ClientGone,
        ClientCancels, rows, plane, wire, runner
  <1>3. CASE Sweeper
    BY <1>3, Zenon DEF OwnerStep, Sweeper, SweepSelect, SweepSession, FinalizeUnconfirmed, rows,
        plane, wire, runner
  <1>4. CASE ControlConnection
    BY <1>4, Zenon DEF OwnerStep, ControlConnection, RouteTerminal,
        ConsumeDirectDataPlaneSession, CloseConnection, PumpDirectOpen, PumpCancel, rows, plane,
        wire, runner
  <1>5. CASE RunnerConnection
    BY <1>5, Zenon DEF OwnerStep, RunnerConnection, ReceiveFrame, RefuseFrame,
        RegisterDirectDataPlaneSession, HandleDataPlaneCancel, ReceiveAdmission, RunnerLosesStream,
        FenceAssignment, AssignmentFenced, LeaveSession, rows, plane, wire, runner
  <1>6. CASE Environment
    BY <1>6, Zenon DEF OwnerStep, Environment, StreamBreaks, StopSandbox, LeaseEnds, TimePasses,
        CancelSandboxSession, CancelPublicDataPlaneSession, rows, plane, wire, runner
  <1>7. CASE \E s \in Sessions : RunnerWork(s)
    BY <1>7, Zenon DEF OwnerStep, RunnerWork, AdmissionTimesOut, DirectReceive, DirectBreaks,
        DirectServed, Finish, rows, plane, wire, runner
  <1>8. CASE UNCHANGED vars
    BY <1>8, Zenon DEF vars, rows, plane, wire, runner
  <1>. QED BY <1>1, <1>2, <1>3, <1>4, <1>5, <1>6, <1>7, <1>8, Zenon DEF Next

LEMMA DueFrame ==
  ASSUME [Next]_vars
  PROVE  due' = due \/ DueStep
  <1>1. CASE \E r \in Requests : Handler(r)
    BY <1>1, RequestKeeps, Zenon
  <1>2. CASE \E r \in Requests : Client(r)
    BY <1>2, RequestKeeps, Zenon
  <1>3. CASE Sweeper
    BY <1>3, Zenon DEF DueStep, Sweeper, FinalizeUnconfirmed, rows, plane, wire, runner
  <1>4. CASE ControlConnection
    BY <1>4, Zenon DEF DueStep, ControlConnection, RouteTerminal, ConsumeDirectDataPlaneSession,
        Unbind, CloseConnection, PumpDirectOpen, PumpCancel, rows, plane, wire, runner
  <1>5. CASE RunnerConnection
    BY <1>5, Zenon DEF DueStep, RunnerConnection, ReceiveFrame, RefuseFrame,
        RegisterDirectDataPlaneSession, HandleDataPlaneCancel, ReceiveAdmission, RunnerLosesStream,
        OpenConnection, FenceAssignment, AssignmentFenced, LeaveSession, rows, plane, wire, runner
  <1>6. CASE Environment
    BY <1>6, Zenon DEF DueStep, Environment, StreamBreaks, StopSandbox, LeaseEnds, TimePasses,
        CancelSandboxSession, CancelPublicDataPlaneSession, rows, plane, wire, runner
  <1>7. CASE \E s \in Sessions : RunnerWork(s)
    BY <1>7, Zenon DEF DueStep, RunnerWork, AdmissionTimesOut, DirectReceive, DirectBreaks,
        DirectServed, Finish, rows, plane, wire, runner
  <1>8. CASE UNCHANGED vars
    BY <1>8, Zenon DEF vars, rows, plane, wire, runner
  <1>. QED BY <1>1, <1>2, <1>3, <1>4, <1>5, <1>6, <1>7, <1>8, Zenon DEF Next

LEMMA ConnFrame ==
  ASSUME [Next]_vars
  PROVE  conn' = conn \/ ConnStep
  <1>1. CASE \E r \in Requests : Handler(r)
    BY <1>1, RequestKeeps, Zenon
  <1>2. CASE \E r \in Requests : Client(r)
    BY <1>2, RequestKeeps, Zenon
  <1>3. CASE Sweeper
    BY <1>3, Zenon DEF ConnStep, Sweeper, SweepSelect, SweepSession, FinalizeUnconfirmed, rows,
        plane, wire, runner
  <1>4. CASE ControlConnection
    BY <1>4, Zenon DEF ConnStep, ControlConnection, RouteTerminal,
        ConsumeDirectDataPlaneSession, Unbind, CloseConnection, PumpDirectOpen, PumpCancel, rows,
        plane, wire, runner
  <1>5. CASE RunnerConnection
    BY <1>5, Zenon DEF ConnStep, RunnerConnection, ReceiveFrame, RefuseFrame,
        RegisterDirectDataPlaneSession, HandleDataPlaneCancel, ReceiveAdmission, RunnerLosesStream,
        FenceAssignment, AssignmentFenced, LeaveSession, rows, plane, wire, runner
  <1>6. CASE Environment
    BY <1>6, Zenon DEF ConnStep, Environment, StreamBreaks, ControlPlaneCrash, StopSandbox,
        LeaseEnds, TimePasses, CancelSandboxSession, CancelPublicDataPlaneSession, rows, plane,
        wire, runner
  <1>7. CASE \E s \in Sessions : RunnerWork(s)
    BY <1>7, Zenon DEF ConnStep, RunnerWork, AdmissionTimesOut, DirectReceive, DirectBreaks,
        DirectServed, Finish, rows, plane, wire, runner
  <1>8. CASE UNCHANGED vars
    BY <1>8, Zenon DEF vars, rows, plane, wire, runner
  <1>. QED BY <1>1, <1>2, <1>3, <1>4, <1>5, <1>6, <1>7, <1>8, Zenon DEF Next

LEMMA CutFrame ==
  ASSUME [Next]_vars
  PROVE  cut' = cut \/ CutStep
  <1>1. CASE \E r \in Requests : Handler(r)
    BY <1>1, RequestKeeps, Zenon
  <1>2. CASE \E r \in Requests : Client(r)
    BY <1>2, RequestKeeps, Zenon
  <1>3. CASE Sweeper
    BY <1>3, Zenon DEF CutStep, Sweeper, SweepSelect, SweepSession, FinalizeUnconfirmed, rows,
        plane, wire, runner
  <1>4. CASE ControlConnection
    BY <1>4, Zenon DEF CutStep, ControlConnection, RouteTerminal, ConsumeDirectDataPlaneSession,
        Unbind, CloseConnection, PumpDirectOpen, PumpCancel, rows, plane, wire, runner
  <1>5. CASE RunnerConnection
    BY <1>5, Zenon DEF CutStep, RunnerConnection, ReceiveFrame, RegisterDirectDataPlaneSession,
        HandleDataPlaneCancel, ReceiveAdmission, FenceAssignment, AssignmentFenced, rows, plane,
        wire, runner
  <1>6. CASE Environment
    BY <1>6, Zenon DEF CutStep, Environment, StopSandbox, LeaseEnds, TimePasses,
        CancelSandboxSession, CancelPublicDataPlaneSession, rows, plane, wire, runner
  <1>7. CASE \E s \in Sessions : RunnerWork(s)
    BY <1>7, Zenon DEF CutStep, RunnerWork, AdmissionTimesOut, DirectReceive, DirectBreaks,
        DirectServed, Finish, rows, plane, wire, runner
  <1>8. CASE UNCHANGED vars
    BY <1>8, Zenon DEF vars, rows, plane, wire, runner
  <1>. QED BY <1>1, <1>2, <1>3, <1>4, <1>5, <1>6, <1>7, <1>8, Zenon DEF Next

LEMMA CpFrame ==
  ASSUME [Next]_vars
  PROVE  cp' = cp \/ CpStep
  <1>1. CASE \E r \in Requests : Handler(r)
    BY <1>1, RequestKeeps, Zenon
  <1>2. CASE \E r \in Requests : Client(r)
    BY <1>2, RequestKeeps, Zenon
  <1>3. CASE Sweeper
    BY <1>3, Zenon DEF CpStep, Sweeper, SweepSelect, SweepSession, FinalizeUnconfirmed, rows,
        plane, wire, runner
  <1>4. CASE ControlConnection
    BY <1>4, Zenon DEF CpStep, ControlConnection, RouteTerminal, ConsumeDirectDataPlaneSession,
        PumpDirectOpen, PumpCancel, rows, plane, wire, runner
  <1>5. CASE RunnerConnection
    BY <1>5, Zenon DEF CpStep, RunnerConnection, ReceiveFrame, RefuseFrame,
        RegisterDirectDataPlaneSession, HandleDataPlaneCancel, ReceiveAdmission, RunnerLosesStream,
        FenceAssignment, AssignmentFenced, LeaveSession, rows, plane, wire, runner
  <1>6. CASE Environment
    BY <1>6, Zenon DEF CpStep, Environment, StreamBreaks, StopSandbox, LeaseEnds, TimePasses,
        CancelSandboxSession, CancelPublicDataPlaneSession, rows, plane, wire, runner
  <1>7. CASE \E s \in Sessions : RunnerWork(s)
    BY <1>7, Zenon DEF CpStep, RunnerWork, AdmissionTimesOut, DirectReceive, DirectBreaks,
        DirectServed, Finish, rows, plane, wire, runner
  <1>8. CASE UNCHANGED vars
    BY <1>8, Zenon DEF vars, rows, plane, wire, runner
  <1>. QED BY <1>1, <1>2, <1>3, <1>4, <1>5, <1>6, <1>7, <1>8, Zenon DEF Next

LEMMA RnFrame ==
  ASSUME [Next]_vars
  PROVE  rn' = rn \/ RnStep
  <1>1. CASE \E r \in Requests : Handler(r)
    BY <1>1, RequestKeeps, Zenon
  <1>2. CASE \E r \in Requests : Client(r)
    BY <1>2, RequestKeeps, Zenon
  <1>3. CASE Sweeper
    BY <1>3, Zenon DEF RnStep, Sweeper, SweepSelect, SweepSession, FinalizeUnconfirmed, rows,
        plane, wire, runner
  <1>4. CASE ControlConnection
    BY <1>4, Zenon DEF RnStep, ControlConnection, RouteTerminal, ConsumeDirectDataPlaneSession,
        Unbind, CloseConnection, PumpDirectOpen, PumpCancel, rows, plane, wire, runner
  <1>5. CASE RunnerConnection
    BY <1>5, Zenon DEF RnStep, RunnerConnection, ReceiveFrame, RegisterDirectDataPlaneSession,
        HandleDataPlaneCancel, ReceiveAdmission, FenceAssignment, AssignmentFenced, rows, plane,
        wire, runner
  <1>6. CASE Environment
    BY <1>6, Zenon DEF RnStep, Environment, StreamBreaks, ControlPlaneCrash, StopSandbox,
        LeaseEnds, TimePasses, CancelSandboxSession, CancelPublicDataPlaneSession, rows, plane,
        wire, runner
  <1>7. CASE \E s \in Sessions : RunnerWork(s)
    BY <1>7, Zenon DEF RnStep, RunnerWork, AdmissionTimesOut, DirectReceive, DirectBreaks,
        DirectServed, Finish, rows, plane, wire, runner
  <1>8. CASE UNCHANGED vars
    BY <1>8, Zenon DEF vars, rows, plane, wire, runner
  <1>. QED BY <1>1, <1>2, <1>3, <1>4, <1>5, <1>6, <1>7, <1>8, Zenon DEF Next

LEMMA UpFrame ==
  ASSUME [Next]_vars
  PROVE  up' = up \/ UpStep
  <1>1. ASSUME NEW r \in Requests, Handler(r) PROVE up' = up \/ UpStep
    <2>1. CASE WaitEnds(r) \/ WaitExpires(r) \/ Attach(r) \/ StartDataPlaneSession(r) \/ SendOpen(r)
      BY <2>1, Zenon DEF UpStep, WaitEnds, WaitExpires, Attach, StartDataPlaneSession, SendOpen,
          rows, plane, wire, runner
    <2>2. CASE AbortDataPlaneSetup(r) \/ Leave(r) \/ ReceiveTerminal(r) \/ Complete(r) \/ ReceiveExpires(r)
      BY <2>2, Zenon DEF UpStep, AbortDataPlaneSetup, Leave, ReceiveTerminal, Complete,
          ReceiveExpires, rows, plane, wire, runner
    <2>3. CASE ReceiveFails(r) \/ SendCancel(r) \/ RecordCancellation(r) \/ ClaimDirect(r) \/ DenyDirect(r)
      BY <2>3, Zenon DEF UpStep, ReceiveFails, SendCancel, RecordCancellation, DenyDirect, rows,
          plane, wire, runner
    <2>. QED BY <1>1, <2>1, <2>2, <2>3, Zenon DEF Handler
  <1>2. CASE \E r \in Requests : Client(r)
    BY <1>2, Zenon DEF UpStep, Client, Admit, Replay, Connect, SendInput, ClientGone,
        ClientCancels, rows, plane, wire, runner
  <1>3. CASE Sweeper
    BY <1>3, Zenon DEF UpStep, Sweeper, SweepSelect, SweepSession, FinalizeUnconfirmed, rows,
        plane, wire, runner
  <1>4. CASE ControlConnection
    BY <1>4, Zenon DEF UpStep, ControlConnection, CloseConnection, PumpDirectOpen, PumpCancel,
        rows, plane, wire, runner
  <1>5. CASE RunnerConnection
    BY <1>5, Zenon DEF UpStep, RunnerConnection, RefuseFrame, RegisterDirectDataPlaneSession,
        ReceiveAdmission, RunnerLosesStream, FenceAssignment, AssignmentFenced, LeaveSession, rows,
        plane, wire, runner
  <1>6. CASE Environment
    BY <1>6, Zenon DEF UpStep, Environment, StreamBreaks, StopSandbox, LeaseEnds, TimePasses,
        CancelSandboxSession, CancelPublicDataPlaneSession, rows, plane, wire, runner
  <1>7. CASE \E s \in Sessions : RunnerWork(s)
    BY <1>7, Zenon DEF UpStep, RunnerWork, AdmissionTimesOut, DirectReceive, DirectBreaks,
        DirectServed, Terminals, rows, plane, wire, runner
  <1>8. CASE UNCHANGED vars
    BY <1>8, Zenon DEF vars, rows, plane, wire, runner
  <1>. QED BY <1>1, <1>2, <1>3, <1>4, <1>5, <1>6, <1>7, <1>8, Zenon DEF Next

LEMMA DownFrame ==
  ASSUME [Next]_vars
  PROVE  down' = down \/ DownStep
  <1>1. ASSUME NEW r \in Requests, Handler(r) PROVE down' = down \/ DownStep
    <2>1. CASE WaitEnds(r) \/ WaitExpires(r) \/ Attach(r) \/ StartDataPlaneSession(r) \/ SendOpen(r)
      BY <2>1, Zenon DEF DownStep, WaitEnds, WaitExpires, Attach, StartDataPlaneSession, rows,
          plane, wire, runner
    <2>2. CASE AbortDataPlaneSetup(r) \/ Leave(r) \/ ReceiveTerminal(r) \/ Complete(r) \/ ReceiveExpires(r)
      BY <2>2, Zenon DEF DownStep, AbortDataPlaneSetup, Leave, ReceiveTerminal, Complete,
          ReceiveExpires, rows, plane, wire, runner
    <2>3. CASE ReceiveFails(r) \/ SendCancel(r) \/ RecordCancellation(r) \/ ClaimDirect(r) \/ DenyDirect(r)
      BY <2>3, Zenon DEF DownStep, ReceiveFails, RecordCancellation, ClaimDirect, DenyDirect,
          rows, plane, wire, runner
    <2>. QED BY <1>1, <2>1, <2>2, <2>3, Zenon DEF Handler
  <1>2. CASE \E r \in Requests : Client(r)
    BY <1>2, Zenon DEF DownStep, Client, Admit, Replay, Connect, ClientGone, ClientCancels,
        rows, plane, wire, runner
  <1>3. CASE Sweeper
    BY <1>3, Zenon DEF DownStep, Sweeper, SweepSelect, SweepSession, FinalizeUnconfirmed, rows,
        plane, wire, runner
  <1>4. CASE ControlConnection
    BY <1>4, Zenon DEF DownStep, ControlConnection, RouteTerminal, Unbind, CloseConnection,
        rows, plane, wire, runner
  <1>5. CASE RunnerConnection
    BY <1>5, Zenon DEF DownStep, RunnerConnection, FenceAssignment, AssignmentFenced, rows,
        plane, wire, runner
  <1>6. CASE Environment
    BY <1>6, Zenon DEF DownStep, Environment, StreamBreaks, ControlPlaneCrash, StopSandbox,
        LeaseEnds, TimePasses, CancelSandboxSession, CancelPublicDataPlaneSession, rows, plane,
        wire, runner
  <1>7. CASE \E s \in Sessions : RunnerWork(s)
    BY <1>7, Zenon DEF DownStep, RunnerWork, AdmissionTimesOut, DirectReceive, DirectBreaks,
        DirectServed, Finish, rows, plane, wire, runner
  <1>8. CASE UNCHANGED vars
    BY <1>8, Zenon DEF vars, rows, plane, wire, runner
  <1>. QED BY <1>1, <1>2, <1>3, <1>4, <1>5, <1>6, <1>7, <1>8, Zenon DEF Next

LEMMA LiveFrame ==
  ASSUME [Next]_vars
  PROVE  live' = live \/ LiveStep
  <1>1. CASE \E r \in Requests : Handler(r)
    BY <1>1, RequestKeeps, Zenon
  <1>2. CASE \E r \in Requests : Client(r)
    BY <1>2, RequestKeeps, Zenon
  <1>3. CASE Sweeper
    BY <1>3, Zenon DEF LiveStep, Sweeper, SweepSelect, SweepSession, FinalizeUnconfirmed, rows,
        plane, wire, runner
  <1>4. CASE ControlConnection
    BY <1>4, Zenon DEF LiveStep, ControlConnection, RouteTerminal,
        ConsumeDirectDataPlaneSession, Unbind, CloseConnection, PumpDirectOpen, PumpCancel, rows,
        plane, wire, runner
  <1>5. CASE RunnerConnection
    BY <1>5, Zenon DEF LiveStep, RunnerConnection, ReceiveFrame, RefuseFrame,
        RegisterDirectDataPlaneSession, HandleDataPlaneCancel, ReceiveAdmission, RunnerLosesStream,
        OpenConnection, AssignmentFenced, LeaveSession, rows, plane, wire, runner
  <1>6. CASE Environment
    BY <1>6, Zenon DEF LiveStep, Environment, StreamBreaks, ControlPlaneCrash, StopSandbox,
        LeaseEnds, TimePasses, CancelSandboxSession, CancelPublicDataPlaneSession, rows, plane,
        wire, runner
  <1>7. CASE \E s \in Sessions : RunnerWork(s)
    BY <1>7, Zenon DEF LiveStep, RunnerWork, AdmissionTimesOut, DirectReceive, DirectBreaks,
        DirectServed, Finish, rows, plane, wire, runner
  <1>8. CASE UNCHANGED vars
    BY <1>8, Zenon DEF vars, rows, plane, wire, runner
  <1>. QED BY <1>1, <1>2, <1>3, <1>4, <1>5, <1>6, <1>7, <1>8, Zenon DEF Next

LEMMA OpFrame ==
  ASSUME [Next]_vars
  PROVE  op' = op \/ OpStep
  <1>1. CASE \E r \in Requests : Handler(r)
    BY <1>1, RequestKeeps, Zenon
  <1>2. CASE \E r \in Requests : Client(r)
    BY <1>2, RequestKeeps, Zenon
  <1>3. CASE Sweeper
    BY <1>3, Zenon DEF OpStep, Sweeper, SweepSelect, SweepSession, FinalizeUnconfirmed, rows,
        plane, wire, runner
  <1>4. CASE ControlConnection
    BY <1>4, Zenon DEF OpStep, ControlConnection, RouteTerminal, ConsumeDirectDataPlaneSession,
        Unbind, CloseConnection, PumpDirectOpen, PumpCancel, rows, plane, wire, runner
  <1>5. CASE RunnerConnection
    BY <1>5, Zenon DEF OpStep, RunnerConnection, RegisterDirectDataPlaneSession,
        ReceiveAdmission, OpenConnection, AssignmentFenced, rows, plane, wire, runner
  <1>6. CASE Environment
    BY <1>6, Zenon DEF OpStep, Environment, StreamBreaks, ControlPlaneCrash, StopSandbox,
        LeaseEnds, TimePasses, CancelSandboxSession, CancelPublicDataPlaneSession, rows, plane,
        wire, runner
  <1>7. CASE \E s \in Sessions : RunnerWork(s)
    BY <1>7, Zenon DEF OpStep, RunnerWork, AdmissionTimesOut, DirectBreaks, Terminals, rows,
        plane, wire, runner
  <1>8. CASE UNCHANGED vars
    BY <1>8, Zenon DEF vars, rows, plane, wire, runner
  <1>. QED BY <1>1, <1>2, <1>3, <1>4, <1>5, <1>6, <1>7, <1>8, Zenon DEF Next

LEMMA TcpFrame ==
  ASSUME [Next]_vars
  PROVE  tcp' = tcp \/ TcpStep
  <1>1. ASSUME NEW r \in Requests, Handler(r) PROVE tcp' = tcp \/ TcpStep
    <2>1. CASE WaitEnds(r) \/ WaitExpires(r) \/ Attach(r) \/ StartDataPlaneSession(r) \/ SendOpen(r)
      BY <2>1, Zenon DEF TcpStep, WaitEnds, WaitExpires, Attach, StartDataPlaneSession, rows,
          plane, wire, runner
    <2>2. CASE AbortDataPlaneSetup(r) \/ Leave(r) \/ ReceiveTerminal(r) \/ Complete(r) \/ ReceiveExpires(r)
      BY <2>2, Zenon DEF TcpStep, ReceiveTerminal, Complete, ReceiveExpires, rows, plane, wire,
          runner
    <2>3. CASE ReceiveFails(r) \/ SendCancel(r) \/ RecordCancellation(r) \/ ClaimDirect(r) \/ DenyDirect(r)
      BY <2>3, Zenon DEF TcpStep, ReceiveFails, RecordCancellation, DenyDirect, rows, plane,
          wire, runner
    <2>. QED BY <1>1, <2>1, <2>2, <2>3, Zenon DEF Handler
  <1>2. CASE \E r \in Requests : Client(r)
    BY <1>2, Zenon DEF TcpStep, Client, Admit, Replay, Connect, ClientGone, ClientCancels, rows,
        plane, wire, runner
  <1>3. CASE Sweeper
    BY <1>3, Zenon DEF TcpStep, Sweeper, SweepSelect, SweepSession, FinalizeUnconfirmed, rows,
        plane, wire, runner
  <1>4. CASE ControlConnection
    BY <1>4, Zenon DEF TcpStep, ControlConnection, RouteTerminal, ConsumeDirectDataPlaneSession,
        Unbind, CloseConnection, PumpDirectOpen, PumpCancel, rows, plane, wire, runner
  <1>5. CASE RunnerConnection
    BY <1>5, Zenon DEF TcpStep, RunnerConnection, ReceiveFrame, OpenConnection,
        AssignmentFenced, rows, plane, wire, runner
  <1>6. CASE Environment
    BY <1>6, Zenon DEF TcpStep, Environment, StreamBreaks, StopSandbox, LeaseEnds, TimePasses,
        CancelSandboxSession, CancelPublicDataPlaneSession, rows, plane, wire, runner
  <1>7. CASE \E s \in Sessions : RunnerWork(s)
    BY <1>7, Zenon DEF TcpStep, RunnerWork, Terminals
  <1>8. CASE UNCHANGED vars
    BY <1>8, Zenon DEF vars, rows, plane, wire, runner
  <1>. QED BY <1>1, <1>2, <1>3, <1>4, <1>5, <1>6, <1>7, <1>8, Zenon DEF Next

LEMMA StartsFrame ==
  ASSUME [Next]_vars
  PROVE  starts' = starts \/ StartsStep
  <1>1. CASE \E r \in Requests : Handler(r)
    BY <1>1, RequestKeeps, Zenon
  <1>2. CASE \E r \in Requests : Client(r)
    BY <1>2, RequestKeeps, Zenon
  <1>3. CASE Sweeper
    BY <1>3, Zenon DEF StartsStep, Sweeper, SweepSelect, SweepSession, FinalizeUnconfirmed,
        rows, plane, wire, runner
  <1>4. CASE ControlConnection
    BY <1>4, Zenon DEF StartsStep, ControlConnection, RouteTerminal,
        ConsumeDirectDataPlaneSession, Unbind, CloseConnection, PumpDirectOpen, PumpCancel, rows,
        plane, wire, runner
  <1>5. CASE RunnerConnection
    BY <1>5, Zenon DEF StartsStep, RunnerConnection, RefuseFrame,
        RegisterDirectDataPlaneSession, HandleDataPlaneCancel, ReceiveAdmission, RunnerLosesStream,
        OpenConnection, FenceAssignment, AssignmentFenced, LeaveSession, rows, plane, wire, runner
  <1>6. CASE Environment
    BY <1>6, Zenon DEF StartsStep, Environment, StreamBreaks, ControlPlaneCrash, StopSandbox,
        LeaseEnds, TimePasses, CancelSandboxSession, CancelPublicDataPlaneSession, rows, plane,
        wire, runner
  <1>7. CASE \E s \in Sessions : RunnerWork(s)
    BY <1>7, Zenon DEF StartsStep, RunnerWork, AdmissionTimesOut, DirectBreaks, DirectServed,
        Finish, rows, plane, wire, runner
  <1>8. CASE UNCHANGED vars
    BY <1>8, Zenon DEF vars, rows, plane, wire, runner
  <1>. QED BY <1>1, <1>2, <1>3, <1>4, <1>5, <1>6, <1>7, <1>8, Zenon DEF Next

-----------------------------------------------------------------------------
(***************************************************************************)
(* The rows.                                                               *)
(***************************************************************************)
Finished(s) == Over(s) \/ ~live
Moves(s, x) ==
  \/ x = row[s]
  \/ State(s) = "none" /\ x.state = "pending" /\ x.kind = row[s].kind
  \/ State(s) = "pending" /\ x.state = "running" /\ x.kind = row[s].kind
  \/ Unstopped(s) /\ x.state = "cancelling"
  \/ State(s) = "pending" /\ x.state \in {"completed", "failed"}
  \/ ~Ended(s) /\ State(s) # "cancelling" /\ x.state \in {"completed", "failed"} /\ Finished(s)
  \/ State(s) = "cancelling" /\ x.state \in {"completed", "failed"} /\ x.kind = row[s].kind /\ Finished(s)
  \/ ~Ended(s) /\ x.state = "failed" /\ x.kind = "LOST"

(* A transaction on one row.                                               *)
LEMMA RowAt ==
  ASSUME Types, NEW t \in Sessions, NEW x \in RowTypes, row' = [row EXCEPT ![t] = x], Moves(t, x)
  PROVE  row' \in [Sessions -> RowTypes] /\ \A s \in Sessions : Moves(s, row'[s])
  <1>1. row \in [Sessions -> RowTypes]
    BY Zenon DEF Types
  <1>2. row' \in [Sessions -> RowTypes]
    BY <1>1, Zenon
  <1>3. row'[t] = x /\ \A s \in Sessions : s # t => row'[s] = row[s]
    BY <1>1, Zenon
  <1>. QED BY <1>2, <1>3, Zenon DEF Moves

(* A step that leaves the rows alone moves none of them.                   *)
LEMMA RowKept ==
  ASSUME Types, row' = row
  PROVE  row' \in [Sessions -> RowTypes] /\ \A s \in Sessions : Moves(s, row'[s])
  <1>1. row \in [Sessions -> RowTypes]
    BY Zenon DEF Types
  <1>. QED BY <1>1, Zenon DEF Moves

(* What a row holds.                                                       *)
LEMMA RowRec ==
  ASSUME Types, NEW s \in Sessions
  PROVE  /\ row[s] \in RowTypes /\ row[s].state \in RowStates /\ row[s].kind \in Terminals \cup {"none", "LOST"}
         /\ State(s) = row[s].state
  <1>1. row[s] \in RowTypes
    BY Zenon DEF Types
  <1>. QED BY <1>1, Zenon DEF RowTypes, State

(* A changed state keeps the kind.                                         *)
LEMMA RowState ==
  ASSUME Types, NEW s \in Sessions, NEW v \in RowStates
  PROVE  /\ [row[s] EXCEPT !.state = v] \in RowTypes
         /\ [row[s] EXCEPT !.state = v].state = v
         /\ [row[s] EXCEPT !.state = v].kind = row[s].kind
  <1>1. row[s] \in RowTypes
    BY RowRec, Zenon
  <1>. QED BY <1>1 DEF RowTypes

(* What a reported terminal projects: an end, of the recorded kind when    *)
(* the session is being cancelled.                                         *)
LEMMA ProjectionEnds ==
  ASSUME Types, NEW s \in Sessions, NEW k \in Terminals \cup {"none"}
  PROVE  /\ Projection(s, k) \in RowTypes /\ Projection(s, k).state \in {"completed", "failed"}
         /\ State(s) = "cancelling" => Projection(s, k).kind = row[s].kind
  <1>. DEFINE good == IF Kind(s) = "file" THEN State(s) = "cancelling" \/ k = "DONE"
                      ELSE k \in {"DONE", "DEADLINE", "CANCELLED"}
  <1>. DEFINE st == IF good THEN "completed" ELSE "failed"
  <1>. DEFINE kd == IF State(s) = "cancelling" THEN row[s].kind ELSE k
  <1>1. Projection(s, k) = [state |-> st, kind |-> kd]
    BY Zenon DEF Projection
  <1>2. st \in {"completed", "failed"}
    BY Zenon
  <1>3. kd \in Terminals \cup {"none", "LOST"} /\ (State(s) = "cancelling" => kd = row[s].kind)
    BY RowRec
  <1>. HIDE DEF good, st, kd
  <1>4. st \in RowStates
    BY <1>2, Zenon DEF RowStates
  <1>. QED BY <1>1, <1>2, <1>3, <1>4 DEF RowTypes

(* CancelDataPlaneSession: a pending session ends, a running one is being  *)
(* cancelled, any other keeps its row.                                     *)
LEMMA CancelMoves ==
  ASSUME Types, NEW t \in Sessions, CancelDataPlaneSession(t)
  PROVE  row' \in [Sessions -> RowTypes] /\ \A s \in Sessions : Moves(s, row'[s])
  <1>1. CASE ~Unstopped(t)
    <2>1. row' = row
      BY <1>1, Zenon DEF CancelDataPlaneSession
    <2>. QED BY <2>1, RowKept, Zenon
  <1>2. CASE State(t) = "pending"
    <2>1. row' = [row EXCEPT ![t] = Projection(t, "CANCELLED")]
      BY <1>2, Zenon DEF CancelDataPlaneSession, Unstopped
    <2>2. Projection(t, "CANCELLED") \in RowTypes /\ Projection(t, "CANCELLED").state \in {"completed", "failed"}
      BY ProjectionEnds, Zenon DEF Terminals
    <2>3. Moves(t, Projection(t, "CANCELLED"))
      BY <1>2, <2>2, Zenon DEF Moves
    <2>. QED BY <2>1, <2>2, <2>3, RowAt, Zenon
  <1>3. CASE State(t) = "running"
    <2>. DEFINE x == [state |-> "cancelling", kind |-> "CANCELLED"]
    <2>1. row' = [row EXCEPT ![t] = x]
      <3>1. Unstopped(t) /\ State(t) # "pending"
        BY <1>3, Zenon DEF Unstopped
      <3>. QED BY <3>1, Zenon DEF CancelDataPlaneSession
    <2>2. x \in RowTypes /\ x.state = "cancelling"
      BY DEF RowTypes, RowStates, Terminals
    <2>. HIDE DEF x
    <2>3. Moves(t, x)
      BY <1>3, <2>2, Zenon DEF Moves, Unstopped
    <2>. QED BY <2>1, <2>2, <2>3, RowAt, Zenon
  <1>. QED BY <1>1, <1>2, <1>3, Zenon DEF Unstopped

(* ExpireDataPlaneSession: a session not yet stopped is being cancelled.   *)
LEMMA ExpireMoves ==
  ASSUME Types, NEW t \in Sessions, ExpireDataPlaneSession(t)
  PROVE  row' \in [Sessions -> RowTypes] /\ \A s \in Sessions : Moves(s, row'[s])
  <1>1. row' = [row EXCEPT ![t] = Expired(t)]
    BY Zenon DEF ExpireDataPlaneSession
  <1>2. Expired(t) \in RowTypes /\ Moves(t, Expired(t))
    <2>1. CASE Unstopped(t)
      <3>1. Expired(t) = [state |-> "cancelling", kind |-> DeadlineKind(t)] /\ DeadlineKind(t) \in Terminals
        BY <2>1, Zenon DEF Expired, DeadlineKind, Terminals
      <3>2. Expired(t) \in RowTypes /\ Expired(t).state = "cancelling"
        BY <3>1 DEF RowTypes, RowStates
      <3>. QED BY <2>1, <3>2, Zenon DEF Moves
    <2>2. CASE ~Unstopped(t)
      <3>1. Expired(t) = row[t]
        BY <2>2, Zenon DEF Expired
      <3>. QED BY <3>1, RowRec, Zenon DEF Moves
    <2>. QED BY <2>1, <2>2, Zenon
  <1>. QED BY <1>1, <1>2, RowAt, Zenon

(* completeCancelledSession, on proof that the work is over.               *)
LEMMA ConfirmMoves ==
  ASSUME Types, NEW t \in Sessions, row' = [row EXCEPT ![t] = Confirmed(t)], Finished(t)
  PROVE  row' \in [Sessions -> RowTypes] /\ \A s \in Sessions : Moves(s, row'[s])
  <1>1. CASE State(t) = "cancelling"
    <2>1. Confirmed(t) = [row[t] EXCEPT !.state = "completed"]
      BY <1>1, Zenon DEF Confirmed
    <2>2. Confirmed(t) \in RowTypes /\ Confirmed(t).state = "completed" /\ Confirmed(t).kind = row[t].kind
      <3>1. "completed" \in RowStates
        BY Zenon DEF RowStates
      <3>. DEFINE x == [row[t] EXCEPT !.state = "completed"]
      <3>2. x \in RowTypes /\ x.state = "completed" /\ x.kind = row[t].kind
        BY <3>1, RowState, Zenon
      <3>. HIDE DEF x
      <3>3. Confirmed(t) = x
        BY <2>1, Zenon DEF x
      <3>. QED BY <3>2, <3>3, Zenon
    <2>3. Moves(t, Confirmed(t))
      BY <1>1, <2>2, Zenon DEF Moves
    <2>. QED BY <2>2, <2>3, RowAt, Zenon
  <1>2. CASE State(t) # "cancelling"
    <2>1. Confirmed(t) = row[t]
      BY <1>2, Zenon DEF Confirmed
    <2>2. Confirmed(t) \in RowTypes /\ Moves(t, Confirmed(t))
      BY <2>1, RowRec, Zenon DEF Moves
    <2>. QED BY <2>2, RowAt, Zenon
  <1>. QED BY <1>1, <1>2, Zenon

(* CompleteDataPlaneSession, with the terminal of work that is over.       *)
LEMMA CompleteMoves ==
  ASSUME Types, NEW t \in Sessions, NEW k \in Terminals \cup {"none"}, CompleteDataPlaneSession(t, k), Finished(t)
  PROVE  row' \in [Sessions -> RowTypes] /\ \A s \in Sessions : Moves(s, row'[s])
  <1>1. CASE Ended(t)
    <2>1. row' = [row EXCEPT ![t] = row[t]]
      BY <1>1, Zenon DEF CompleteDataPlaneSession
    <2>2. Moves(t, row[t])
      BY Zenon DEF Moves
    <2>. QED BY <2>1, <2>2, RowRec, RowAt, Zenon
  <1>2. CASE ~Ended(t)
    <2>1. row' = [row EXCEPT ![t] = Projection(t, k)]
      BY <1>2, Zenon DEF CompleteDataPlaneSession
    <2>2. /\ Projection(t, k) \in RowTypes /\ Projection(t, k).state \in {"completed", "failed"}
          /\ State(t) = "cancelling" => Projection(t, k).kind = row[t].kind
      BY ProjectionEnds, Zenon
    <2>3. Moves(t, Projection(t, k))
      BY <1>2, <2>2, Zenon DEF Moves
    <2>. QED BY <2>1, <2>2, <2>3, RowAt, Zenon
  <1>. QED BY <1>1, <1>2, Zenon

(* Every request is for a session.                                         *)
LEMMA OfIn ==
  ASSUME Types, NEW r \in Requests
  PROVE  Of(r) \in Sessions
  <1>1. setup \in SetupTypes
    BY Zenon DEF Types
  <1>2. setup.of \in [Requests -> Sessions]
    BY <1>1, Zenon DEF SetupTypes
  <1>. QED BY <1>2, Zenon DEF Of

(* What a handler holds.                                                   *)
LEMMA RequestRec ==
  ASSUME Types, NEW r \in Requests
  PROVE  /\ request[r] \in RequestTypes /\ request[r].pc \in Pcs /\ request[r].seen \in RowStates
         /\ request[r].next \in Nat /\ request[r].inbox \in Terminals \cup {"none"} /\ request[r].open \in BOOLEAN
  <1>1. request[r] \in RequestTypes
    BY Zenon DEF Types
  <1>. QED BY <1>1, Zenon DEF RequestTypes

(* The report at the head of the stream.                                   *)
LEMMA UpHead ==
  ASSUME Types, up # <<>>
  PROVE  /\ Head(up) \in ReportTypes /\ Head(up) \in Elems(up)
         /\ Head(up).s \in Sessions /\ Head(up).kind \in Terminals \cup {"none"} /\ Head(up).by \in Anybody
         /\ Tail(up) \in Seq(ReportTypes) /\ Elems(Tail(up)) \subseteq Elems(up)
  <1>1. up \in Seq(ReportTypes)
    BY Zenon DEF Types
  <1>2. /\ Head(up) \in ReportTypes /\ Head(up) \in Elems(up)
        /\ Tail(up) \in Seq(ReportTypes) /\ Elems(Tail(up)) \subseteq Elems(up)
    BY <1>1, HeadIn, Zenon
  <1>. QED BY <1>2, Zenon DEF ReportTypes

(* The frame at its head, on the Runner's side.                            *)
LEMMA DownHead ==
  ASSUME Types, down # <<>>
  PROVE  /\ NextFrame \in FrameTypes /\ NextFrame \in Elems(down) /\ NextFrame.s \in Sessions
         /\ NextFrame.seq \in Nat /\ NextFrame.by \in Anybody
         /\ Tail(down) \in Seq(FrameTypes) /\ Elems(Tail(down)) \subseteq Elems(down)
  <1>1. down \in Seq(FrameTypes)
    BY Zenon DEF Types
  <1>2. /\ Head(down) \in FrameTypes /\ Head(down) \in Elems(down)
        /\ Tail(down) \in Seq(FrameTypes) /\ Elems(Tail(down)) \subseteq Elems(down)
    BY <1>1, HeadIn, Zenon
  <1>. QED BY <1>2, Zenon DEF FrameTypes, NextFrame

(* A row moves from state to state, and ends only on proof that its work   *)
(* is over or was never begun, or with its Runner's connection.            *)
LEMMA RowMoves ==
  ASSUME DataPlaneInv, [Next]_vars
  PROVE  row' \in [Sessions -> RowTypes] /\ \A s \in Sessions : Moves(s, row'[s])
  <1>. DEFINE Goal == row' \in [Sessions -> RowTypes] /\ \A s \in Sessions : Moves(s, row'[s])
  <1>1. Types /\ FenceInv /\ ProofInv
    BY Zenon DEF DataPlaneInv
  <1>2. ASSUME NEW r \in Requests, Admit(r) PROVE Goal
    <2>1. Of(r) \in Sessions
      BY <1>1, OfIn, Zenon
    <2>2. State(Of(r)) = "none" /\ row' = [row EXCEPT ![Of(r)].state = "pending"]
      BY <1>2, Zenon DEF Admit
    <2>. DEFINE x == [row[Of(r)] EXCEPT !.state = "pending"]
    <2>3. row' = [row EXCEPT ![Of(r)] = x]
      BY <2>2
    <2>4. "pending" \in RowStates
      BY Zenon DEF RowStates
    <2>5. x \in RowTypes /\ x.state = "pending" /\ x.kind = row[Of(r)].kind
      BY <1>1, <2>1, <2>4, RowState, Zenon
    <2>. HIDE DEF x
    <2>6. Moves(Of(r), x)
      BY <2>2, <2>5, Zenon DEF Moves
    <2>. QED BY <1>1, <2>1, <2>3, <2>5, <2>6, RowAt, Zenon
  <1>3. ASSUME NEW t \in Sessions, State(t) = "pending", row' = [row EXCEPT ![t].state = "running"] PROVE Goal
    <2>. DEFINE x == [row[t] EXCEPT !.state = "running"]
    <2>3. row' = [row EXCEPT ![t] = x]
      BY <1>3
    <2>4. "running" \in RowStates
      BY Zenon DEF RowStates
    <2>5. x \in RowTypes /\ x.state = "running" /\ x.kind = row[t].kind
      BY <1>1, <2>4, RowState, Zenon
    <2>. HIDE DEF x
    <2>6. Moves(t, x)
      BY <1>3, <2>5, Zenon DEF Moves
    <2>. QED BY <1>1, <2>3, <2>5, <2>6, RowAt, Zenon
  <1>4. ASSUME NEW r \in Requests, StartDataPlaneSession(r) PROVE Goal
    <2>1. Of(r) \in Sessions
      BY <1>1, OfIn, Zenon
    <2>2. row' = row \/ (State(Of(r)) = "pending" /\ row' = [row EXCEPT ![Of(r)].state = "running"])
      BY <1>4, Zenon DEF StartDataPlaneSession
    <2>. QED BY <1>1, <1>3, <2>1, <2>2, RowKept, Zenon
  <1>5. CASE ConsumeDirectDataPlaneSession
    <2>1. up # <<>> /\ (row' = row \/ (State(Head(up).s) = "pending" /\ row' = [row EXCEPT ![Head(up).s].state = "running"]))
      BY <1>5, Zenon DEF ConsumeDirectDataPlaneSession
    <2>2. Head(up).s \in Sessions
      BY <1>1, <2>1, UpHead, Zenon
    <2>. QED BY <1>1, <1>3, <2>1, <2>2, RowKept, Zenon
  <1>6. ASSUME NEW t \in Sessions, CancelDataPlaneSession(t) PROVE Goal
    BY <1>1, <1>6, CancelMoves, Zenon
  <1>7. ASSUME NEW t \in Sessions, ExpireDataPlaneSession(t) PROVE Goal
    BY <1>1, <1>7, ExpireMoves, Zenon
  <1>8. ASSUME NEW r \in Requests, WaitExpires(r) \/ ReceiveExpires(r) \/ RecordCancellation(r) PROVE Goal
    <2>1. ExpireDataPlaneSession(Of(r)) \/ CancelDataPlaneSession(Of(r))
      BY <1>8, Zenon DEF WaitExpires, ReceiveExpires, RecordCancellation
    <2>. QED BY <1>1, <1>6, <1>7, <2>1, OfIn, Zenon
  <1>9. ASSUME NEW d \in due, SweepSession(d) PROVE Goal
    <2>1. ExpireDataPlaneSession(d.s) \/ CancelDataPlaneSession(d.s)
      BY <1>9, Zenon DEF SweepSession
    <2>2. d \in [s : Sessions, late : BOOLEAN]
      BY <1>1, Zenon DEF Types
    <2>3. d.s \in Sessions
      BY <2>2
    <2>. QED BY <1>6, <1>7, <2>1, <2>3, Zenon
  <1>10. ASSUME NEW t \in Sessions, CancelSandboxSession(t) \/ CancelPublicDataPlaneSession(t) PROVE Goal
    <2>1. CancelDataPlaneSession(t)
      BY <1>10, Zenon DEF CancelSandboxSession, CancelPublicDataPlaneSession
    <2>. QED BY <1>6, <2>1, Zenon
  <1>11. ASSUME NEW r \in Requests, Complete(r) PROVE Goal
    <2>1. request[r].pc = "complete" /\ CompleteDataPlaneSession(Of(r), request[r].inbox)
      BY <1>11, Zenon DEF Complete, At
    <2>2. Finished(Of(r))
      BY <1>1, <2>1, Zenon DEF ProofInv, Finished
    <2>. QED BY <1>1, <2>1, <2>2, OfIn, RequestRec, CompleteMoves, Zenon
  <1>12. ASSUME NEW t \in Sessions, FinalizeUnconfirmed(t) PROVE Goal
    <2>1. assignment = "fenced" /\ row' = [row EXCEPT ![t] = Confirmed(t)]
      BY <1>12, Zenon DEF FinalizeUnconfirmed
    <2>2. Finished(t)
      BY <1>1, <2>1, Zenon DEF FenceInv, Finished
    <2>. QED BY <1>1, <2>1, <2>2, ConfirmMoves, Zenon
  <1>13. CASE RouteTerminal
    <2>1. /\ up # <<>> /\ Head(up).type = "terminal"
          /\ row' = row \/ row' = [row EXCEPT ![Head(up).s] = Confirmed(Head(up).s)]
      BY <1>13, Zenon DEF RouteTerminal
    <2>2. Head(up).s \in Sessions /\ Head(up) \in Elems(up)
      BY <1>1, <2>1, UpHead, Zenon
    <2>3. Finished(Head(up).s)
      BY <1>1, <2>1, <2>2, Zenon DEF ProofInv, Finished
    <2>. QED BY <1>1, <2>1, <2>2, <2>3, ConfirmMoves, RowKept, Zenon
  <1>14. CASE CloseConnection
    <2>. DEFINE lost == [state |-> "failed", kind |-> "LOST"]
    <2>1. row' = [s \in Sessions |-> IF State(s) \in {"none", "completed", "failed"} THEN row[s] ELSE lost]
      BY <1>14, Zenon DEF CloseConnection
    <2>2. lost \in RowTypes /\ lost.state = "failed" /\ lost.kind = "LOST"
      BY DEF RowTypes, RowStates
    <2>. HIDE DEF lost
    <2>3. ASSUME NEW s \in Sessions PROVE row'[s] \in RowTypes /\ Moves(s, row'[s])
      <3>1. row'[s] = row[s] \/ (row'[s] = lost /\ ~Ended(s))
        BY <2>1, Zenon DEF Ended
      <3>2. row[s] \in RowTypes
        BY <1>1, RowRec, Zenon
      <3>. QED BY <2>2, <3>1, <3>2, Zenon DEF Moves
    <2>4. row' \in [Sessions -> RowTypes]
      BY <2>1, <2>3, Zenon
    <2>. QED BY <2>3, <2>4, Zenon
  <1>15. CASE row' = row
    BY <1>1, <1>15, RowKept, Zenon
  <1>16. row' = row \/ RowStep
    BY RowFrame, Zenon
  <1>17. CASE \E r \in Requests : WaitExpires(r) \/ StartDataPlaneSession(r) \/ Complete(r)
                                 \/ ReceiveExpires(r) \/ RecordCancellation(r) \/ Admit(r)
    BY <1>2, <1>4, <1>8, <1>11, <1>17, Zenon
  <1>18. CASE \E s \in Sessions : FinalizeUnconfirmed(s) \/ CancelSandboxSession(s) \/ CancelPublicDataPlaneSession(s)
    BY <1>10, <1>12, <1>18, Zenon
  <1>19. Goal
    BY <1>5, <1>9, <1>13, <1>14, <1>15, <1>16, <1>17, <1>18, Zenon DEF RowStep
  <1>. QED BY <1>19, Zenon

(* An outcome once recorded is final, and a recorded cancellation is the   *)
(* outcome, unless the Runner's connection is lost.                        *)
LEMMA RowSettled ==
  ASSUME DataPlaneInv, [Next]_vars, NEW s \in Sessions
  PROVE  /\ Ended(s) => row'[s] = row[s]
         /\ State(s) = "cancelling" => row'[s].kind \in {row[s].kind, "LOST"}
  <1>1. Moves(s, row'[s])
    BY RowMoves, Zenon
  <1>. QED BY <1>1 DEF Moves, Ended, Unstopped

-----------------------------------------------------------------------------
(***************************************************************************)
(* The Runner's operations.                                                *)
(***************************************************************************)
Begun(s) == Served(tcp[s]) \/ \E f \in Elems(down) : Begins(f, s)
Proceeds(s, o) ==
  /\ o \in OpTypes /\ o.via <= conn
  /\ Over(s) => o.stage = "done"
  /\ Active(o) => Active(op[s]) \/ (op[s].stage = "none" /\ Begun(s))
  /\ o.stage \in {"none", "upload"} => op[s].stage \in {"none", "upload"}
  /\ o.stage = "none" => op[s].stage = "none"
Counts(s) ==
  \/ starts'[s] = starts[s]
  \/ op[s].stage \in {"none", "upload"} /\ op'[s].stage = "run" /\ starts'[s] = starts[s] + 1

(* What the Runner keeps of an operation.                                  *)
LEMMA OpRec ==
  ASSUME Types, NEW s \in Sessions
  PROVE  /\ op[s] \in OpTypes /\ op[s].stage \in OpStages /\ op[s].via <= conn /\ op[s].via \in Nat
         /\ op[s].next \in Nat /\ op[s].kind \in Terminals \cup {"none"} /\ op[s].last \in FrameTypes \cup {NoFrame}
         /\ op[s].stop \in BOOLEAN /\ op[s].confirm \in BOOLEAN
         /\ conn \in Nat \ {0}
  <1>1. op[s] \in OpTypes /\ op[s].via <= conn /\ conn \in Nat \ {0}
    BY Zenon DEF Types
  <1>. QED BY <1>1, Zenon DEF OpTypes

(* An operation left alone proceeds.                                       *)
LEMMA OpSame ==
  ASSUME Types, NEW s \in Sessions
  PROVE  Proceeds(s, op[s])
  <1>1. op[s] \in OpTypes /\ op[s].via <= conn
    BY OpRec, Zenon
  <1>. QED BY <1>1, Zenon DEF Proceeds, Over

(* A cancelled operation keeps its place.                                  *)
LEMMA StoppedSame ==
  ASSUME NEW o \in OpTypes
  PROVE  /\ Stopped(o) \in OpTypes /\ Stopped(o).stage = o.stage /\ Stopped(o).via = o.via /\ Stopped(o).kind = o.kind
  <1>1. Stopped(o) = o \/ Stopped(o) = [o EXCEPT !.stop = TRUE]
    BY Zenon DEF Stopped
  <1>. QED BY <1>1 DEF OpTypes

(* An accepted frame changes only the sequence.                            *)
LEMMA SequencedSame ==
  ASSUME NEW o \in OpTypes, NEW f \in FrameTypes
  PROVE  /\ Sequenced(o, f) \in OpTypes /\ Sequenced(o, f).stage = o.stage
         /\ Sequenced(o, f).via = o.via /\ Sequenced(o, f).kind = o.kind
  <1>1. o.next + 1 \in Nat
    BY DEF OpTypes
  <1>2. Sequenced(o, f) = [o EXCEPT !.next = o.next + 1, !.last = f]
    BY Zenon DEF Sequenced
  <1>. QED BY <1>1, <1>2 DEF OpTypes

(* An operation that keeps its stage and its connection proceeds.          *)
LEMMA StageKept ==
  ASSUME Types, NEW s \in Sessions, NEW o \in OpTypes, o.stage = op[s].stage, o.via = op[s].via
  PROVE  Proceeds(s, o)
  <1>1. op[s].via <= conn
    BY OpRec, Zenon
  <1>2. o.via <= conn
    BY <1>1, Zenon
  <1>. QED BY <1>2, Zenon DEF Proceeds, Over, Active

(* The absent operation is well formed.                                    *)
LEMMA NoOpIn ==
  NoOp \in OpTypes /\ NoOp.stage = "none" /\ NoOp.via = 0
  <1>1. NoOp \in OpTypes
    BY DEF NoOp, OpTypes, OpStages
  <1>. QED BY <1>1 DEF NoOp

(* An operation that is over, whatever it was.                             *)
LEMMA EndProceeds ==
  ASSUME Types, NEW s \in Sessions, NEW o \in OpTypes, o.stage = "done", o.via = 0
  PROVE  Proceeds(s, o)
  <1>1. o.via <= conn
    BY DEF Types
  <1>. QED BY <1>1, Zenon DEF Proceeds, Active

(* A cancellation recorded for an absent operation ends it.                *)
LEMMA AbsentIn ==
  Absent \in OpTypes /\ Absent.stage = "done" /\ Absent.via = 0
  <1>1. "done" \in OpStages /\ "CANCELLED" \in Terminals \cup {"none"}
    BY DEF OpStages, Terminals
  <1>. QED BY <1>1, NoOpIn DEF OpTypes, Absent

OpenStage(s) == IF ~live THEN "done" ELSE IF Kind(s) = "file" THEN "upload" ELSE "run"

(* An Open begins an operation, or ends it at once under a fence.          *)
LEMMA OpenedIn ==
  ASSUME NEW f \in FrameTypes, NEW via \in Nat
  PROVE  /\ Opened(f, via) \in OpTypes /\ Opened(f, via).via = via
         /\ Opened(f, via).stage = OpenStage(f.s)
  <1>. DEFINE st == OpenStage(f.s)
  <1>. DEFINE kd == IF live THEN "none" ELSE "FAILED"
  <1>1. Opened(f, via) = [NoOp EXCEPT !.next = 2, !.last = f, !.via = via, !.stage = st, !.kind = kd]
    BY Zenon DEF Opened, OpenStage
  <1>2. st \in OpStages
    BY Zenon DEF OpStages, OpenStage
  <1>3. kd \in Terminals \cup {"none"}
    BY DEF Terminals
  <1>. HIDE DEF st, kd
  <1>. DEFINE x == [stage |-> st, next |-> 2, last |-> f, via |-> via, stop |-> FALSE, confirm |-> FALSE, kind |-> kd]
  <1>4. Opened(f, via) = x
    BY <1>1, Zenon DEF NoOp
  <1>5. x \in OpTypes /\ x.via = via /\ x.stage = st
    BY <1>2, <1>3 DEF OpTypes
  <1>. QED BY <1>4, <1>5, Zenon DEF st

(* What handleExecFrame and handleFileFrame make of a frame: only an Open  *)
(* begins an operation, on a live fence; only an upload's input starts it. *)
LEMMA HandledOp ==
  ASSUME Types, NEW f \in FrameTypes, f.s \in Sessions, NEW via \in Nat, via <= conn
  PROVE  LET o == op[f.s]  h == Handled(f, via) IN
         /\ h \in OpTypes /\ h.via <= conn
         /\ o.stage = "none" => h.stage = OpenStage(f.s)
         /\ o.stage \in {"run", "done"} => h.stage = o.stage
         /\ o.stage = "upload" => h.stage \in {"upload", "run"}
         /\ o.stage = "upload" => (h.stage = "run" <=> ~Repeats(o, f) /\ f.type = "input" /\ ~o.stop)
         /\ Repeats(o, f) => h = o
  <1>. DEFINE o == op[f.s]
  <1>. DEFINE h == Handled(f, via)
  <1>. DEFINE q == Sequenced(o, f)
  <1>0. o \in OpTypes /\ o.via <= conn /\ o.stage \in OpStages
    BY OpRec, Zenon
  <1>1. q \in OpTypes /\ q.stage = o.stage /\ q.via = o.via
    BY <1>0, SequencedSame, Zenon
  <1>2. /\ Stopped(q) \in OpTypes /\ Stopped(q).stage = o.stage /\ Stopped(q).via = o.via
    BY <1>1, StoppedSame, Zenon
  <1>3. CASE o.stage = "none"
    <2>1. h = Opened(f, via)
      BY <1>3, Zenon DEF Handled
    <2>2. /\ h \in OpTypes /\ h.via = via
          /\ h.stage = OpenStage(f.s)
      BY <2>1, OpenedIn, Zenon
    <2>3. ~Repeats(o, f)
      BY <1>3, Zenon DEF Repeats
    <2>. QED BY <1>3, <2>2, <2>3, Zenon
  <1>4. CASE o.stage # "none" /\ Repeats(o, f)
    <2>1. h = o
      BY <1>4, Zenon DEF Handled
    <2>. QED BY <1>0, <1>4, <2>1, Zenon
  <1>5. CASE o.stage # "none" /\ ~Repeats(o, f) /\ Active(o) /\ f.type = "cancel"
    <2>1. h = Stopped(q)
      BY <1>5, Zenon DEF Handled
    <2>. QED BY <1>0, <1>2, <1>5, <2>1, Zenon
  <1>6. CASE o.stage = "upload" /\ ~Repeats(o, f) /\ f.type = "input" /\ ~o.stop
    <2>1. h = [q EXCEPT !.stage = "run"]
      BY <1>6, Zenon DEF Handled
    <2>2. h \in OpTypes /\ h.stage = "run" /\ h.via = o.via
      BY <2>1, <1>1 DEF OpTypes, OpStages
    <2>. QED BY <1>0, <1>6, <2>2, Zenon
  <1>7. CASE /\ o.stage # "none" /\ ~Repeats(o, f) /\ ~(Active(o) /\ f.type = "cancel")
             /\ ~(o.stage = "upload" /\ f.type = "input" /\ ~o.stop)
    <2>1. h = q
      BY <1>7, Zenon DEF Handled
    <2>. QED BY <1>0, <1>1, <1>7, <2>1, Zenon
  <1>. QED BY <1>3, <1>4, <1>5, <1>6, <1>7, Zenon

(* A change of one operation.                                              *)
LEMMA OpAt ==
  ASSUME Types, NEW t \in Sessions, NEW x, op' = [op EXCEPT ![t] = x], Proceeds(t, x)
  PROVE  op' \in [Sessions -> OpTypes] /\ op'[t] = x /\ \A s \in Sessions : Proceeds(s, op'[s])
  <1>1. op \in [Sessions -> OpTypes]
    BY Zenon DEF Types
  <1>2. x \in OpTypes
    BY Zenon DEF Proceeds
  <1>3. op' \in [Sessions -> OpTypes]
    BY <1>1, <1>2, Zenon
  <1>4. op'[t] = x /\ \A s \in Sessions : s # t => op'[s] = op[s]
    BY <1>1, Zenon
  <1>. QED BY <1>3, <1>4, OpSame, Zenon

(* A frame the Runner handles starts guest work at most once.              *)
LEMMA HandleOp ==
  ASSUME Types, NEW f \in FrameTypes, f.s \in Sessions, NEW via \in Nat, via <= conn,
         op[f.s].stage = "none" => Begun(f.s), Handle(f, via)
  PROVE  /\ op' \in [Sessions -> OpTypes] /\ starts' \in [Sessions -> Nat]
         /\ op'[f.s] = Handled(f, via)
         /\ \A s \in Sessions : Proceeds(s, op'[s]) /\ Counts(s)
  <1>. DEFINE o == op[f.s]
  <1>. DEFINE h == Handled(f, via)
  <1>1. op' = [op EXCEPT ![f.s] = h] /\ starts' = [starts EXCEPT ![f.s] = IF Started(f) THEN @ + 1 ELSE @]
    BY Zenon DEF Handle
  <1>2. /\ h \in OpTypes /\ h.via <= conn
        /\ o.stage = "none" => h.stage = OpenStage(f.s)
        /\ o.stage \in {"run", "done"} => h.stage = o.stage
        /\ o.stage = "upload" => h.stage \in {"upload", "run"}
        /\ o.stage = "upload" => (h.stage = "run" <=> ~Repeats(o, f) /\ f.type = "input" /\ ~o.stop)
    BY HandledOp, Zenon
  <1>3. 0 \in Nat /\ 0 <= conn
    BY DEF Types
  <1>4. /\ o.stage = "none" => Handled(f, 0).stage = OpenStage(f.s)
        /\ o.stage \in {"run", "done"} => Handled(f, 0).stage = o.stage
        /\ o.stage = "upload" => Handled(f, 0).stage \in {"upload", "run"}
        /\ o.stage = "upload" => (Handled(f, 0).stage = "run" <=> ~Repeats(o, f) /\ f.type = "input" /\ ~o.stop)
    BY <1>3, HandledOp, Zenon
  <1>5. o.stage \in {"none", "upload", "run", "done"}
    BY OpRec, Zenon DEF OpStages
  <1>6. OpenStage(f.s) \in {"done", "upload", "run"}
    BY Zenon DEF OpenStage
  <1>. HIDE DEF o, h
  <1>7. h.stage = Handled(f, 0).stage
    BY <1>2, <1>4, <1>5, Zenon
  <1>8. Proceeds(f.s, h)
    <2>1. Over(f.s) => h.stage = "done"
      BY <1>2, Zenon DEF o, Over
    <2>2. Active(h) => Active(op[f.s]) \/ (op[f.s].stage = "none" /\ Begun(f.s))
      BY <1>2, <1>5, Zenon DEF o, Active
    <2>3. h.stage \in {"none", "upload"} => op[f.s].stage \in {"none", "upload"}
      BY <1>2, <1>5, Zenon DEF o
    <2>4. h.stage = "none" => op[f.s].stage = "none"
      BY <1>2, <1>5, Zenon DEF o
    <2>. QED BY <1>2, <2>1, <2>2, <2>3, <2>4, Zenon DEF Proceeds
  <1>9. /\ op' \in [Sessions -> OpTypes] /\ op'[f.s] = h /\ \A s \in Sessions : Proceeds(s, op'[s])
    BY <1>1, <1>8, OpAt, Zenon
  <1>10. starts \in [Sessions -> Nat]
    BY Zenon DEF Types
  <1>11. Started(f) => h.stage = "run" /\ op[f.s].stage \in {"none", "upload"}
    <2>1. Started(f) => Handled(f, 0).stage = "run" /\ op[f.s].stage # "run"
      BY Zenon DEF Started
    <2>. QED BY <1>2, <1>5, <1>7, <2>1, Zenon DEF o
  <1>12. starts' \in [Sessions -> Nat] /\ \A s \in Sessions : starts'[s] = IF s = f.s /\ Started(f) THEN starts[s] + 1 ELSE starts[s]
    BY <1>1, <1>10
  <1>13. \A s \in Sessions : Counts(s)
    BY <1>9, <1>11, <1>12, Zenon DEF Counts
  <1>. QED BY <1>9, <1>12, <1>13, Zenon DEF h

(* What the Runner keeps of a direct connection.                           *)
LEMMA TcpRec ==
  ASSUME Types, NEW s \in Sessions
  PROVE  /\ tcp[s] \in TcpTypes /\ tcp[s].reg \in BOOLEAN /\ tcp[s].stage \in TcpStages
         /\ tcp[s].try \in Anybody /\ tcp[s].by \in Anybody
         /\ tcp[s].down \in Seq(FrameTypes) /\ tcp[s].up \in Terminals \cup {"none"}
         /\ \A f \in Elems(tcp[s].down) : f.s = s
  <1>1. tcp[s] \in TcpTypes /\ \A f \in Elems(tcp[s].down) : f.s = s
    BY Zenon DEF Types
  <1>. QED BY <1>1, Zenon DEF TcpTypes

(* The frame a direct connection reads is its session's.                   *)
LEMMA TcpHead ==
  ASSUME Types, NEW s \in Sessions, tcp[s].down # <<>>
  PROVE  /\ Head(tcp[s].down) \in FrameTypes /\ Head(tcp[s].down).s = s
         /\ Tail(tcp[s].down) \in Seq(FrameTypes) /\ \A f \in Elems(Tail(tcp[s].down)) : f.s = s
  <1>1. tcp[s].down \in Seq(FrameTypes) /\ \A f \in Elems(tcp[s].down) : f.s = s
    BY TcpRec, Zenon
  <1>2. /\ Head(tcp[s].down) \in FrameTypes /\ Head(tcp[s].down) \in Elems(tcp[s].down)
        /\ Tail(tcp[s].down) \in Seq(FrameTypes) /\ Elems(Tail(tcp[s].down)) \subseteq Elems(tcp[s].down)
    BY <1>1, HeadIn, Zenon
  <1>. QED BY <1>1, <1>2, Zenon

(* A frame read from the control connection.                               *)
LEMMA ReceiveOp ==
  ASSUME Types, ReceiveFrame
  PROVE  /\ NextFrame \in FrameTypes /\ NextFrame.s \in Sessions
         /\ op' \in [Sessions -> OpTypes] /\ starts' \in [Sessions -> Nat]
         /\ op'[NextFrame.s] = Handled(NextFrame, conn)
         /\ \A s \in Sessions : Proceeds(s, op'[s]) /\ Counts(s)
  <1>1. down # <<>> /\ ~Violates(op[NextFrame.s], NextFrame) /\ Handle(NextFrame, conn)
    BY Zenon DEF ReceiveFrame, Reads
  <1>2. NextFrame \in FrameTypes /\ NextFrame \in Elems(down) /\ NextFrame.s \in Sessions
    BY <1>1, DownHead, Zenon
  <1>3. op[NextFrame.s].stage = "none" => NextFrame.type = "open"
    BY <1>1, Zenon DEF Violates
  <1>4. op[NextFrame.s].stage = "none" => Begun(NextFrame.s)
    BY <1>2, <1>3, Zenon DEF Begun, Begins
  <1>5. conn \in Nat /\ conn <= conn
    BY DEF Types
  <1>6. /\ op' \in [Sessions -> OpTypes] /\ starts' \in [Sessions -> Nat]
        /\ op'[NextFrame.s] = Handled(NextFrame, conn)
        /\ \A s \in Sessions : Proceeds(s, op'[s]) /\ Counts(s)
    BY <1>1, <1>2, <1>4, <1>5, HandleOp, Zenon
  <1>. QED BY <1>2, <1>6, Zenon

(* A frame read from a direct connection.                                  *)
LEMMA DirectOp ==
  ASSUME Types, NEW t \in Sessions, DirectReceive(t)
  PROVE  \/ op' = op /\ starts' = starts
         \/ /\ ~Violates(op[t], Head(tcp[t].down))
            /\ op' \in [Sessions -> OpTypes] /\ starts' \in [Sessions -> Nat]
            /\ op'[t] = Handled(Head(tcp[t].down), 0)
            /\ \A s \in Sessions : Proceeds(s, op'[s]) /\ Counts(s)
  <1>. DEFINE f == Head(tcp[t].down)
  <1>1. Served(tcp[t]) /\ tcp[t].down # <<>>
    BY Zenon DEF DirectReceive
  <1>2. f \in FrameTypes /\ f.s = t
    BY <1>1, TcpHead, Zenon
  <1>3. CASE Violates(op[t], f)
    <2>1. op' = op /\ starts' = starts
      BY <1>3, Zenon DEF DirectReceive
    <2>. QED BY <2>1, Zenon
  <1>4. CASE ~Violates(op[t], f)
    <2>1. Handle(f, 0)
      BY <1>4, Zenon DEF DirectReceive
    <2>2. Begun(t)
      BY <1>1, Zenon DEF Begun
    <2>3. 0 \in Nat /\ 0 <= conn
      BY DEF Types
    <2>4. /\ op' \in [Sessions -> OpTypes] /\ starts' \in [Sessions -> Nat]
          /\ op'[f.s] = Handled(f, 0)
          /\ \A s \in Sessions : Proceeds(s, op'[s]) /\ Counts(s)
      <3>. HIDE DEF f
      <3>. QED BY <1>2, <2>1, <2>2, <2>3, HandleOp, Zenon
    <2>. QED BY <1>2, <1>4, <2>4, Zenon
  <1>. QED BY <1>3, <1>4, Zenon

(* The operation after the cancellation command.                           *)
CancelledOp(o) ==
  IF o.stage = "none" THEN Absent ELSE IF Active(o) THEN [Stopped(o) EXCEPT !.confirm = TRUE] ELSE o

(* A durable cancellation never begins an operation.                       *)
LEMMA CancelledProceeds ==
  ASSUME Types, NEW s \in Sessions
  PROVE  /\ Proceeds(s, CancelledOp(op[s])) /\ CancelledOp(op[s]) \in OpTypes
         /\ CancelledOp(op[s]).kind \in Terminals \cup {"none"}
  <1>. DEFINE x == CancelledOp(op[s])
  <1>1. op[s] \in OpTypes
    BY OpRec, Zenon
  <1>2. CASE op[s].stage = "none"
    <2>1. x = Absent
      BY <1>2, Zenon DEF CancelledOp
    <2>. QED BY <2>1, AbsentIn, EndProceeds, Zenon DEF OpTypes
  <1>3. CASE op[s].stage # "none" /\ Active(op[s])
    <2>1. x = [Stopped(op[s]) EXCEPT !.confirm = TRUE]
      BY <1>3, Zenon DEF CancelledOp
    <2>2. Stopped(op[s]) \in OpTypes /\ Stopped(op[s]).stage = op[s].stage /\ Stopped(op[s]).via = op[s].via
      BY <1>1, StoppedSame, Zenon
    <2>3. x \in OpTypes /\ x.stage = op[s].stage /\ x.via = op[s].via
      BY <2>1, <2>2 DEF OpTypes
    <2>. QED BY <2>3, StageKept, Zenon DEF OpTypes
  <1>4. CASE op[s].stage # "none" /\ ~Active(op[s])
    <2>1. x = op[s]
      BY <1>4, Zenon DEF CancelledOp
    <2>. QED BY <1>1, <2>1, OpSame, Zenon DEF OpTypes
  <1>. QED BY <1>2, <1>3, <1>4, Zenon

(* The operation after its worker returned.                                *)
FinishedOp(o, k) == [NoOp EXCEPT !.stage = "done", !.next = o.next, !.last = o.last, !.kind = k]

(* A worker's return ends its operation.                                   *)
LEMMA FinishedProceeds ==
  ASSUME Types, NEW s \in Sessions, NEW k \in Terminals
  PROVE  Proceeds(s, FinishedOp(op[s], k)) /\ FinishedOp(op[s], k).stage = "done"
  <1>. DEFINE n == op[s].next
  <1>. DEFINE l == op[s].last
  <1>0. FinishedOp(op[s], k) = [NoOp EXCEPT !.stage = "done", !.next = n, !.last = l, !.kind = k]
    BY Zenon DEF FinishedOp
  <1>2. n \in Nat /\ l \in FrameTypes \cup {NoFrame} /\ "done" \in OpStages
    BY OpRec, Zenon DEF OpStages
  <1>. HIDE DEF n, l
  <1>. DEFINE x == [stage |-> "done", next |-> n, last |-> l, via |-> 0,
                    stop |-> FALSE, confirm |-> FALSE, kind |-> k]
  <1>1. FinishedOp(op[s], k) = x
    BY <1>0 DEF NoOp
  <1>3. x \in OpTypes /\ x.stage = "done" /\ x.via = 0
    BY <1>2 DEF OpTypes
  <1>. HIDE DEF x
  <1>4. Proceeds(s, x)
    BY <1>3, EndProceeds, Zenon
  <1>. QED BY <1>1, <1>3, <1>4, Zenon

(* The operation of a direct connection that was served.                   *)
ServedOp(o) == IF o.stage = "none" THEN Absent ELSE IF o.via = 0 THEN Stopped(o) ELSE o

(* Stopping an operation neither begins nor ends it.                       *)
LEMMA StoppedProceeds ==
  ASSUME Types, NEW s \in Sessions
  PROVE  /\ Proceeds(s, Stopped(op[s])) /\ Stopped(op[s]) \in OpTypes
         /\ Proceeds(s, ClosedOp(s)) /\ ClosedOp(s) \in OpTypes
         /\ Proceeds(s, ServedOp(op[s])) /\ ServedOp(op[s]) \in OpTypes
  <1>1. op[s] \in OpTypes
    BY OpRec, Zenon
  <1>2. Stopped(op[s]) \in OpTypes /\ Stopped(op[s]).stage = op[s].stage /\ Stopped(op[s]).via = op[s].via
    BY <1>1, StoppedSame, Zenon
  <1>3. Proceeds(s, Stopped(op[s])) /\ Proceeds(s, op[s])
    BY <1>2, StageKept, OpSame, Zenon
  <1>4. ClosedOp(s) = op[s] \/ ClosedOp(s) = Stopped(op[s])
    BY Zenon DEF ClosedOp
  <1>5. Proceeds(s, Absent) /\ Absent \in OpTypes
    BY AbsentIn, EndProceeds, Zenon
  <1>6. ServedOp(op[s]) = Absent \/ ServedOp(op[s]) = op[s] \/ ServedOp(op[s]) = Stopped(op[s])
    BY Zenon DEF ServedOp
  <1>7. Proceeds(s, ServedOp(op[s])) /\ ServedOp(op[s]) \in OpTypes
    BY <1>1, <1>2, <1>3, <1>5, <1>6, Zenon
  <1>. QED BY <1>1, <1>2, <1>3, <1>4, <1>7, Zenon

(* The operations proceed and their starts are counted, at every step.     *)
LEMMA OpMoves ==
  ASSUME Types, [Next]_vars
  PROVE  /\ op' \in [Sessions -> OpTypes] /\ starts' \in [Sessions -> Nat]
         /\ \A s \in Sessions : Proceeds(s, op'[s]) /\ Counts(s)
  <1>. DEFINE Goal == /\ op' \in [Sessions -> OpTypes] /\ starts' \in [Sessions -> Nat]
                      /\ \A s \in Sessions : Proceeds(s, op'[s]) /\ Counts(s)
  <1>1. op \in [Sessions -> OpTypes] /\ starts \in [Sessions -> Nat]
    BY Zenon DEF Types
  <1>2. ASSUME starts' = starts, op' \in [Sessions -> OpTypes], \A s \in Sessions : Proceeds(s, op'[s]) PROVE Goal
    BY <1>1, <1>2, Zenon DEF Counts
  <1>3. ASSUME starts' = starts, op' = op PROVE Goal
    BY <1>1, <1>2, <1>3, OpSame, Zenon
  <1>4. CASE ReceiveFrame
    BY <1>4, ReceiveOp, Zenon
  <1>5. ASSUME NEW t \in Sessions, DirectReceive(t) PROVE Goal
    BY <1>3, <1>5, DirectOp, Zenon
  <1>6. CASE RefuseFrame \/ RunnerLosesStream
    <2>1. starts' = starts /\ op' = [s \in Sessions |-> Stopped(op[s])]
      BY <1>6, Zenon DEF RefuseFrame, RunnerLosesStream, LeaveSession
    <2>2. \A s \in Sessions : Stopped(op[s]) \in OpTypes /\ Proceeds(s, Stopped(op[s]))
      BY StoppedProceeds, Zenon
    <2>3. op' \in [Sessions -> OpTypes] /\ \A s \in Sessions : Proceeds(s, op'[s])
      BY <2>1, <2>2, Zenon
    <2>. QED BY <1>2, <2>1, <2>3, Zenon
  <1>7. CASE FenceAssignment
    <2>1. starts' = starts /\ op' = [s \in Sessions |-> ClosedOp(s)]
      BY <1>7, Zenon DEF FenceAssignment
    <2>2. \A s \in Sessions : ClosedOp(s) \in OpTypes /\ Proceeds(s, ClosedOp(s))
      BY StoppedProceeds, Zenon
    <2>3. op' \in [Sessions -> OpTypes] /\ \A s \in Sessions : Proceeds(s, op'[s])
      BY <2>1, <2>2, Zenon
    <2>. QED BY <1>2, <2>1, <2>3, Zenon
  <1>8. CASE HandleDataPlaneCancel
    <2>. DEFINE t == NextFrame.s
    <2>1. down # <<>> /\ starts' = starts /\ op' = [op EXCEPT ![t] = CancelledOp(op[t])]
      BY <1>8, Zenon DEF HandleDataPlaneCancel, Reads, CancelledOp
    <2>2. t \in Sessions
      BY <2>1, DownHead, Zenon
    <2>. HIDE DEF t
    <2>3. Proceeds(t, CancelledOp(op[t]))
      BY <2>2, CancelledProceeds, Zenon
    <2>4. op' \in [Sessions -> OpTypes] /\ \A s \in Sessions : Proceeds(s, op'[s])
      BY <2>1, <2>2, <2>3, OpAt, Zenon
    <2>. QED BY <1>2, <2>1, <2>4, Zenon
  <1>9. ASSUME NEW t \in Sessions, NEW k \in Terminals, Finish(t, k) PROVE Goal
    <2>1. starts' = starts /\ op' = [op EXCEPT ![t] = FinishedOp(op[t], k)]
      BY <1>9, Zenon DEF Finish, FinishedOp
    <2>2. Proceeds(t, FinishedOp(op[t], k))
      BY FinishedProceeds, Zenon
    <2>3. op' \in [Sessions -> OpTypes] /\ \A s \in Sessions : Proceeds(s, op'[s])
      BY <2>1, <2>2, OpAt, Zenon
    <2>. QED BY <1>2, <2>1, <2>3, Zenon
  <1>10. ASSUME NEW t \in Sessions, DirectServed(t) PROVE Goal
    <2>1. starts' = starts /\ op' = [op EXCEPT ![t] = ServedOp(op[t])]
      BY <1>10, Zenon DEF DirectServed, ServedOp
    <2>2. Proceeds(t, ServedOp(op[t]))
      BY StoppedProceeds, Zenon
    <2>3. op' \in [Sessions -> OpTypes] /\ \A s \in Sessions : Proceeds(s, op'[s])
      BY <2>1, <2>2, OpAt, Zenon
    <2>. QED BY <1>2, <2>1, <2>3, Zenon
  <1>11. op' = op \/ OpStep
    BY OpFrame, Zenon
  <1>12. starts' = starts \/ StartsStep
    BY StartsFrame, Zenon
  <1>13. CASE \E s \in Sessions : DirectReceive(s) \/ DirectServed(s)
    BY <1>5, <1>10, <1>13, Zenon
  <1>14. CASE \E s \in Sessions, k \in Terminals : Finish(s, k)
    BY <1>9, <1>14, Zenon
  <1>15. CASE OpStep
    BY <1>4, <1>6, <1>7, <1>8, <1>13, <1>14, <1>15, Zenon DEF OpStep
  <1>16. CASE op' = op /\ starts' = starts
    BY <1>3, <1>16, Zenon
  <1>17. CASE StartsStep
    BY <1>4, <1>13, <1>17, Zenon DEF StartsStep
  <1>. QED BY <1>11, <1>12, <1>15, <1>16, <1>17, Zenon

(* Work that has not begun was never started, and none is started twice.   *)
LEMMA OnceKept ==
  ASSUME DataPlaneInv, [Next]_vars
  PROVE  OnceInv'
  <1>1. Types /\ OnceInv
    BY Zenon DEF DataPlaneInv
  <1>2. ASSUME NEW s \in Sessions
        PROVE  starts'[s] <= 1 /\ (op'[s].stage \in {"none", "upload"} => starts'[s] = 0)
    <2>1. Proceeds(s, op'[s]) /\ Counts(s)
      BY <1>1, OpMoves, Zenon
    <2>2. starts[s] <= 1 /\ (op[s].stage \in {"none", "upload"} => starts[s] = 0)
      BY <1>1, Zenon DEF OnceInv
    <2>3. op'[s].stage \in {"none", "upload"} => op[s].stage \in {"none", "upload"}
      BY <2>1, Zenon DEF Proceeds
    <2>4. \/ starts'[s] = starts[s]
          \/ op[s].stage \in {"none", "upload"} /\ op'[s].stage = "run" /\ starts'[s] = starts[s] + 1
      BY <2>1, Zenon DEF Counts
    <2>. QED BY <2>2, <2>3, <2>4
  <1>. QED BY <1>2, Zenon DEF OnceInv

-----------------------------------------------------------------------------
(***************************************************************************)
(* What travels on the control connection.                                 *)
(***************************************************************************)
Sound(m) == m.type = "consume" \/ op'[m.s].stage = "done"

(* The terminal of an operation is a report.                               *)
LEMMA TerminalIn ==
  ASSUME NEW s \in Sessions, NEW k \in Terminals \cup {"none"}
  PROVE  /\ Terminal(s, k) \in ReportTypes /\ Terminal(s, k).type = "terminal" /\ Terminal(s, k).s = s
  <1>1. Nobody \in Anybody
    BY Zenon DEF Anybody
  <1>. QED BY <1>1 DEF Terminal, ReportTypes

(* A queue of reports that only shrinks stays sound.                       *)
LEMMA UpKept ==
  ASSUME Types, NEW q \in Seq(ReportTypes), Elems(q) \subseteq Elems(up), up' = q
  PROVE  up' \in Seq(ReportTypes) /\ \A m \in Elems(up') : m \in Elems(up) \/ Sound(m)
  BY Zenon

(* A sound report keeps the queue sound.                                   *)
LEMMA UpPut ==
  ASSUME Types, NEW x \in ReportTypes, Sound(x), up' = Put(up, x)
  PROVE  up' \in Seq(ReportTypes) /\ \A m \in Elems(up') : m \in Elems(up) \/ Sound(m)
  <1>1. up \in Seq(ReportTypes)
    BY Zenon DEF Types
  <1>2. up' \in Seq(ReportTypes) /\ Elems(up') \subseteq Elems(up) \cup {x}
    BY <1>1, PutIn, Zenon
  <1>3. \A m \in Elems(up') : m \in Elems(up) \/ m = x
    BY <1>2
  <1>. QED BY <1>2, <1>3, Zenon

(* A terminal is sent only of an operation that is over.                   *)
LEMMA UpMoves ==
  ASSUME Types, [Next]_vars
  PROVE  up' \in Seq(ReportTypes) /\ \A m \in Elems(up') : m \in Elems(up) \/ Sound(m)
  <1>. DEFINE Goal == up' \in Seq(ReportTypes) /\ \A m \in Elems(up') : m \in Elems(up) \/ Sound(m)
  <1>1. up \in Seq(ReportTypes)
    BY Zenon DEF Types
  <1>2. CASE up' = up
    BY <1>1, <1>2, Zenon
  <1>3. CASE RouteTerminal \/ ConsumeDirectDataPlaneSession
    <2>1. up # <<>> /\ up' = Tail(up)
      BY <1>3, Zenon DEF RouteTerminal, ConsumeDirectDataPlaneSession
    <2>2. Tail(up) \in Seq(ReportTypes) /\ Elems(Tail(up)) \subseteq Elems(up)
      BY <2>1, UpHead, Zenon
    <2>. QED BY <2>1, <2>2, UpKept, Zenon
  <1>4. CASE Unbind \/ OpenConnection \/ ControlPlaneCrash
    <2>1. up' = <<>>
      BY <1>4, Zenon DEF Unbind, OpenConnection, ControlPlaneCrash
    <2>2. <<>> \in Seq(ReportTypes) /\ Elems(<<>>) = {}
      BY EmptyIn, Zenon
    <2>. QED BY <2>1, <2>2, Zenon
  <1>5. CASE ReceiveFrame
    <2>. DEFINE f == NextFrame
    <2>. DEFINE h == Handled(f, conn)
    <2>1. up' = IF Answers(f) THEN Put(up, Terminal(f.s, h.kind)) ELSE up
      BY <1>5, Zenon DEF ReceiveFrame
    <2>2. f \in FrameTypes /\ f.s \in Sessions /\ op'[f.s] = h /\ op' \in [Sessions -> OpTypes]
      BY <1>5, ReceiveOp, Zenon
    <2>3. conn \in Nat /\ conn <= conn
      BY DEF Types
    <2>4. /\ op[f.s].stage = "none" => h.stage = OpenStage(f.s)
          /\ Repeats(op[f.s], f) => h = op[f.s]
      BY <2>2, <2>3, HandledOp, Zenon
    <2>5. h.kind \in Terminals \cup {"none"}
      BY <2>2, Zenon DEF OpTypes
    <2>6. CASE Answers(f)
      <3>1. h.stage = "done"
        BY <2>4, <2>6, Zenon DEF Answers, OpenStage
      <3>. DEFINE x == Terminal(f.s, h.kind)
      <3>2. x \in ReportTypes /\ x.s = f.s
        BY <2>2, <2>5, TerminalIn, Zenon
      <3>3. up' = Put(up, x)
        BY <2>1, <2>6, Zenon
      <3>. HIDE DEF x
      <3>4. Sound(x)
        BY <2>2, <3>1, <3>2, Zenon DEF Sound
      <3>. QED BY <3>2, <3>3, <3>4, UpPut, Zenon
    <2>7. CASE ~Answers(f)
      BY <1>2, <2>1, <2>7, Zenon
    <2>. QED BY <2>6, <2>7, Zenon
  <1>6. CASE HandleDataPlaneCancel
    <2>. DEFINE t == NextFrame.s
    <2>. DEFINE h == CancelledOp(op[t])
    <2>1. /\ down # <<>> /\ op' = [op EXCEPT ![t] = h]
          /\ up' = IF h.stage = "done" THEN Put(up, Terminal(t, h.kind)) ELSE up
      BY <1>6, Zenon DEF HandleDataPlaneCancel, Reads, CancelledOp
    <2>2. t \in Sessions
      BY <2>1, DownHead, Zenon
    <2>. HIDE DEF t
    <2>3. Proceeds(t, h) /\ h.kind \in Terminals \cup {"none"}
      BY <2>2, CancelledProceeds, Zenon
    <2>. HIDE DEF h
    <2>4. op'[t] = h
      BY <2>1, <2>2, <2>3, OpAt, Zenon
    <2>5. CASE h.stage = "done"
      <3>. DEFINE x == Terminal(t, h.kind)
      <3>2. x \in ReportTypes /\ x.s = t
        BY <2>2, <2>3, TerminalIn, Zenon
      <3>3. up' = Put(up, x)
        BY <2>1, <2>5, Zenon
      <3>. HIDE DEF x
      <3>4. Sound(x)
        BY <2>4, <2>5, <3>2, Zenon DEF Sound
      <3>. QED BY <3>2, <3>3, <3>4, UpPut, Zenon
    <2>6. CASE h.stage # "done"
      BY <1>2, <2>1, <2>6, Zenon
    <2>. QED BY <2>5, <2>6, Zenon
  <1>7. ASSUME NEW t \in Sessions, NEW k \in Terminals, Finish(t, k) PROVE Goal
    <2>. DEFINE n == (IF op[t].via = conn THEN 1 ELSE 0) + (IF op[t].confirm THEN 1 ELSE 0)
    <2>. DEFINE x == Terminal(t, k)
    <2>1. /\ up' = up \/ up' = up \o [i \in 1..n |-> x]
          /\ op' = [op EXCEPT ![t] = FinishedOp(op[t], k)]
      BY <1>7, Zenon DEF Finish, FinishedOp
    <2>2. n \in Nat
      OBVIOUS
    <2>. HIDE DEF n
    <2>3. Proceeds(t, FinishedOp(op[t], k)) /\ FinishedOp(op[t], k).stage = "done"
      BY FinishedProceeds, Zenon
    <2>4. op'[t].stage = "done"
      BY <2>1, <2>3, OpAt, Zenon
    <2>5. x \in ReportTypes /\ x.s = t
      BY TerminalIn
    <2>. HIDE DEF x
    <2>6. Sound(x)
      BY <2>4, <2>5, Zenon DEF Sound
    <2>7. CASE up' = up \o [i \in 1..n |-> x]
      <3>1. up' \in Seq(ReportTypes) /\ Elems(up') \subseteq Elems(up) \cup {x}
        BY <1>1, <2>2, <2>5, <2>7, RepeatIn, Zenon
      <3>2. \A m \in Elems(up') : m \in Elems(up) \/ m = x
        BY <3>1
      <3>. QED BY <2>6, <3>1, <3>2, Zenon
    <2>. QED BY <1>2, <2>1, <2>7, Zenon
  <1>8. ASSUME NEW r \in Requests, ClaimDirect(r) PROVE Goal
    <2>. DEFINE x == Consume(Of(r), r)
    <2>1. up' = Put(up, x)
      BY <1>8, Zenon DEF ClaimDirect
    <2>2. Of(r) \in Sessions /\ r \in Anybody
      BY OfIn, Zenon DEF Anybody
    <2>3. x \in ReportTypes /\ x.type = "consume"
      BY <2>2 DEF ReportTypes, Consume
    <2>. HIDE DEF x
    <2>4. Sound(x)
      BY <2>3, Zenon DEF Sound
    <2>. QED BY <2>1, <2>3, <2>4, UpPut, Zenon
  <1>9. up' = up \/ UpStep
    BY UpFrame, Zenon
  <1>10. CASE \E s \in Sessions, k \in Terminals : Finish(s, k)
    BY <1>7, <1>10, Zenon
  <1>11. CASE \E r \in Requests : ClaimDirect(r)
    BY <1>8, <1>11, Zenon
  <1>. QED BY <1>2, <1>3, <1>4, <1>5, <1>6, <1>9, <1>10, <1>11, Zenon DEF UpStep

(* An Open or an admission is sent only by a handler that opens, or with   *)
(* the row that says the session runs.                                     *)
Founded(s) == row'[s].state = "running" \/ \E r \in Requests : Of(r) = s /\ request[r].pc = "open"
DownGoal == /\ down' \in Seq(FrameTypes)
            /\ \A s \in Sessions : \A f \in Elems(down') : Begins(f, s) => f \in Elems(down) \/ Founded(s)

(* A queue of frames that only shrinks begins nothing new.                 *)
LEMMA DownLess ==
  ASSUME Types, NEW q \in Seq(FrameTypes), Elems(q) \subseteq Elems(down), down' = q
  PROVE  DownGoal
  BY Zenon DEF DownGoal

(* A founded frame keeps the queue founded.                                *)
LEMMA DownPut ==
  ASSUME Types, NEW x \in FrameTypes, \A s \in Sessions : Begins(x, s) => Founded(s), down' = Put(down, x)
  PROVE  DownGoal
  <1>1. down \in Seq(FrameTypes)
    BY Zenon DEF Types
  <1>2. down' \in Seq(FrameTypes) /\ Elems(down') \subseteq Elems(down) \cup {x}
    BY <1>1, PutIn, Zenon
  <1>3. \A f \in Elems(down') : f \in Elems(down) \/ f = x
    BY <1>2
  <1>. QED BY <1>2, <1>3, Zenon DEF DownGoal

(* Frames are well formed.                                                 *)
LEMMA FrameIn ==
  ASSUME NEW s \in Sessions, NEW n \in Nat, NEW b \in Anybody, NEW ty \in FrameKinds
  PROVE  /\ Frame(ty, s, n, b) \in FrameTypes /\ Frame(ty, s, n, b).type = ty
         /\ Frame(ty, s, n, b).s = s /\ Frame(ty, s, n, b).seq = n
  BY DEF Frame, FrameTypes

(* A frame other than an Open or an admission begins nothing.              *)
LEMMA PlainFrame ==
  ASSUME NEW s \in Sessions, NEW n \in Nat, NEW b \in Anybody, NEW ty \in {"input", "cancel", "register", "command"}
  PROVE  /\ Frame(ty, s, n, b) \in FrameTypes /\ Frame(ty, s, n, b).s = s
         /\ \A t \in Sessions : ~Begins(Frame(ty, s, n, b), t)
  <1>1. ty \in FrameKinds /\ ty # "open" /\ ty # "admission"
    BY Zenon DEF FrameKinds
  <1>2. Frame(ty, s, n, b) \in FrameTypes /\ Frame(ty, s, n, b).type = ty /\ Frame(ty, s, n, b).s = s
    BY <1>1, FrameIn
  <1>. QED BY <1>1, <1>2, Zenon DEF Begins

(* The frames a handler sends.                                             *)
LEMMA HandlerFrames ==
  ASSUME Types, NEW r \in Requests
  PROVE  /\ OpenFrame(r) \in FrameTypes /\ InputFrame(r) \in FrameTypes /\ CancelFrame(r) \in FrameTypes
         /\ OpenFrame(r).s = Of(r) /\ InputFrame(r).s = Of(r) /\ CancelFrame(r).s = Of(r)
         /\ \A t \in Sessions : ~Begins(InputFrame(r), t) /\ ~Begins(CancelFrame(r), t)
  <1>1. Of(r) \in Sessions /\ request[r].next \in Nat /\ r \in Anybody /\ Nobody \in Anybody
    BY OfIn, RequestRec, Zenon DEF Anybody
  <1>2. InputFrame(r) = Frame("input", Of(r), request[r].next, r) /\ CancelFrame(r) = Frame("cancel", Of(r), request[r].next, Nobody)
    BY Zenon DEF InputFrame, CancelFrame
  <1>3. "input" \in {"input", "cancel", "register", "command"} /\ "cancel" \in {"input", "cancel", "register", "command"}
    BY Zenon
  <1>4. /\ InputFrame(r) \in FrameTypes /\ InputFrame(r).s = Of(r)
        /\ \A t \in Sessions : ~Begins(InputFrame(r), t)
    BY <1>1, <1>2, <1>3, PlainFrame
  <1>5. /\ CancelFrame(r) \in FrameTypes /\ CancelFrame(r).s = Of(r)
        /\ \A t \in Sessions : ~Begins(CancelFrame(r), t)
    BY <1>1, <1>2, <1>3, PlainFrame
  <1>. DEFINE b == IF Kind(Of(r)) = "exec" THEN r ELSE Nobody
  <1>6. b \in Anybody /\ OpenFrame(r) = Frame("open", Of(r), 1, b)
    BY <1>1, Zenon DEF OpenFrame
  <1>. HIDE DEF b
  <1>7. OpenFrame(r) \in FrameTypes /\ OpenFrame(r).s = Of(r)
    <2>1. "open" \in FrameKinds /\ 1 \in Nat
      BY DEF FrameKinds
    <2>. QED BY <1>1, <1>6, <2>1, FrameIn
  <1>. QED BY <1>4, <1>5, <1>7, Zenon

(* Every Open and admission on its way is founded: its session runs, or a  *)
(* handler was about to open it.                                           *)
LEMMA DownMoves ==
  ASSUME Types, [Next]_vars
  PROVE  DownGoal
  <1>1. down \in Seq(FrameTypes)
    BY Zenon DEF Types
  <1>2. CASE down' = down
    BY <1>1, <1>2, DownLess, Zenon
  <1>3. ASSUME NEW f, Transmit(f) PROVE down' = down \/ down' = Put(down, f)
    BY <1>3, Zenon DEF Transmit
  <1>4. ASSUME NEW r \in Requests, SendInput(r) \/ SendCancel(r) PROVE DownGoal
    <2>1. down' = down \/ down' = Put(down, InputFrame(r)) \/ down' = Put(down, CancelFrame(r))
      BY <1>3, <1>4, Zenon DEF SendInput, SendCancel
    <2>. QED BY <1>2, <2>1, HandlerFrames, DownPut, Zenon
  <1>5. ASSUME NEW r \in Requests, SendOpen(r) PROVE DownGoal
    <2>1. request[r].pc = "open" /\ (down' = down \/ down' = Put(down, OpenFrame(r)))
      BY <1>3, <1>5, Zenon DEF SendOpen, At
    <2>2. \A s \in Sessions : Begins(OpenFrame(r), s) => Founded(s)
      BY <2>1, HandlerFrames, Zenon DEF Begins, Founded
    <2>. QED BY <1>2, <2>1, <2>2, HandlerFrames, DownPut, Zenon
  <1>6. ASSUME NEW t \in Sessions, PumpDirectOpen(t) \/ PumpCancel(t) PROVE DownGoal
    <2>1. down' = Put(down, Frame("register", t, 0, Nobody)) \/ down' = Put(down, Frame("command", t, 0, Nobody))
      BY <1>6, Zenon DEF PumpDirectOpen, PumpCancel
    <2>2. \A ty \in {"input", "cancel", "register", "command"} :
            Frame(ty, t, 0, Nobody) \in FrameTypes /\ \A s \in Sessions : ~Begins(Frame(ty, t, 0, Nobody), s)
      <3>1. 0 \in Nat /\ Nobody \in Anybody
        BY DEF Anybody
      <3>. QED BY <3>1, PlainFrame, Zenon
    <2>3. \A ty \in {"input", "cancel", "register", "command"} : down' = Put(down, Frame(ty, t, 0, Nobody)) => DownGoal
      BY <2>2, DownPut, Zenon
    <2>. QED BY <2>1, <2>3, Zenon
  <1>7. CASE ConsumeDirectDataPlaneSession
    <2>. DEFINE m == Head(up)
    <2>. DEFINE g == State(m.s) = "pending" /\ clock[m.s] = 0 /\ Authority
    <2>. DEFINE n == IF g THEN 1 ELSE 0
    <2>. DEFINE x == Frame("admission", m.s, n, m.by)
    <2>1. up # <<>> /\ down' = Put(down, x) /\ row' = IF g THEN [row EXCEPT ![m.s].state = "running"] ELSE row
      BY <1>7, Zenon DEF ConsumeDirectDataPlaneSession
    <2>2. m.s \in Sessions /\ m.by \in Anybody
      BY <2>1, UpHead, Zenon
    <2>. HIDE DEF m
    <2>3. g => row'[m.s].state = "running"
      <3>1. row \in [Sessions -> RowTypes]
        BY Zenon DEF Types
      <3>2. row[m.s] \in RowTypes
        BY <2>2, <3>1, Zenon
      <3>. HIDE DEF g
      <3>3. ASSUME g PROVE row'[m.s] = [row[m.s] EXCEPT !.state = "running"]
        BY <2>1, <2>2, <3>1, <3>3
      <3>. QED BY <3>2, <3>3 DEF RowTypes
    <2>4. n \in Nat /\ (n = 1 => g)
      OBVIOUS
    <2>. HIDE DEF g, n
    <2>5. x \in FrameTypes /\ x.type = "admission" /\ x.s = m.s /\ x.seq = n
      <3>1. "admission" \in FrameKinds
        BY Zenon DEF FrameKinds
      <3>. QED BY <2>2, <2>4, <3>1, FrameIn
    <2>. HIDE DEF x
    <2>6. \A s \in Sessions : Begins(x, s) => Founded(s)
      BY <2>3, <2>4, <2>5, Zenon DEF Begins, Founded
    <2>. QED BY <2>1, <2>5, <2>6, DownPut, Zenon
  <1>8. CASE OpenConnection \/ RunnerLosesStream \/ RefuseFrame
    <2>1. down' = <<>>
      BY <1>8, Zenon DEF OpenConnection, RunnerLosesStream, RefuseFrame, LeaveSession
    <2>2. <<>> \in Seq(FrameTypes) /\ Elems(<<>>) = {}
      BY EmptyIn, Zenon
    <2>3. Elems(<<>>) \subseteq Elems(down)
      BY <2>2, Zenon
    <2>. QED BY <2>1, <2>2, <2>3, DownLess, Zenon
  <1>9. CASE ReceiveFrame \/ RegisterDirectDataPlaneSession \/ HandleDataPlaneCancel \/ ReceiveAdmission
    <2>1. down # <<>> /\ down' = Tail(down)
      BY <1>9, Zenon DEF ReceiveFrame, RegisterDirectDataPlaneSession, HandleDataPlaneCancel, ReceiveAdmission, Reads
    <2>2. Tail(down) \in Seq(FrameTypes) /\ Elems(Tail(down)) \subseteq Elems(down)
      BY <2>1, DownHead, Zenon
    <2>. QED BY <2>1, <2>2, DownLess, Zenon
  <1>10. down' = down \/ DownStep
    BY DownFrame, Zenon
  <1>. QED BY <1>2, <1>4, <1>5, <1>6, <1>7, <1>8, <1>9, <1>10, Zenon DEF DownStep

-----------------------------------------------------------------------------
(***************************************************************************)
(* Direct connections.                                                     *)
(***************************************************************************)
Unserved == {"none", "consuming"}
Turns(s, t) ==
  /\ t \in TcpTypes /\ \A f \in Elems(t.down) : f.s = s
  /\ \/ t.by \in {tcp[s].by, Nobody}
     \/ \E r \in Requests : t.by = r /\ Of(r) = s /\ request'[r].pc = "verdict"
  /\ t.stage \in Unserved \/ tcp[s].stage \notin Unserved \/ \E f \in Elems(down) : Begins(f, s)
  /\ t.up # "none" => tcp[s].up # "none" \/ op'[s].stage = "done"

(* A connection left alone turns nowhere.                                  *)
LEMMA TcpSame ==
  ASSUME Types, NEW s \in Sessions
  PROVE  Turns(s, tcp[s])
  <1>1. tcp[s] \in TcpTypes /\ \A f \in Elems(tcp[s].down) : f.s = s
    BY TcpRec, Zenon
  <1>. QED BY <1>1, Zenon DEF Turns

(* A change of one connection.                                             *)
LEMMA TcpAt ==
  ASSUME Types, NEW t \in Sessions, NEW x, tcp' = [tcp EXCEPT ![t] = x], Turns(t, x)
  PROVE  tcp' \in [Sessions -> TcpTypes] /\ tcp'[t] = x /\ \A s \in Sessions : Turns(s, tcp'[s])
  <1>1. tcp \in [Sessions -> TcpTypes]
    BY Zenon DEF Types
  <1>2. x \in TcpTypes
    BY Zenon DEF Turns
  <1>3. tcp' \in [Sessions -> TcpTypes]
    BY <1>1, <1>2, Zenon
  <1>4. tcp'[t] = x /\ \A s \in Sessions : s # t => tcp'[s] = tcp[s]
    BY <1>1, Zenon
  <1>. QED BY <1>3, <1>4, TcpSame, Zenon

(* closeMatching.                                                          *)
LEMMA ClosedTurns ==
  ASSUME Types, NEW s \in Sessions
  PROVE  Turns(s, ClosedTcp(tcp[s])) /\ ClosedTcp(tcp[s]) \in TcpTypes
  <1>. DEFINE t == tcp[s]
  <1>. DEFINE x == ClosedTcp(t)
  <1>1. t \in TcpTypes /\ \A f \in Elems(t.down) : f.s = s
    BY TcpRec, Zenon
  <1>2. <<>> \in Seq(FrameTypes) /\ Elems(<<>>) = {}
    BY EmptyIn, Zenon
  <1>. HIDE DEF t
  <1>3. CASE t.reg /\ Served(t)
    <2>1. x = [t EXCEPT !.reg = FALSE, !.stage = "closing", !.down = <<>>]
      BY <1>3, Zenon DEF ClosedTcp
    <2>2. x \in TcpTypes /\ x.by = t.by /\ x.up = t.up /\ x.down = <<>>
      BY <1>1, <1>2, <2>1 DEF TcpTypes, TcpStages
    <2>3. t.stage \notin Unserved
      BY <1>3, Zenon DEF Served, Unserved
    <2>. HIDE DEF x
    <2>4. \A f \in Elems(x.down) : f.s = s
      BY <1>2, <2>2, Zenon
    <2>. QED BY <2>2, <2>3, <2>4, Zenon DEF Turns, t, x
  <1>4. CASE ~(t.reg /\ Served(t))
    <2>1. x = [t EXCEPT !.reg = FALSE]
      BY <1>4, Zenon DEF ClosedTcp
    <2>2. x \in TcpTypes /\ x.by = t.by /\ x.up = t.up /\ x.down = t.down /\ x.stage = t.stage
      BY <1>1, <2>1 DEF TcpTypes
    <2>. HIDE DEF x
    <2>4. \A f \in Elems(x.down) : f.s = s
      BY <1>1, <2>2, Zenon
    <2>. QED BY <2>2, <2>4, Zenon DEF Turns, t, x
  <1>. QED BY <1>3, <1>4, Zenon

(* The connection after its request left it.                               *)
LEMMA LeftTurns ==
  ASSUME Types, NEW s \in Sessions
  PROVE  Turns(s, LeftTcp(tcp[s])) /\ LeftTcp(tcp[s]) \in TcpTypes /\ LeftTcp(tcp[s]).by = Nobody
  <1>. DEFINE t == tcp[s]
  <1>. DEFINE st == IF t.stage = "open" THEN "fin" ELSE t.stage
  <1>. DEFINE x == [t EXCEPT !.by = Nobody, !.up = "none", !.stage = st]
  <1>1. t \in TcpTypes /\ t.stage \in TcpStages /\ \A f \in Elems(t.down) : f.s = s
    BY TcpRec, Zenon
  <1>2. LeftTcp(tcp[s]) = x
    BY Zenon DEF LeftTcp
  <1>3. st \in TcpStages /\ (st \in Unserved \/ t.stage \notin Unserved)
    BY <1>1, Zenon DEF TcpStages, Unserved
  <1>. HIDE DEF t, st
  <1>4. Nobody \in Anybody
    BY Zenon DEF Anybody
  <1>5. x \in TcpTypes /\ x.by = Nobody /\ x.up = "none" /\ x.down = t.down /\ x.stage = st
    BY <1>1, <1>3, <1>4 DEF TcpTypes
  <1>. HIDE DEF x
  <1>6. \A f \in Elems(x.down) : f.s = s
    BY <1>1, <1>5, Zenon
  <1>7. Turns(s, x)
    BY <1>3, <1>5, <1>6, Zenon DEF Turns, t
  <1>. QED BY <1>2, <1>5, <1>7, Zenon

TcpGoal == tcp' \in [Sessions -> TcpTypes] /\ \A s \in Sessions : Turns(s, tcp'[s])

(* A frame sent on a direct connection.                                    *)
LEMMA TransmitTurns ==
  ASSUME Types, NEW f \in FrameTypes, f.s \in Sessions, Transmit(f)
  PROVE  TcpGoal
  <1>1. CASE Direct(f.s)
    <2>. DEFINE t == tcp[f.s]
    <2>. DEFINE q == Append(t.down, f)
    <2>. DEFINE x == [t EXCEPT !.down = q]
    <2>1. tcp' = [tcp EXCEPT ![f.s].down = Append(@, f)]
      BY <1>1, Zenon DEF Transmit
    <2>2. tcp' = [tcp EXCEPT ![f.s] = x]
      BY <2>1
    <2>3. t \in TcpTypes /\ t.down \in Seq(FrameTypes) /\ \A g \in Elems(t.down) : g.s = f.s
      BY TcpRec, Zenon
    <2>4. q \in Seq(FrameTypes) /\ Elems(q) \subseteq Elems(t.down) \cup {f}
      <3>. DEFINE d == t.down
      <3>1. d \in Seq(FrameTypes)
        BY <2>3, Zenon
      <3>. HIDE DEF d
      <3>2. Append(d, f) \in Seq(FrameTypes) /\ Elems(Append(d, f)) \subseteq Elems(d) \cup {f}
        BY <3>1, AppendIn, Zenon
      <3>. QED BY <3>2, Zenon DEF d
    <2>5. \A g \in Elems(q) : g.s = f.s
      <3>. HIDE DEF t, q
      <3>. QED BY <2>3, <2>4
    <2>. HIDE DEF t, q
    <2>6. x \in TcpTypes /\ x.by = t.by /\ x.up = t.up /\ x.down = q /\ x.stage = t.stage
      BY <2>3, <2>4 DEF TcpTypes
    <2>. HIDE DEF x
    <2>7. Turns(f.s, x)
      BY <2>5, <2>6, Zenon DEF Turns, t
    <2>. QED BY <2>2, <2>7, TcpAt, Zenon DEF TcpGoal
  <1>2. CASE ~Direct(f.s)
    <2>1. tcp' = tcp
      BY <1>2, Zenon DEF Transmit
    <2>. QED BY <2>1, TcpSame, Zenon DEF TcpGoal, Types
  <1>. QED BY <1>1, <1>2, Zenon

(* The connection after a verdict on its admission.                        *)
VerdictTcp(t, admitted) ==
  IF ~admitted THEN [t EXCEPT !.stage = "none", !.try = Nobody, !.by = Nobody]
  ELSE [t EXCEPT !.stage = IF t.by = Nobody THEN "fin" ELSE "open"]

(* A connection is served only after an admission.                         *)
LEMMA VerdictTurns ==
  ASSUME Types, NEW s \in Sessions, NEW admitted \in BOOLEAN, admitted => \E f \in Elems(down) : Begins(f, s)
  PROVE  Turns(s, VerdictTcp(tcp[s], admitted))
  <1>. DEFINE t == tcp[s]
  <1>. DEFINE x == VerdictTcp(t, admitted)
  <1>1. t \in TcpTypes /\ \A f \in Elems(t.down) : f.s = s
    BY TcpRec, Zenon
  <1>2. Nobody \in Anybody
    BY Zenon DEF Anybody
  <1>. HIDE DEF t
  <1>3. CASE ~admitted
    <2>1. x = [t EXCEPT !.stage = "none", !.try = Nobody, !.by = Nobody]
      BY <1>3, Zenon DEF VerdictTcp
    <2>2. x \in TcpTypes /\ x.by = Nobody /\ x.up = t.up /\ x.down = t.down /\ x.stage = "none"
      BY <1>1, <1>2, <2>1 DEF TcpTypes, TcpStages
    <2>. HIDE DEF x
    <2>3. \A f \in Elems(x.down) : f.s = s
      BY <1>1, <2>2, Zenon
    <2>4. x.stage \in Unserved
      BY <2>2, Zenon DEF Unserved
    <2>. QED BY <2>2, <2>3, <2>4, Zenon DEF Turns, t, x
  <1>4. CASE admitted
    <2>. DEFINE st == IF t.by = Nobody THEN "fin" ELSE "open"
    <2>1. x = [t EXCEPT !.stage = st] /\ st \in TcpStages
      BY <1>4, Zenon DEF VerdictTcp, TcpStages
    <2>. HIDE DEF st
    <2>2. x \in TcpTypes /\ x.by = t.by /\ x.up = t.up /\ x.down = t.down
      BY <1>1, <2>1 DEF TcpTypes
    <2>. HIDE DEF x
    <2>3. \A f \in Elems(x.down) : f.s = s
      BY <1>1, <2>2, Zenon
    <2>. QED BY <1>4, <2>2, <2>3, Zenon DEF Turns, t, x
  <1>. QED BY <1>3, <1>4, Zenon

(* A direct connection reads a frame, or is closed over it.                *)
LEMMA DirectTurns ==
  ASSUME Types, NEW s \in Sessions, DirectReceive(s)
  PROVE  TcpGoal
  <1>. DEFINE t == tcp[s]
  <1>. DEFINE f == Head(t.down)
  <1>. DEFINE q == Tail(t.down)
  <1>1. Served(t) /\ t.down # <<>>
    BY Zenon DEF DirectReceive
  <1>2. t \in TcpTypes
    BY TcpRec, Zenon
  <1>3. f \in FrameTypes /\ f.s = s /\ q \in Seq(FrameTypes) /\ \A g \in Elems(q) : g.s = s
    BY <1>1, TcpHead, Zenon
  <1>4. t.stage \notin Unserved
    BY <1>1, Zenon DEF Served, Unserved
  <1>5. CASE Violates(op[s], f)
    <2>. DEFINE x == [t EXCEPT !.stage = "closing", !.down = <<>>]
    <2>1. tcp' = [tcp EXCEPT ![s].stage = "closing", ![s].down = <<>>]
      BY <1>5, Zenon DEF DirectReceive
    <2>2. tcp' = [tcp EXCEPT ![s] = x]
      BY <2>1, <1>2 DEF Types
    <2>3. <<>> \in Seq(FrameTypes) /\ Elems(<<>>) = {}
      BY EmptyIn, Zenon
    <2>. HIDE DEF t
    <2>4. x \in TcpTypes /\ x.by = t.by /\ x.up = t.up /\ x.down = <<>>
      BY <1>2, <2>3 DEF TcpTypes, TcpStages
    <2>. HIDE DEF x
    <2>5. \A g \in Elems(x.down) : g.s = s
      BY <2>3, <2>4, Zenon
    <2>6. Turns(s, x)
      BY <1>4, <2>4, <2>5, Zenon DEF Turns, t
    <2>. QED BY <2>2, <2>6, TcpAt, Zenon DEF TcpGoal
  <1>6. CASE ~Violates(op[s], f)
    <2>. DEFINE u == [t EXCEPT !.down = q]
    <2>. DEFINE h == Handled(f, 0)
    <2>. DEFINE x == IF Answers(f) /\ u.stage = "open" THEN [u EXCEPT !.up = h.kind] ELSE u
    <2>1. tcp' = [tcp EXCEPT ![s] = x] /\ Handle(f, 0)
      BY <1>6, Zenon DEF DirectReceive
    <2>2. u \in TcpTypes /\ u.by = t.by /\ u.up = t.up /\ u.down = q
      <3>. HIDE DEF t, q
      <3>. QED BY <1>2, <1>3 DEF TcpTypes
    <2>3. 0 \in Nat /\ 0 <= conn
      BY DEF Types
    <2>4. op' = [op EXCEPT ![s] = h]
      BY <1>3, <2>1, Zenon DEF Handle
    <2>. HIDE DEF t, q, u, f
    <2>5. /\ h \in OpTypes /\ (op[s].stage = "none" => h.stage = OpenStage(s))
          /\ Repeats(op[s], f) => h = op[s]
      BY <1>3, <2>3, HandledOp, Zenon
    <2>6. Answers(f) => op'[s].stage = "done"
      <3>1. op'[s] = h
        BY <2>4, Zenon DEF Types
      <3>2. Answers(f) => h.stage = "done"
        BY <1>3, <2>5, Zenon DEF Answers, OpenStage
      <3>. QED BY <3>1, <3>2, Zenon
    <2>7. h.kind \in Terminals \cup {"none"}
      BY <2>5, Zenon DEF OpTypes
    <2>. HIDE DEF h
    <2>8. /\ x \in TcpTypes /\ x.by = t.by /\ x.down = q
          /\ x.up # "none" => t.up # "none" \/ op'[s].stage = "done"
      <3>1. CASE Answers(f) /\ u.stage = "open"
        <4>1. x = [u EXCEPT !.up = h.kind]
          BY <3>1, Zenon
        <4>. HIDE DEF x
        <4>2. x \in TcpTypes /\ x.by = t.by /\ x.down = q
          BY <2>2, <2>7, <4>1 DEF TcpTypes
        <4>. QED BY <2>6, <3>1, <4>2, Zenon
      <3>2. CASE ~(Answers(f) /\ u.stage = "open")
        <4>1. x = u
          BY <3>2, Zenon
        <4>. HIDE DEF x
        <4>. QED BY <2>2, <4>1, Zenon
      <3>. QED BY <3>1, <3>2, Zenon
    <2>. HIDE DEF x
    <2>9. \A g \in Elems(x.down) : g.s = s
      BY <1>3, <2>8, Zenon
    <2>10. Turns(s, x)
      BY <1>4, <2>8, <2>9, Zenon DEF Turns, t
    <2>. QED BY <2>1, <2>10, TcpAt, Zenon DEF TcpGoal
  <1>. QED BY <1>5, <1>6, Zenon

(* A served connection is forgotten.                                       *)
LEMMA NoTcpTurns ==
  ASSUME NEW s \in Sessions
  PROVE  Turns(s, NoTcp)
  <1>1. <<>> \in Seq(FrameTypes) /\ Elems(<<>>) = {} /\ Nobody \in Anybody
    BY EmptyIn, Zenon DEF Anybody
  <1>2. NoTcp \in TcpTypes /\ NoTcp.by = Nobody /\ NoTcp.up = "none" /\ NoTcp.stage = "none" /\ NoTcp.down = <<>>
    BY <1>1 DEF NoTcp, TcpTypes, TcpStages
  <1>3. \A f \in Elems(NoTcp.down) : f.s = s
    BY <1>1, <1>2, Zenon
  <1>. QED BY <1>2, <1>3, Zenon DEF Turns, Unserved

(* A worker's terminal on its direct connection.                           *)
LEMMA FinishTurns ==
  ASSUME Types, NEW s \in Sessions, NEW k \in Terminals, Finish(s, k)
  PROVE  TcpGoal
  <1>. DEFINE t == tcp[s]
  <1>. DEFINE kd == IF op[s].via = 0 /\ t.stage = "open" THEN k ELSE t.up
  <1>. DEFINE x == [t EXCEPT !.up = kd]
  <1>1. /\ tcp' = [tcp EXCEPT ![s].up = IF op[s].via = 0 /\ tcp[s].stage = "open" THEN k ELSE @]
        /\ op' = [op EXCEPT ![s] = FinishedOp(op[s], k)]
    BY Zenon DEF Finish, FinishedOp
  <1>2. tcp' = [tcp EXCEPT ![s] = x]
    BY <1>1
  <1>3. t \in TcpTypes /\ t.up \in Terminals \cup {"none"} /\ \A f \in Elems(t.down) : f.s = s
    BY TcpRec, Zenon
  <1>4. kd \in Terminals \cup {"none"}
    BY <1>3
  <1>5. Proceeds(s, FinishedOp(op[s], k)) /\ FinishedOp(op[s], k).stage = "done"
    BY FinishedProceeds, Zenon
  <1>6. op'[s].stage = "done"
    BY <1>1, <1>5, OpAt, Zenon
  <1>. HIDE DEF t, kd
  <1>7. x \in TcpTypes /\ x.by = t.by /\ x.down = t.down /\ x.stage = t.stage
    BY <1>3, <1>4 DEF TcpTypes
  <1>. HIDE DEF x
  <1>8. \A f \in Elems(x.down) : f.s = s
    BY <1>3, <1>7, Zenon
  <1>9. Turns(s, x)
    BY <1>6, <1>7, <1>8, Zenon DEF Turns, t
  <1>. QED BY <1>2, <1>9, TcpAt, Zenon DEF TcpGoal

(* A session is claimed for the request that dialled.                      *)
LEMMA ClaimTurns ==
  ASSUME Types, NEW r \in Requests, ClaimDirect(r)
  PROVE  TcpGoal
  <1>. DEFINE s == Of(r)
  <1>. DEFINE t == tcp[s]
  <1>. DEFINE x == [t EXCEPT !.stage = "consuming", !.try = r, !.by = r]
  <1>1. /\ tcp' = [tcp EXCEPT ![s].stage = "consuming", ![s].try = r, ![s].by = r]
        /\ request' = [request EXCEPT ![r].pc = "verdict"]
    BY Zenon DEF ClaimDirect, To
  <1>2. s \in Sessions /\ r \in Anybody
    BY OfIn, Zenon DEF Anybody
  <1>. HIDE DEF s
  <1>3. tcp' = [tcp EXCEPT ![s] = x]
    BY <1>1, <1>2 DEF Types
  <1>4. t \in TcpTypes /\ \A f \in Elems(t.down) : f.s = s
    BY <1>2, TcpRec, Zenon
  <1>5. request'[r].pc = "verdict"
    <2>1. request \in [Requests -> RequestTypes]
      BY Zenon DEF Types
    <2>2. request[r] \in RequestTypes
      BY <2>1, Zenon
    <2>3. request'[r] = [request[r] EXCEPT !.pc = "verdict"]
      BY <1>1, <2>1
    <2>. QED BY <2>2, <2>3 DEF RequestTypes
  <1>. HIDE DEF t
  <1>6. x \in TcpTypes /\ x.by = r /\ x.up = t.up /\ x.down = t.down /\ x.stage = "consuming"
    BY <1>2, <1>4 DEF TcpTypes, TcpStages
  <1>. HIDE DEF x
  <1>7. \A f \in Elems(x.down) : f.s = s
    BY <1>4, <1>6, Zenon
  <1>8. \E q \in Requests : x.by = q /\ Of(q) = s /\ request'[q].pc = "verdict"
    BY <1>5, <1>6, Zenon DEF s
  <1>9. Turns(s, x)
    BY <1>6, <1>7, <1>8, Zenon DEF Turns, t, Unserved
  <1>. QED BY <1>2, <1>3, <1>9, TcpAt, Zenon DEF TcpGoal

(* The request leaves its route and its direct connection.                 *)
LEMMA ReleaseTurns ==
  ASSUME Types, NEW r \in Requests, Release(r)
  PROVE  TcpGoal /\ tcp'[Of(r)].by # r
  <1>. DEFINE s == Of(r)
  <1>. DEFINE x == IF tcp[s].by # r THEN tcp[s] ELSE LeftTcp(tcp[s])
  <1>1. tcp' = [tcp EXCEPT ![s] = x]
    BY Zenon DEF Release
  <1>2. s \in Sessions
    BY OfIn, Zenon
  <1>. HIDE DEF s
  <1>3. Turns(s, tcp[s]) /\ Turns(s, LeftTcp(tcp[s])) /\ LeftTcp(tcp[s]).by = Nobody
    BY <1>2, TcpSame, LeftTurns, Zenon
  <1>4. Nobody # r
    BY DataPlaneAssumption, Zenon
  <1>5. Turns(s, x) /\ x.by # r
    BY <1>3, <1>4, Zenon
  <1>. HIDE DEF x
  <1>6. tcp'[s] = x /\ TcpGoal
    BY <1>1, <1>2, <1>5, TcpAt, Zenon DEF TcpGoal
  <1>. QED BY <1>5, <1>6, Zenon DEF s

(* Every step of every direct connection.                                  *)
LEMMA TcpMoves ==
  ASSUME Types, [Next]_vars
  PROVE  TcpGoal
  <1>1. CASE tcp' = tcp
    BY <1>1, TcpSame, Zenon DEF TcpGoal, Types
  <1>2. ASSUME NEW r \in Requests, SendOpen(r) \/ SendInput(r) \/ SendCancel(r) PROVE TcpGoal
    <2>1. tcp' = tcp \/ Transmit(OpenFrame(r)) \/ Transmit(InputFrame(r)) \/ Transmit(CancelFrame(r))
      BY <1>2, Zenon DEF SendOpen, SendInput, SendCancel
    <2>2. /\ OpenFrame(r) \in FrameTypes /\ InputFrame(r) \in FrameTypes /\ CancelFrame(r) \in FrameTypes
          /\ OpenFrame(r).s \in Sessions /\ InputFrame(r).s \in Sessions /\ CancelFrame(r).s \in Sessions
      BY HandlerFrames, OfIn, Zenon
    <2>. QED BY <1>1, <2>1, <2>2, TransmitTurns, Zenon
  <1>3. ASSUME NEW r \in Requests, AbortDataPlaneSetup(r) \/ Leave(r) PROVE TcpGoal
    BY <1>3, ReleaseTurns, Zenon DEF AbortDataPlaneSetup, Leave
  <1>4. CASE ControlPlaneCrash
    <2>1. tcp' = [s \in Sessions |-> LeftTcp(tcp[s])]
      BY <1>4, Zenon DEF ControlPlaneCrash
    <2>2. \A s \in Sessions : LeftTcp(tcp[s]) \in TcpTypes /\ Turns(s, LeftTcp(tcp[s]))
      BY LeftTurns, Zenon
    <2>. QED BY <2>1, <2>2, Zenon DEF TcpGoal
  <1>5. CASE RunnerLosesStream \/ RefuseFrame \/ FenceAssignment
    <2>1. tcp' = [s \in Sessions |-> ClosedTcp(tcp[s])]
      BY <1>5, Zenon DEF RunnerLosesStream, RefuseFrame, FenceAssignment, LeaveSession
    <2>2. \A s \in Sessions : ClosedTcp(tcp[s]) \in TcpTypes /\ Turns(s, ClosedTcp(tcp[s]))
      BY ClosedTurns, Zenon
    <2>. QED BY <2>1, <2>2, Zenon DEF TcpGoal
  <1>6. CASE RegisterDirectDataPlaneSession
    <2>. DEFINE s == NextFrame.s
    <2>. DEFINE b == tcp[s].reg \/ (clock[s] = 0 /\ live)
    <2>. DEFINE x == [tcp[s] EXCEPT !.reg = b]
    <2>1. down # <<>> /\ tcp' = [tcp EXCEPT ![s].reg = @ \/ (clock[s] = 0 /\ live)]
      BY <1>6, Zenon DEF RegisterDirectDataPlaneSession, Reads
    <2>2. s \in Sessions
      BY <2>1, DownHead, Zenon
    <2>. HIDE DEF s
    <2>3. tcp' = [tcp EXCEPT ![s] = x]
      BY <2>1
    <2>4. tcp[s] \in TcpTypes /\ \A f \in Elems(tcp[s].down) : f.s = s
      BY <2>2, TcpRec, Zenon
    <2>5. b \in BOOLEAN
      OBVIOUS
    <2>. HIDE DEF b
    <2>6. x \in TcpTypes /\ x.by = tcp[s].by /\ x.up = tcp[s].up /\ x.down = tcp[s].down /\ x.stage = tcp[s].stage
      BY <2>4, <2>5 DEF TcpTypes
    <2>. HIDE DEF x
    <2>7. Turns(s, x)
      BY <2>4, <2>6, Zenon DEF Turns
    <2>. QED BY <2>2, <2>3, <2>7, TcpAt, Zenon DEF TcpGoal
  <1>7. CASE HandleDataPlaneCancel
    <2>. DEFINE s == NextFrame.s
    <2>. DEFINE x == IF Active(op[s]) THEN tcp[s] ELSE ClosedTcp(tcp[s])
    <2>1. down # <<>> /\ tcp' = [tcp EXCEPT ![s] = x]
      BY <1>7, Zenon DEF HandleDataPlaneCancel, Reads
    <2>2. s \in Sessions
      BY <2>1, DownHead, Zenon
    <2>. HIDE DEF s
    <2>3. Turns(s, x)
      BY <2>2, TcpSame, ClosedTurns, Zenon
    <2>. HIDE DEF x
    <2>. QED BY <2>1, <2>2, <2>3, TcpAt, Zenon DEF TcpGoal
  <1>8. CASE ReceiveAdmission
    <2>. DEFINE s == NextFrame.s
    <2>1. /\ down # <<>> /\ NextFrame.type = "admission"
          /\ tcp' = tcp \/ Verdict(s, NextFrame.seq = 1)
      BY <1>8, Zenon DEF ReceiveAdmission, Reads
    <2>2. s \in Sessions /\ NextFrame \in Elems(down)
      BY <2>1, DownHead, Zenon
    <2>. DEFINE b == NextFrame.seq = 1
    <2>3. b \in BOOLEAN
      OBVIOUS
    <2>4. b => \E f \in Elems(down) : Begins(f, s)
      BY <2>1, <2>2, Zenon DEF Begins
    <2>. HIDE DEF s, b
    <2>5. Turns(s, VerdictTcp(tcp[s], b))
      BY <2>2, <2>3, <2>4, VerdictTurns, Zenon
    <2>6. tcp' = tcp \/ tcp' = [tcp EXCEPT ![s] = VerdictTcp(tcp[s], b)]
      BY <2>1, Zenon DEF Verdict, VerdictTcp, b
    <2>. QED BY <1>1, <2>2, <2>5, <2>6, TcpAt, Zenon DEF TcpGoal
  <1>9. ASSUME NEW s \in Sessions, AdmissionTimesOut(s) PROVE TcpGoal
    <2>1. tcp' = [tcp EXCEPT ![s] = VerdictTcp(tcp[s], FALSE)]
      BY <1>9, Zenon DEF AdmissionTimesOut, Verdict, VerdictTcp
    <2>2. \A b \in BOOLEAN : ~b => Turns(s, VerdictTcp(tcp[s], b))
      BY VerdictTurns, Zenon
    <2>3. Turns(s, VerdictTcp(tcp[s], FALSE))
      BY <2>2, Zenon
    <2>. QED BY <2>1, <2>3, TcpAt, Zenon DEF TcpGoal
  <1>10. ASSUME NEW s \in Sessions, DirectBreaks(s) PROVE TcpGoal
    <2>. DEFINE t == tcp[s]
    <2>. DEFINE x == [t EXCEPT !.stage = "closing", !.down = <<>>]
    <2>1. t.stage = "open" /\ tcp' = [tcp EXCEPT ![s].stage = "closing", ![s].down = <<>>]
      BY <1>10, Zenon DEF DirectBreaks
    <2>2. t \in TcpTypes
      BY TcpRec, Zenon
    <2>3. tcp' = [tcp EXCEPT ![s] = x]
      BY <2>1, <2>2 DEF Types
    <2>4. <<>> \in Seq(FrameTypes) /\ Elems(<<>>) = {}
      BY EmptyIn, Zenon
    <2>. HIDE DEF t
    <2>5. x \in TcpTypes /\ x.by = t.by /\ x.up = t.up /\ x.down = <<>>
      BY <2>2, <2>4 DEF TcpTypes, TcpStages
    <2>. HIDE DEF x
    <2>6. t.stage \notin Unserved /\ \A g \in Elems(x.down) : g.s = s
      BY <2>1, <2>4, <2>5, Zenon DEF Unserved
    <2>7. Turns(s, x)
      BY <2>5, <2>6, Zenon DEF Turns, t
    <2>. QED BY <2>3, <2>7, TcpAt, Zenon DEF TcpGoal
  <1>11. ASSUME NEW s \in Sessions, DirectServed(s) PROVE TcpGoal
    <2>1. tcp' = [tcp EXCEPT ![s] = NoTcp]
      BY <1>11, Zenon DEF DirectServed
    <2>. QED BY <2>1, NoTcpTurns, TcpAt, Zenon DEF TcpGoal
  <1>12. tcp' = tcp \/ TcpStep
    BY TcpFrame, Zenon
  <1>13. CASE \E r \in Requests : \/ SendOpen(r) \/ AbortDataPlaneSetup(r) \/ Leave(r) \/ SendCancel(r)
                                  \/ ClaimDirect(r) \/ SendInput(r)
    BY <1>2, <1>3, <1>13, ClaimTurns, Zenon
  <1>14. CASE \E s \in Sessions : AdmissionTimesOut(s) \/ DirectReceive(s) \/ DirectBreaks(s) \/ DirectServed(s)
    BY <1>9, <1>10, <1>11, <1>14, DirectTurns, Zenon
  <1>15. CASE \E s \in Sessions, k \in Terminals : Finish(s, k)
    BY <1>15, FinishTurns, Zenon
  <1>. QED BY <1>1, <1>4, <1>5, <1>6, <1>7, <1>8, <1>12, <1>13, <1>14, <1>15, Zenon DEF TcpStep

-----------------------------------------------------------------------------
(***************************************************************************)
(* The handlers.                                                           *)
(***************************************************************************)
Stands(q, s) == q.pc = "open" \/ (q.pc = "attach" /\ q.seen # "pending" /\ ~Direct(s))
Reported(q) == q.inbox # "none" \/ q.pc = "complete"
Detached(r) == owner'[Of(r)] # r /\ tcp'[Of(r)].by # r
Advances(r, q) ==
  /\ q.pc = "wait" => request[r].pc = "wait" \/ State(Of(r)) # "none"
  /\ q.pc \in Away => request[r].pc \in Away \/ Detached(r)
  /\ Reported(q) => Reported(request[r]) \/ Over(Of(r))
  /\ Stands(q, Of(r)) => \/ Stands(request[r], Of(r)) \/ row'[Of(r)].state \in {"running", "cancelling"}
                         \/ \E f \in Elems(down) : Begins(f, Of(r))
ReqGoal == request' \in [Requests -> RequestTypes] /\ \A r \in Requests : Advances(r, request'[r])

(* A handler left alone advances.                                          *)
LEMMA ReqSame ==
  ASSUME NEW r \in Requests
  PROVE  Advances(r, request[r])
  BY Zenon DEF Advances

(* A step that leaves the handlers alone advances all of them.             *)
LEMMA ReqKept ==
  ASSUME Types, request' = request
  PROVE  ReqGoal
  <1>1. request \in [Requests -> RequestTypes]
    BY Zenon DEF Types
  <1>. QED BY <1>1, ReqSame, Zenon DEF ReqGoal

(* A change of one handler.                                                *)
LEMMA ReqAt ==
  ASSUME Types, NEW r \in Requests, NEW x \in RequestTypes, request' = [request EXCEPT ![r] = x], Advances(r, x)
  PROVE  ReqGoal
  <1>1. request \in [Requests -> RequestTypes]
    BY Zenon DEF Types
  <1>2. request' \in [Requests -> RequestTypes]
    BY <1>1, Zenon
  <1>3. request'[r] = x /\ \A q \in Requests : q # r => request'[q] = request[q]
    BY <1>1, Zenon
  <1>. QED BY <1>2, <1>3, ReqSame, Zenon DEF ReqGoal

(* A handler's next step, with what it read.                               *)
Step(r, p) == [request[r] EXCEPT !.pc = p]
(* The handler's next step keeps what it read.                             *)
LEMMA StepIn ==
  ASSUME Types, NEW r \in Requests, NEW p \in Pcs
  PROVE  /\ Step(r, p) \in RequestTypes /\ Step(r, p).pc = p
         /\ Step(r, p).inbox = request[r].inbox /\ Step(r, p).seen = request[r].seen
         /\ To(r, p) => request' = [request EXCEPT ![r] = Step(r, p)]
  <1>1. request[r] \in RequestTypes
    BY RequestRec, Zenon
  <1>2. To(r, p) => request' = [request EXCEPT ![r] = [request[r] EXCEPT !.pc = p]]
    BY DEF To
  <1>3. Step(r, p) \in RequestTypes /\ Step(r, p).pc = p /\ Step(r, p).inbox = request[r].inbox /\ Step(r, p).seen = request[r].seen
    BY <1>1 DEF RequestTypes, Step
  <1>. QED BY <1>2, <1>3, Zenon DEF Step

(* Steps that neither open, nor complete, nor leave.                       *)
Mid == {"start", "dial", "verdict", "serve", "ask", "asked", "cancel", "record", "leave", "abort"}
(* None of these steps opens, completes or leaves.                         *)
LEMMA MidFacts ==
  ASSUME NEW p \in Mid
  PROVE  p \in Pcs /\ p \notin Away /\ p # "open" /\ p # "complete" /\ p # "attach" /\ p # "wait"
  BY DEF Mid, Pcs, Away

(* A handler at one of these steps claims nothing new.                     *)
LEMMA MidAdvances ==
  ASSUME NEW r \in Requests, NEW x, x.pc \in Mid, x.inbox \in {request[r].inbox, "none"}
  PROVE  Advances(r, x)
  <1>1. x.pc \notin Away /\ x.pc # "open" /\ x.pc # "complete" /\ x.pc # "attach" /\ x.pc # "wait"
    BY MidFacts, Zenon
  <1>. QED BY <1>1, Zenon DEF Advances, Stands, Reported

(* Going on to one of these steps.                                         *)
LEMMA MidTo ==
  ASSUME Types, NEW r \in Requests, NEW p \in Mid, To(r, p)
  PROVE  ReqGoal
  <1>1. p \in Pcs
    BY MidFacts, Zenon
  <1>2. /\ Step(r, p) \in RequestTypes /\ Step(r, p).pc = p /\ Step(r, p).inbox = request[r].inbox
        /\ request' = [request EXCEPT ![r] = Step(r, p)]
    BY <1>1, StepIn, Zenon
  <1>3. Advances(r, Step(r, p))
    BY <1>2, MidAdvances, Zenon
  <1>. QED BY <1>2, <1>3, ReqAt, Zenon

(* The handler returns.                                                    *)
Gone(r) == [NewRequest EXCEPT !.pc = "done", !.open = request[r].open]
(* A handler that returned is well formed.                                 *)
LEMMA GoneIn ==
  ASSUME Types, NEW r \in Requests
  PROVE  Gone(r) \in RequestTypes /\ Gone(r).pc = "done" /\ Gone(r).inbox = "none"
  <1>. DEFINE b == request[r].open
  <1>1. b \in BOOLEAN
    BY RequestRec, Zenon
  <1>2. Gone(r) = [NewRequest EXCEPT !.pc = "done", !.open = b]
    BY Zenon DEF Gone
  <1>. HIDE DEF b
  <1>3. Gone(r) = [pc |-> "done", seen |-> "none", next |-> 1, inbox |-> "none", open |-> b]
    BY <1>2 DEF NewRequest
  <1>. QED BY <1>1, <1>3 DEF RequestTypes, Pcs, RowStates

(* It holds neither route nor connection.                                  *)
LEMMA GoneAdvances ==
  ASSUME Types, NEW r \in Requests, request[r].pc \in Away \/ Detached(r)
  PROVE  Advances(r, Gone(r))
  <1>1. Gone(r).pc = "done" /\ Gone(r).inbox = "none"
    BY GoneIn, Zenon
  <1>. QED BY <1>1, Zenon DEF Advances, Stands, Reported

(* A handler without route and connection, or that left both, returns.     *)
LEMMA DoneMoves ==
  ASSUME Types, NEW r \in Requests, request[r].pc \in Away \/ Detached(r), Done(r)
  PROVE  ReqGoal
  <1>1. request' = [request EXCEPT ![r] = Gone(r)]
    BY Zenon DEF Done, Gone
  <1>. QED BY <1>1, GoneIn, GoneAdvances, ReqAt, Zenon

(* The handler goes on with the state of the session it read.              *)
SeenAt(r, p, v) == [request[r] EXCEPT !.pc = p, !.seen = v]
(* The handler keeps the state it read.                                    *)
LEMMA SeenIn ==
  ASSUME Types, NEW r \in Requests, NEW p \in Pcs, NEW v \in RowStates
  PROVE  /\ SeenAt(r, p, v) \in RequestTypes /\ SeenAt(r, p, v).pc = p
         /\ SeenAt(r, p, v).inbox = request[r].inbox /\ SeenAt(r, p, v).seen = v
         /\ Saw(r, p, v) => request' = [request EXCEPT ![r] = SeenAt(r, p, v)]
  <1>1. request[r] \in RequestTypes
    BY RequestRec, Zenon
  <1>2. Saw(r, p, v) => request' = [request EXCEPT ![r] = [request[r] EXCEPT !.pc = p, !.seen = v]]
    BY DEF Saw, Types
  <1>3. /\ SeenAt(r, p, v) \in RequestTypes /\ SeenAt(r, p, v).pc = p
        /\ SeenAt(r, p, v).inbox = request[r].inbox /\ SeenAt(r, p, v).seen = v
    BY <1>1 DEF RequestTypes, SeenAt
  <1>. QED BY <1>2, <1>3, Zenon DEF SeenAt

Early == {"connect", "attach", "wait", "watch", "done"}
(* A handler that read its session goes on by what it read.                *)
LEMMA SawMoves ==
  ASSUME Types, NEW r \in Requests, NEW p \in Early, NEW v \in RowStates,
         Saw(r, p, v), request[r].pc \in Away,
         p = "wait" => State(Of(r)) # "none",
         p = "attach" => v = "pending" \/ row'[Of(r)].state \in {"running", "cancelling"}
  PROVE  ReqGoal
  <1>1. p \in Pcs /\ p # "open" /\ p # "complete"
    BY Zenon DEF Pcs, Early
  <1>. DEFINE x == SeenAt(r, p, v)
  <1>2. /\ x \in RequestTypes /\ x.pc = p /\ x.inbox = request[r].inbox /\ x.seen = v
        /\ request' = [request EXCEPT ![r] = x]
    BY <1>1, SeenIn
  <1>. HIDE DEF x
  <1>3. Advances(r, x)
    BY <1>1, <1>2, Zenon DEF Advances, Stands, Reported
  <1>. QED BY <1>2, <1>3, ReqAt, Zenon

(* The request before it reaches the Runner.                               *)
LEMMA EarlyMoves ==
  ASSUME DataPlaneInv, NEW r \in Requests,
         Admit(r) \/ Replay(r) \/ WaitEnds(r) \/ WaitExpires(r) \/ Connect(r)
  PROVE  ReqGoal
  <1>. DEFINE s == Of(r)
  <1>0. Types /\ BeginInv
    BY Zenon DEF DataPlaneInv
  <1>1. s \in Sessions /\ State(s) \in RowStates /\ row[s] \in RowTypes /\ row[s].state = State(s)
    BY <1>0, OfIn, RowRec, Zenon
  <1>. HIDE DEF s
  <1>2. CASE Admit(r)
    <2>. DEFINE p == IF Kind(s) = "stream" THEN "connect" ELSE "attach"
    <2>1. Saw(r, p, "pending") /\ request[r].pc = "new"
      BY <1>2, Zenon DEF Admit, At, s
    <2>2. p \in Early /\ p # "wait" /\ "pending" \in RowStates /\ request[r].pc \in Away
      BY <2>1, Zenon DEF Early, RowStates, Away
    <2>. HIDE DEF p
    <2>. QED BY <1>0, <2>1, <2>2, SawMoves
  <1>3. CASE Replay(r)
    <2>. DEFINE p == IF Ended(s) THEN "done" ELSE "wait"
    <2>1. Saw(r, p, State(s)) /\ request[r].pc = "new" /\ State(s) # "none"
      BY <1>3, Zenon DEF Replay, At, s
    <2>2. p \in Early /\ p # "attach" /\ request[r].pc \in Away
      BY <2>1, Zenon DEF Early, Away
    <2>. HIDE DEF p
    <2>. QED BY <1>0, <1>1, <2>1, <2>2, SawMoves DEF s
  <1>4. CASE WaitEnds(r)
    <2>1. request[r].pc \in Away /\ Done(r)
      BY <1>4, Zenon DEF WaitEnds, At, Away
    <2>. QED BY <1>0, <2>1, DoneMoves, Zenon
  <1>5. CASE WaitExpires(r)
    <2>. DEFINE p == IF Kind(s) = "file" THEN "watch" ELSE IF Ended(s) THEN "done" ELSE "attach"
    <2>. DEFINE v == Expired(s).state
    <2>1. Saw(r, p, v) /\ request[r].pc = "wait" /\ row' = [row EXCEPT ![s] = Expired(s)]
      BY <1>5, Zenon DEF WaitExpires, At, s, ExpireDataPlaneSession
    <2>2. p \in Early /\ p # "wait" /\ request[r].pc \in Away /\ (p = "attach" => ~Ended(s))
      BY <2>1, Zenon DEF Early, Away
    <2>3. State(s) # "none"
      BY <1>0, <1>1, <2>1, Zenon DEF BeginInv, s
    <2>4. ~Ended(s) => v = "cancelling"
      <3>1. CASE Unstopped(s)
        <4>1. Expired(s) = [state |-> "cancelling", kind |-> DeadlineKind(s)]
          BY <3>1, Zenon DEF Expired
        <4>. QED BY <4>1
      <3>2. CASE ~Unstopped(s)
        <4>1. Expired(s) = row[s]
          BY <3>2, Zenon DEF Expired
        <4>. QED BY <1>1, <2>3, <3>2, <4>1, Zenon DEF Ended, Unstopped, RowStates
      <3>. QED BY <3>1, <3>2, Zenon
    <2>5. Ended(s) => v = State(s)
      <3>1. Ended(s) => ~Unstopped(s)
        BY Zenon DEF Ended, Unstopped
      <3>. QED BY <1>1, <3>1, Zenon DEF Expired
    <2>6. v \in RowStates
      BY <1>1, <2>4, <2>5, Zenon DEF RowStates
    <2>7. row'[s] = Expired(s)
      BY <1>0, <1>1, <2>1, Zenon DEF Types
    <2>. HIDE DEF p
    <2>8. p = "attach" => row'[s].state \in {"running", "cancelling"}
      BY <2>2, <2>4, <2>7, Zenon
    <2>. HIDE DEF v
    <2>. QED BY <1>0, <2>1, <2>2, <2>6, <2>8, SawMoves DEF s
  <1>6. CASE Connect(r)
    <2>. DEFINE p == IF Unstopped(s) THEN "attach" ELSE "done"
    <2>1. Saw(r, p, State(s)) /\ request[r].pc \in {"new", "connect"} /\ row' = row
      BY <1>6, Zenon DEF Connect, At, s, rows
    <2>2. p \in Early /\ p # "wait" /\ request[r].pc \in Away
      BY <2>1, Zenon DEF Early, Away
    <2>3. p = "attach" => State(s) = "pending" \/ row'[s].state \in {"running", "cancelling"}
      BY <1>1, <2>1, Zenon DEF Unstopped
    <2>. HIDE DEF p
    <2>. QED BY <1>0, <1>1, <2>1, <2>2, <2>3, SawMoves DEF s
  <1>. QED BY <1>2, <1>3, <1>4, <1>5, <1>6, Zenon

(* A handler opens: its session runs, or it read it running.               *)
LEMMA OpenMoves ==
  ASSUME Types, NEW r \in Requests, To(r, "open"),
         Stands(request[r], Of(r)) \/ row'[Of(r)].state \in {"running", "cancelling"}
  PROVE  ReqGoal
  <1>1. "open" \in Pcs /\ "open" \notin Away
    BY Zenon DEF Pcs, Away
  <1>. DEFINE x == Step(r, "open")
  <1>2. /\ x \in RequestTypes /\ x.pc = "open" /\ x.inbox = request[r].inbox
        /\ request' = [request EXCEPT ![r] = x]
    BY <1>1, StepIn
  <1>. HIDE DEF x
  <1>3. Advances(r, x)
    BY <1>1, <1>2, Zenon DEF Advances, Reported
  <1>. QED BY <1>2, <1>3, ReqAt, Zenon

(* A handler takes its session's route, or dials.                          *)
LEMMA AttachMoves ==
  ASSUME Types, NEW r \in Requests, Attach(r)
  PROVE  ReqGoal
  <1>1. /\ request[r].pc = "attach"
        /\ \/ To(r, "dial") \/ To(r, "abort") \/ To(r, "start")
           \/ To(r, "open") /\ request[r].seen # "pending" /\ ~Direct(Of(r))
    BY Zenon DEF Attach, At
  <1>2. CASE To(r, "dial") \/ To(r, "abort") \/ To(r, "start")
    <2>1. "dial" \in Mid /\ "abort" \in Mid /\ "start" \in Mid
      BY Zenon DEF Mid
    <2>. QED BY <1>2, <2>1, MidTo, Zenon
  <1>3. CASE To(r, "open") /\ request[r].seen # "pending" /\ ~Direct(Of(r))
    <2>1. Stands(request[r], Of(r))
      BY <1>1, <1>3, Zenon DEF Stands
    <2>. QED BY <1>3, <2>1, OpenMoves, Zenon
  <1>. QED BY <1>1, <1>2, <1>3, Zenon

(* A handler opens a session it has set running.                           *)
LEMMA StartMoves ==
  ASSUME Types, NEW r \in Requests, StartDataPlaneSession(r)
  PROVE  ReqGoal
  <1>. DEFINE s == Of(r)
  <1>1. To(r, "abort") \/ (To(r, "open") /\ row' = [row EXCEPT ![s].state = "running"])
    BY Zenon DEF StartDataPlaneSession
  <1>2. CASE To(r, "abort")
    <2>1. "abort" \in Mid
      BY Zenon DEF Mid
    <2>. QED BY <1>2, <2>1, MidTo, Zenon
  <1>3. CASE To(r, "open") /\ row' = [row EXCEPT ![s].state = "running"]
    <2>1. s \in Sessions
      BY OfIn, Zenon
    <2>2. row \in [Sessions -> RowTypes] /\ row[s] \in RowTypes
      BY <2>1, Zenon DEF Types
    <2>. HIDE DEF s
    <2>3. row'[s] = [row[s] EXCEPT !.state = "running"]
      BY <1>3, <2>1, <2>2
    <2>4. row'[s].state = "running"
      BY <2>2, <2>3 DEF RowTypes
    <2>5. row'[s].state \in {"running", "cancelling"}
      BY <2>4, Zenon
    <2>. QED BY <1>3, <2>5, OpenMoves, Zenon DEF s
  <1>. QED BY <1>1, <1>2, <1>3, Zenon

(* A handler that sent a frame.                                            *)
LEMMA SentMoves ==
  ASSUME Types, NEW r \in Requests, NEW p \in Mid, NEW n \in Nat, NEW b \in BOOLEAN,
         request' = [request EXCEPT ![r] = [@ EXCEPT !.pc = p, !.next = n, !.open = b]]
  PROVE  ReqGoal
  <1>. DEFINE x == [request[r] EXCEPT !.pc = p, !.next = n, !.open = b]
  <1>1. request[r] \in RequestTypes
    BY RequestRec, Zenon
  <1>2. p \in Pcs
    BY MidFacts, Zenon
  <1>3. x \in RequestTypes /\ x.pc = p /\ x.inbox = request[r].inbox
    BY <1>1, <1>2 DEF RequestTypes
  <1>4. request' = [request EXCEPT ![r] = x]
    BY Zenon
  <1>. HIDE DEF x
  <1>5. Advances(r, x)
    BY <1>3, MidAdvances, Zenon
  <1>. QED BY <1>3, <1>4, <1>5, ReqAt, Zenon

(* A handler sends the Open, an input or a cancellation.                   *)
LEMMA SendMoves ==
  ASSUME Types, NEW r \in Requests, SendOpen(r) \/ SendInput(r) \/ SendCancel(r)
  PROVE  ReqGoal
  <1>0. /\ request \in [Requests -> RequestTypes] /\ request[r] \in RequestTypes
        /\ request[r].next \in Nat /\ request[r].open \in BOOLEAN
    BY RequestRec, Zenon DEF Types
  <1>1. "serve" \in Mid /\ "abort" \in Mid /\ "record" \in Mid /\ "asked" \in Mid
    BY Zenon DEF Mid
  <1>2. CASE SendOpen(r)
    <2>1. \/ request' = [request EXCEPT ![r].pc = "serve", ![r].next = 2, ![r].open = TRUE]
          \/ request' = [request EXCEPT ![r].pc = "serve", ![r].next = 2]
          \/ To(r, "abort")
      BY <1>2, Zenon DEF SendOpen
    <2>2. CASE request' = [request EXCEPT ![r].pc = "serve", ![r].next = 2, ![r].open = TRUE]
      <3>1. request' = [request EXCEPT ![r] = [@ EXCEPT !.pc = "serve", !.next = 2, !.open = TRUE]]
        BY <1>0, <2>2
      <3>. QED BY <1>1, <3>1, SentMoves
    <2>3. CASE request' = [request EXCEPT ![r].pc = "serve", ![r].next = 2]
      <3>1. request' = [request EXCEPT ![r] = [@ EXCEPT !.pc = "serve", !.next = 2, !.open = request[r].open]]
        BY <1>0, <2>3 DEF RequestTypes
      <3>. QED BY <1>0, <1>1, <3>1, SentMoves
    <2>4. CASE To(r, "abort")
      BY <1>1, <2>4, MidTo, Zenon
    <2>. QED BY <2>1, <2>2, <2>3, <2>4, Zenon
  <1>3. CASE SendInput(r)
    <2>1. request[r].pc = "serve" /\ request' = [request EXCEPT ![r].next = @ + 1]
      BY <1>3, Zenon DEF SendInput, At
    <2>. DEFINE n == request[r].next + 1
    <2>2. n \in Nat
      BY <1>0
    <2>3. request' = [request EXCEPT ![r] = [@ EXCEPT !.pc = "serve", !.next = n, !.open = request[r].open]]
      BY <1>0, <2>1 DEF RequestTypes
    <2>. HIDE DEF n
    <2>. QED BY <1>0, <1>1, <2>2, <2>3, SentMoves
  <1>4. CASE SendCancel(r)
    <2>. DEFINE f == CancelFrame(r)
    <2>. DEFINE p == IF request[r].pc = "cancel" \/ ~Sendable(r, f) THEN "record" ELSE "asked"
    <2>. DEFINE n == IF Sendable(r, f) THEN request[r].next + 1 ELSE request[r].next
    <2>1. request' = [request EXCEPT ![r].pc = p, ![r].next = n]
      BY <1>4, Zenon DEF SendCancel
    <2>2. n \in Nat
      BY <1>0
    <2>3. p \in Mid
      BY <1>1, Zenon
    <2>. HIDE DEF n, p
    <2>4. request' = [request EXCEPT ![r] = [@ EXCEPT !.pc = p, !.next = n, !.open = request[r].open]]
      BY <1>0, <2>1 DEF RequestTypes
    <2>. QED BY <1>0, <2>2, <2>3, <2>4, SentMoves
  <1>. QED BY <1>2, <1>3, <1>4, Zenon

(* The terminal a handler receives is of an operation that ended.          *)
LEMMA ReceiveMoves ==
  ASSUME DataPlaneInv, NEW r \in Requests, ReceiveTerminal(r)
  PROVE  ReqGoal
  <1>. DEFINE k == Arrived(r)
  <1>0. Types /\ ProofInv
    BY Zenon DEF DataPlaneInv
  <1>1. /\ request[r].pc = "serve" /\ k # "none"
        /\ \/ request' = [request EXCEPT ![r].pc = "complete", ![r].inbox = k]
           \/ To(r, "cancel")
    BY Zenon DEF ReceiveTerminal, At
  <1>2. CASE To(r, "cancel")
    <2>1. "cancel" \in Mid
      BY Zenon DEF Mid
    <2>. QED BY <1>0, <1>2, <2>1, MidTo, Zenon
  <1>3. CASE request' = [request EXCEPT ![r].pc = "complete", ![r].inbox = k]
    <2>1. k = request[r].inbox \/ k = tcp[Of(r)].up \/ k = "none"
      BY Zenon DEF Arrived
    <2>2. Of(r) \in Sessions
      BY <1>0, OfIn, Zenon
    <2>3. k \in Terminals \cup {"none"}
      <3>1. request[r].inbox \in Terminals \cup {"none"} /\ tcp[Of(r)].up \in Terminals \cup {"none"}
        BY <1>0, <2>2, RequestRec, TcpRec, Zenon
      <3>. HIDE DEF k
      <3>. QED BY <2>1, <3>1
    <2>4. Over(Of(r))
      <3>1. /\ request[r].inbox # "none" => Over(Of(r))
            /\ tcp[Of(r)].up # "none" => Over(Of(r))
        BY <1>0, <2>2, Zenon DEF ProofInv
      <3>. HIDE DEF k
      <3>. QED BY <1>1, <2>1, <3>1, Zenon
    <2>. HIDE DEF k
    <2>. DEFINE x == [request[r] EXCEPT !.pc = "complete", !.inbox = k]
    <2>5. request \in [Requests -> RequestTypes] /\ request[r] \in RequestTypes
      BY <1>0, RequestRec, Zenon DEF Types
    <2>6. x \in RequestTypes /\ x.pc = "complete"
      BY <2>3, <2>5 DEF RequestTypes, Pcs
    <2>7. request' = [request EXCEPT ![r] = x]
      BY <1>3, <2>5
    <2>. HIDE DEF x
    <2>8. Advances(r, x)
      <3>1. x.pc \notin Away /\ x.pc # "wait" /\ x.pc # "open" /\ x.pc # "attach"
        BY <2>6, Zenon DEF Away
      <3>. QED BY <2>4, <3>1, Zenon DEF Advances, Stands
    <2>. QED BY <1>0, <2>6, <2>7, <2>8, ReqAt, Zenon
  <1>. QED BY <1>1, <1>2, <1>3, Zenon

(* A routed terminal reaches the handler that has its session's route.     *)
LEMMA RouteMoves ==
  ASSUME DataPlaneInv, RouteTerminal
  PROVE  ReqGoal
  <1>. DEFINE m == Head(up)
  <1>. DEFINE r == owner[m.s]
  <1>0. Types /\ ProofInv /\ RouteInv
    BY Zenon DEF DataPlaneInv
  <1>1. /\ up # <<>> /\ m.type = "terminal"
        /\ request' = request \/ (r # Nobody /\ request' = [request EXCEPT ![r].inbox = m.kind])
    BY Zenon DEF RouteTerminal
  <1>2. m \in Elems(up) /\ m.s \in Sessions /\ m.kind \in Terminals \cup {"none"}
    BY <1>0, <1>1, UpHead, Zenon
  <1>. HIDE DEF m
  <1>3. CASE r # Nobody /\ request' = [request EXCEPT ![r].inbox = m.kind]
    <2>1. r \in Anybody
      BY <1>0, <1>2, Zenon DEF Types
    <2>2. r \in Requests
      BY <1>3, <2>1, Zenon DEF Anybody
    <2>3. Of(r) = m.s /\ request[r].pc \notin Away
      BY <1>0, <1>2, <2>2, Zenon DEF RouteInv
    <2>4. Over(m.s)
      BY <1>0, <1>1, <1>2, Zenon DEF ProofInv
    <2>. HIDE DEF r
    <2>. DEFINE x == [request[r] EXCEPT !.inbox = m.kind]
    <2>5. request \in [Requests -> RequestTypes] /\ request[r] \in RequestTypes
      BY <1>0, <2>2, RequestRec, Zenon DEF Types
    <2>6. x \in RequestTypes /\ x.pc = request[r].pc /\ x.seen = request[r].seen
      BY <1>2, <2>5 DEF RequestTypes
    <2>7. request' = [request EXCEPT ![r] = x]
      BY <1>3, <2>5
    <2>. HIDE DEF x
    <2>8. Advances(r, x)
      BY <2>3, <2>4, <2>6, Zenon DEF Advances, Stands
    <2>. QED BY <1>0, <2>2, <2>6, <2>7, <2>8, ReqAt, Zenon
  <1>4. CASE request' = request
    BY <1>0, <1>4, ReqKept, Zenon
  <1>. QED BY <1>1, <1>3, <1>4, Zenon

(* Routes removed: what a handler has not taken yet is gone.               *)
LEMMA RemovedMoves ==
  ASSUME Types, RoutesRemoved
  PROVE  ReqGoal
  <1>. DEFINE F(r) == IF owner[Of(r)] = r /\ request[r].pc # "complete"
                      THEN [request[r] EXCEPT !.inbox = "none"] ELSE request[r]
  <1>1. request' = [r \in Requests |-> F(r)]
    BY Zenon DEF RoutesRemoved
  <1>2. ASSUME NEW r \in Requests PROVE request'[r] \in RequestTypes /\ Advances(r, request'[r])
    <2>1. request[r] \in RequestTypes
      BY RequestRec, Zenon
    <2>. DEFINE x == [request[r] EXCEPT !.inbox = "none"]
    <2>2. x \in RequestTypes /\ x.pc = request[r].pc /\ x.seen = request[r].seen /\ x.inbox = "none"
      BY <2>1 DEF RequestTypes
    <2>3. request'[r] = x \/ request'[r] = request[r]
      BY <1>1, Zenon
    <2>. HIDE DEF x
    <2>4. Advances(r, x)
      BY <2>2, Zenon DEF Advances, Stands, Reported
    <2>. QED BY <2>1, <2>2, <2>3, <2>4, ReqSame, Zenon
  <1>. HIDE DEF F
  <1>3. request' \in [Requests -> RequestTypes]
    BY <1>1, <1>2, Zenon
  <1>. QED BY <1>2, <1>3, Zenon DEF ReqGoal

(* A handler that leaves its route and its connection is detached.         *)
LEMMA ReleaseMoves ==
  ASSUME Types, NEW r \in Requests, AbortDataPlaneSetup(r) \/ Leave(r)
  PROVE  ReqGoal
  <1>1. Release(r) /\ (To(r, "record") \/ Done(r))
    BY Zenon DEF AbortDataPlaneSetup, Leave
  <1>2. CASE To(r, "record")
    <2>1. "record" \in Mid
      BY Zenon DEF Mid
    <2>. QED BY <1>2, <2>1, MidTo, Zenon
  <1>3. CASE Done(r)
    <2>. DEFINE s == Of(r)
    <2>. DEFINE x == IF owner[s] = r THEN Nobody ELSE owner[s]
    <2>1. tcp'[s].by # r
      BY <1>1, ReleaseTurns, Zenon
    <2>2. owner' = [owner EXCEPT ![s] = x] /\ s \in Sessions /\ owner \in [Sessions -> Anybody]
      BY <1>1, OfIn, Zenon DEF Release, Types
    <2>3. Nobody # r
      BY DataPlaneAssumption, Zenon
    <2>4. x # r
      BY <2>3, Zenon
    <2>. HIDE DEF x
    <2>5. owner'[s] # r
      BY <2>2, <2>4, Zenon
    <2>6. Detached(r)
      BY <2>1, <2>5, Zenon DEF Detached
    <2>. QED BY <1>3, <2>6, DoneMoves, Zenon
  <1>. QED BY <1>1, <1>2, <1>3, Zenon

(* The process dies with its handlers, routes and connections.             *)
LEMMA CrashMoves ==
  ASSUME Types, ControlPlaneCrash
  PROVE  ReqGoal
  <1>1. /\ owner' = [s \in Sessions |-> Nobody] /\ tcp' = [s \in Sessions |-> LeftTcp(tcp[s])]
        /\ request' = [r \in Requests |-> IF request[r].pc \in {"new", "connect"} THEN request[r] ELSE Gone(r)]
    BY Zenon DEF ControlPlaneCrash, Gone
  <1>2. ASSUME NEW r \in Requests PROVE request'[r] \in RequestTypes /\ Advances(r, request'[r])
    <2>1. request[r] \in RequestTypes /\ Of(r) \in Sessions
      BY RequestRec, OfIn, Zenon
    <2>2. Nobody # r
      BY DataPlaneAssumption, Zenon
    <2>3. owner'[Of(r)] # r
      BY <1>1, <2>1, <2>2, Zenon
    <2>4. tcp'[Of(r)] = LeftTcp(tcp[Of(r)])
      BY <1>1, <2>1, Zenon
    <2>5. LeftTcp(tcp[Of(r)]).by = Nobody
      BY <2>1, LeftTurns, Zenon
    <2>6. Detached(r)
      BY <2>2, <2>3, <2>4, <2>5, Zenon DEF Detached
    <2>7. Advances(r, Gone(r)) /\ Gone(r) \in RequestTypes
      BY <2>6, GoneAdvances, GoneIn, Zenon
    <2>8. request'[r] = request[r] \/ request'[r] = Gone(r)
      BY <1>1, Zenon
    <2>. QED BY <2>1, <2>7, <2>8, ReqSame, Zenon
  <1>3. request' \in [Requests -> RequestTypes]
    BY <1>1, <1>2, Zenon
  <1>. QED BY <1>2, <1>3, Zenon DEF ReqGoal

(* The verdict reaches the handler whose connection the session has.       *)
LEMMA VerdictMoves ==
  ASSUME Types, RouteInv, NEW s \in Sessions, NEW admitted \in BOOLEAN, Verdict(s, admitted),
         admitted => \E f \in Elems(down) : Begins(f, s)
  PROVE  ReqGoal
  <1>. DEFINE p == IF admitted THEN "open" ELSE "abort"
  <1>1. request' = [r \in Requests |-> IF tcp[s].by # r THEN request[r] ELSE Step(r, p)]
    BY Zenon DEF Verdict, Step
  <1>2. p \in Pcs /\ p \notin Away /\ p # "wait" /\ p # "attach" /\ p # "complete" /\ (p = "open" => admitted)
    BY Zenon DEF Pcs, Away
  <1>. HIDE DEF p
  <1>3. ASSUME NEW r \in Requests PROVE request'[r] \in RequestTypes /\ Advances(r, request'[r])
    <2>1. request[r] \in RequestTypes
      BY RequestRec, Zenon
    <2>2. CASE tcp[s].by # r
      <3>1. request'[r] = request[r]
        BY <1>1, <2>2, Zenon
      <3>. QED BY <2>1, <3>1, ReqSame, Zenon
    <2>3. CASE tcp[s].by = r
      <3>1. Of(r) = s
        BY <2>3, Zenon DEF RouteInv
      <3>. DEFINE x == Step(r, p)
      <3>2. x \in RequestTypes /\ x.pc = p /\ x.inbox = request[r].inbox
        BY <1>2, StepIn, Zenon
      <3>3. request'[r] = x
        BY <1>1, <2>3, Zenon
      <3>. HIDE DEF x
      <3>4. x.pc \notin Away /\ x.pc # "wait" /\ x.pc # "attach" /\ x.pc # "complete"
        BY <1>2, <3>2, Zenon
      <3>5. x.pc = "open" => \E f \in Elems(down) : Begins(f, Of(r))
        BY <1>2, <3>1, <3>2, Zenon
      <3>6. Reported(x) => Reported(request[r])
        BY <3>2, <3>4, Zenon DEF Reported
      <3>7. Advances(r, x)
        BY <3>4, <3>5, <3>6, Zenon DEF Advances, Stands
      <3>. QED BY <3>2, <3>3, <3>7, Zenon
    <2>. QED BY <2>2, <2>3, Zenon
  <1>4. request' \in [Requests -> RequestTypes]
    BY <1>1, <1>3, Zenon
  <1>. QED BY <1>3, <1>4, Zenon DEF ReqGoal

(* The steps of a handler that only move on.                               *)
LEMMA PlainMoves ==
  ASSUME Types, NEW r \in Requests,
         \/ Complete(r) \/ ReceiveExpires(r) \/ ReceiveFails(r) \/ ClientGone(r) \/ ClientCancels(r)
         \/ RecordCancellation(r) \/ ClaimDirect(r) \/ DenyDirect(r)
  PROVE  ReqGoal
  <1>1. ASSUME NEW p, To(r, p), p \in {"leave", "cancel", "abort", "record", "ask", "serve", "verdict"} PROVE ReqGoal
    <2>1. p \in Mid
      BY <1>1, Zenon DEF Mid
    <2>. QED BY <1>1, <2>1, MidTo, Zenon
  <1>2. CASE Complete(r) \/ ReceiveExpires(r) \/ ClientCancels(r) \/ ClaimDirect(r) \/ DenyDirect(r)
    <2>1. To(r, "leave") \/ To(r, "ask") \/ To(r, "verdict") \/ To(r, "abort")
      BY <1>2, Zenon DEF Complete, ReceiveExpires, ClientCancels, ClaimDirect, DenyDirect
    <2>. QED BY <1>1, <2>1, Zenon
  <1>3. CASE ReceiveFails(r)
    <2>1. To(r, "cancel") \/ To(r, "leave")
      BY <1>3, Zenon DEF ReceiveFails
    <2>. QED BY <1>1, <2>1, Zenon
  <1>4. CASE RecordCancellation(r)
    <2>1. To(r, "serve") \/ To(r, "leave")
      BY <1>4, Zenon DEF RecordCancellation
    <2>. QED BY <1>1, <2>1, Zenon
  <1>5. CASE ClientGone(r)
    <2>1. \/ request[r].pc \in {"wait", "watch"} /\ Done(r)
          \/ To(r, "abort") \/ To(r, "cancel") \/ To(r, "record")
      BY <1>5, Zenon DEF ClientGone, At
    <2>2. CASE request[r].pc \in {"wait", "watch"} /\ Done(r)
      <3>1. request[r].pc \in Away
        BY <2>2, Zenon DEF Away
      <3>. QED BY <2>2, <3>1, DoneMoves, Zenon
    <2>. QED BY <1>1, <2>1, <2>2, Zenon
  <1>. QED BY <1>2, <1>3, <1>4, <1>5, Zenon

(* Every step of every handler.                                            *)
LEMMA RequestMoves ==
  ASSUME DataPlaneInv, [Next]_vars
  PROVE  ReqGoal
  <1>0. Types /\ RouteInv
    BY Zenon DEF DataPlaneInv
  <1>1. CASE request' = request
    BY <1>0, <1>1, ReqKept, Zenon
  <1>2. ASSUME NEW r \in Requests, Handler(r) \/ Client(r) PROVE ReqGoal
    <2>1. CASE Admit(r) \/ Replay(r) \/ WaitEnds(r) \/ WaitExpires(r) \/ Connect(r)
      BY <2>1, EarlyMoves, Zenon
    <2>2. CASE Attach(r) \/ StartDataPlaneSession(r)
      BY <1>0, <2>2, AttachMoves, StartMoves, Zenon
    <2>3. CASE SendOpen(r) \/ SendInput(r) \/ SendCancel(r)
      BY <1>0, <2>3, SendMoves, Zenon
    <2>4. CASE AbortDataPlaneSetup(r) \/ Leave(r) \/ ReceiveTerminal(r)
      BY <1>0, <2>4, ReleaseMoves, ReceiveMoves, Zenon
    <2>5. CASE \/ Complete(r) \/ ReceiveExpires(r) \/ ReceiveFails(r) \/ ClientGone(r) \/ ClientCancels(r)
               \/ RecordCancellation(r) \/ ClaimDirect(r) \/ DenyDirect(r)
      BY <1>0, <2>5, PlainMoves, Zenon
    <2>. QED BY <1>2, <2>1, <2>2, <2>3, <2>4, <2>5, Zenon DEF Handler, Client
  <1>3. ASSUME NEW s \in Sessions, AdmissionTimesOut(s) PROVE ReqGoal
    <2>1. Verdict(s, FALSE)
      BY <1>3, Zenon DEF AdmissionTimesOut
    <2>. QED BY <1>0, <2>1, VerdictMoves
  <1>4. CASE ReceiveAdmission
    <2>. DEFINE s == NextFrame.s
    <2>. DEFINE b == NextFrame.seq = 1
    <2>1. down # <<>> /\ NextFrame.type = "admission" /\ (request' = request \/ Verdict(s, b))
      BY <1>4, Zenon DEF ReceiveAdmission, Reads
    <2>2. s \in Sessions /\ NextFrame \in Elems(down)
      BY <1>0, <2>1, DownHead, Zenon
    <2>3. b => \E f \in Elems(down) : Begins(f, s)
      BY <2>1, <2>2, Zenon DEF Begins
    <2>4. b \in BOOLEAN
      OBVIOUS
    <2>. HIDE DEF s, b
    <2>. QED BY <1>0, <1>1, <2>1, <2>2, <2>3, <2>4, VerdictMoves, Zenon
  <1>5. CASE Unbind \/ OpenConnection
    <2>1. RoutesRemoved
      BY <1>5, Zenon DEF Unbind, OpenConnection
    <2>. QED BY <1>0, <2>1, RemovedMoves, Zenon
  <1>6. CASE RouteTerminal \/ ControlPlaneCrash
    BY <1>0, <1>6, RouteMoves, CrashMoves, Zenon
  <1>7. request' = request \/ RequestStep
    BY RequestFrame, Zenon
  <1>. QED BY <1>1, <1>2, <1>3, <1>4, <1>5, <1>6, <1>7, Zenon DEF RequestStep

-----------------------------------------------------------------------------
(***************************************************************************)
(* Routes and the invariant.                                               *)
(***************************************************************************)
Holds(s) ==
  \/ owner'[s] = Nobody
  \/ owner'[s] = owner[s]
  \/ \E r \in Requests : owner'[s] = r /\ Of(r) = s /\ cp = "bound" /\ cp' = cp /\ request'[r].pc \notin Away
OwnerGoal == owner' \in [Sessions -> Anybody] /\ \A s \in Sessions : Holds(s)

(* A route is given only to a handler that attaches over a bound           *)
(* connection.                                                             *)
LEMMA OwnerMoves ==
  ASSUME Types, [Next]_vars
  PROVE  OwnerGoal
  <1>0. owner \in [Sessions -> Anybody] /\ Nobody \in Anybody
    BY Zenon DEF Types, Anybody
  <1>1. CASE owner' = owner
    BY <1>0, <1>1, Zenon DEF OwnerGoal, Holds
  <1>2. CASE owner' = [s \in Sessions |-> Nobody]
    BY <1>0, <1>2, Zenon DEF OwnerGoal, Holds
  <1>3. ASSUME NEW r \in Requests, Attach(r) PROVE OwnerGoal
    <2>. DEFINE s == Of(r)
    <2>1. /\ owner' = owner \/ (owner' = [owner EXCEPT ![s] = r] /\ cp = "bound" /\ (To(r, "start") \/ To(r, "open")))
          /\ cp' = cp
      BY <1>3, Zenon DEF Attach, wire
    <2>2. CASE owner' = [owner EXCEPT ![s] = r] /\ cp = "bound" /\ (To(r, "start") \/ To(r, "open"))
      <3>1. s \in Sessions /\ r \in Anybody
        BY OfIn, Zenon DEF Anybody
      <3>2. request \in [Requests -> RequestTypes] /\ request[r] \in RequestTypes
        BY RequestRec, Zenon DEF Types
      <3>3. request'[r].pc = "start" \/ request'[r].pc = "open"
        BY <2>2, <3>2 DEF To, RequestTypes
      <3>4. request'[r].pc \notin Away
        BY <3>3, Zenon DEF Away
      <3>. QED BY <1>0, <2>1, <2>2, <3>1, <3>4, Zenon DEF OwnerGoal, Holds
    <2>. QED BY <1>1, <2>1, <2>2, Zenon
  <1>4. ASSUME NEW r \in Requests, AbortDataPlaneSetup(r) \/ Leave(r) PROVE OwnerGoal
    <2>. DEFINE s == Of(r)
    <2>. DEFINE x == IF owner[s] = r THEN Nobody ELSE owner[s]
    <2>1. owner' = [owner EXCEPT ![s] = x] /\ s \in Sessions
      BY <1>4, OfIn, Zenon DEF AbortDataPlaneSetup, Leave, Release
    <2>2. x = Nobody \/ x = owner[s]
      BY Zenon
    <2>. HIDE DEF x
    <2>. QED BY <1>0, <2>1, <2>2, Zenon DEF OwnerGoal, Holds
  <1>5. CASE Unbind \/ OpenConnection \/ ControlPlaneCrash
    <2>1. owner' = [s \in Sessions |-> Nobody]
      BY <1>5, Zenon DEF Unbind, OpenConnection, ControlPlaneCrash, RoutesRemoved
    <2>. QED BY <1>2, <2>1, Zenon
  <1>6. owner' = owner \/ OwnerStep
    BY OwnerFrame, Zenon
  <1>. QED BY <1>1, <1>3, <1>4, <1>5, <1>6, Zenon DEF OwnerStep

(* A connection whose handler lets go has no route left.                   *)
LEMMA CpMoves ==
  ASSUME Types, [Next]_vars
  PROVE  /\ cp' \in {"bound", "unbound", "off"}
         /\ cp = "bound" => cp' = "bound" \/ \A s \in Sessions : owner'[s] = Nobody
  <1>1. cp' = cp \/ CpStep
    BY CpFrame, Zenon
  <1>2. CASE Unbind \/ OpenConnection \/ ControlPlaneCrash
    <2>1. /\ cp' \in {"bound", "unbound", "off"} /\ owner' = [s \in Sessions |-> Nobody]
      BY <1>2, Zenon DEF Unbind, OpenConnection, ControlPlaneCrash, RoutesRemoved
    <2>. QED BY <2>1, Zenon
  <1>3. CASE CloseConnection
    BY <1>3, Zenon DEF CloseConnection
  <1>. QED BY <1>1, <1>2, <1>3, Zenon DEF CpStep, Types

(* A route or a direct connection stays with a handler that uses it.       *)
LEMMA RouteKept ==
  ASSUME DataPlaneInv, [Next]_vars
  PROVE  RouteInv'
  <1>0. Types /\ RouteInv /\ ReqGoal /\ OwnerGoal /\ TcpGoal /\ setup' = setup
    BY RequestMoves, OwnerMoves, TcpMoves, SetupKept, Zenon DEF DataPlaneInv
  <1>1. ASSUME NEW s \in Sessions, NEW r \in Requests, owner'[s] = r
        PROVE  Of(r) = s /\ cp' = "bound" /\ request'[r].pc \notin Away
    <2>1. Holds(s) /\ r # Nobody
      BY <1>0, DataPlaneAssumption, Zenon DEF OwnerGoal
    <2>2. CASE owner[s] = r
      <3>1. Of(r) = s /\ cp = "bound" /\ request[r].pc \notin Away
        BY <1>0, <2>2, Zenon DEF RouteInv
      <3>2. cp' = "bound"
        BY <1>0, <1>1, <2>1, <3>1, CpMoves, Zenon
      <3>3. Advances(r, request'[r])
        BY <1>0, Zenon DEF ReqGoal
      <3>4. request'[r].pc \notin Away
        BY <1>1, <3>1, <3>3, Zenon DEF Advances, Detached
      <3>. QED BY <3>1, <3>2, <3>4, Zenon
    <2>. QED BY <1>1, <2>1, <2>2, Zenon DEF Holds
  <1>2. ASSUME NEW s \in Sessions, NEW r \in Requests, tcp'[s].by = r
        PROVE  Of(r) = s /\ request'[r].pc \notin Away
    <2>1. r # Nobody /\ Turns(s, tcp'[s])
      BY <1>0, DataPlaneAssumption, Zenon DEF TcpGoal
    <2>2. CASE tcp[s].by = r
      <3>1. Of(r) = s /\ request[r].pc \notin Away
        BY <1>0, <2>2, Zenon DEF RouteInv
      <3>3. Advances(r, request'[r])
        BY <1>0, Zenon DEF ReqGoal
      <3>. QED BY <1>2, <3>1, <3>3, Zenon DEF Advances, Detached
    <2>3. CASE \E q \in Requests : tcp'[s].by = q /\ Of(q) = s /\ request'[q].pc = "verdict"
      BY <1>2, <2>3, Zenon DEF Away
    <2>. QED BY <1>2, <2>1, <2>2, <2>3, Zenon DEF Turns
  <1>3. \A s \in Sessions, r \in Requests :
          /\ owner'[s] = r => Of(r) = s /\ cp' = "bound" /\ request'[r].pc \notin Away
          /\ tcp'[s].by = r => Of(r) = s /\ request'[r].pc \notin Away
    BY <1>1, <1>2, Zenon
  <1>4. \A r \in Requests : Of(r)' = Of(r)
    BY <1>0, Zenon DEF Of
  <1>. QED BY <1>3, <1>4, Zenon DEF RouteInv

(* The clock, the Assignment and the flags keep their ranges.              *)
LEMMA SmallTypes ==
  ASSUME Types, [Next]_vars
  PROVE  /\ clock' \in [Sessions -> 0..2] /\ assignment' \in {"ready", "fencing", "fenced"}
         /\ lease' \in BOOLEAN /\ online' \in BOOLEAN /\ cut' \in BOOLEAN /\ rn' \in BOOLEAN /\ live' \in BOOLEAN
  <1>1. clock' \in [Sessions -> 0..2]
    <2>1. clock \in [Sessions -> 0..2]
      BY Zenon DEF Types
    <2>2. ASSUME NEW s \in Sessions, TimePasses(s) PROVE clock' \in [Sessions -> 0..2]
      <3>. DEFINE x == clock[s] + 1
      <3>1. clock' = [clock EXCEPT ![s] = x] /\ clock[s] < IF Kind(s) = "file" THEN 1 ELSE 2
        BY <2>2, Zenon DEF TimePasses
      <3>2. clock[s] \in 0..2
        BY <2>1, Zenon
      <3>3. x \in 0..2
        BY <3>1, <3>2
      <3>. HIDE DEF x
      <3>. QED BY <2>1, <3>1, <3>3, Zenon
    <2>. QED BY <2>1, <2>2, ClockFrame, Zenon DEF ClockStep
  <1>2. assignment' \in {"ready", "fencing", "fenced"}
    <2>1. assignment' = assignment \/ assignment' = "fencing" \/ assignment' = "fenced"
      BY AssignmentFrame, Zenon DEF AssignmentStep, AssignmentFenced, StopSandbox
    <2>. QED BY <2>1, Zenon DEF Types
  <1>3. lease' \in BOOLEAN
    BY LeaseFrame, Zenon DEF LeaseStep, LeaseEnds, Types
  <1>4. online' \in BOOLEAN
    BY OnlineFrame, Zenon DEF OnlineStep, CloseConnection, OpenConnection, Types
  <1>5. cut' \in BOOLEAN
    <2>1. cut' = cut \/ cut' = TRUE \/ cut' = FALSE
      BY CutFrame, Zenon DEF CutStep, RefuseFrame, RunnerLosesStream, LeaveSession, OpenConnection, StreamBreaks,
                             ControlPlaneCrash
    <2>. QED BY <2>1, Zenon DEF Types
  <1>6. rn' \in BOOLEAN
    BY RnFrame, Zenon DEF RnStep, RefuseFrame, RunnerLosesStream, LeaveSession, OpenConnection, Types
  <1>7. live' \in BOOLEAN
    BY LiveFrame, Zenon DEF LiveStep, FenceAssignment, Types
  <1>. QED BY <1>1, <1>2, <1>3, <1>4, <1>5, <1>6, <1>7, Zenon

(* Connections are numbered upwards.                                       *)
LEMMA ConnMoves ==
  ASSUME Types, [Next]_vars
  PROVE  conn' \in Nat \ {0} /\ conn <= conn'
  <1>1. conn' = conn \/ conn' = conn + 1
    BY ConnFrame, Zenon DEF ConnStep, OpenConnection
  <1>2. conn \in Nat \ {0}
    BY Zenon DEF Types
  <1>. QED BY <1>1, <1>2

(* The sweep selects sessions.                                             *)
LEMMA DueMoves ==
  ASSUME Types, [Next]_vars
  PROVE  due' \subseteq [s : Sessions, late : BOOLEAN]
  <1>0. due \subseteq [s : Sessions, late : BOOLEAN] /\ lease \in BOOLEAN
    BY Zenon DEF Types
  <1>1. ASSUME NEW d \in due, SweepSession(d) PROVE due' \subseteq due
    BY <1>1, Zenon DEF SweepSession
  <1>2. CASE SweepSelect
    <2>1. due' = {[s |-> s, late |-> lease] : s \in {x \in Sessions : Sweepable(x)}}
      BY <1>2, Zenon DEF SweepSelect
    <2>. QED BY <1>0, <2>1
  <1>3. CASE ControlPlaneCrash
    <2>1. due' = {}
      BY <1>3, Zenon DEF ControlPlaneCrash
    <2>. QED BY <2>1, Zenon
  <1>. QED BY <1>0, <1>1, <1>2, <1>3, DueFrame, Zenon DEF DueStep

(* Every step keeps the types.                                             *)
LEMMA TypesKept ==
  ASSUME DataPlaneInv, [Next]_vars
  PROVE  Types'
  <1>0. Types
    BY Zenon DEF DataPlaneInv
  <1>1. setup' = setup /\ row' \in [Sessions -> RowTypes]
    BY SetupKept, RowMoves, Zenon
  <1>2. request' \in [Requests -> RequestTypes] /\ owner' \in [Sessions -> Anybody]
    BY <1>0, RequestMoves, OwnerMoves, Zenon DEF ReqGoal, OwnerGoal
  <1>3. up' \in Seq(ReportTypes) /\ down' \in Seq(FrameTypes)
    BY <1>0, UpMoves, DownMoves, Zenon DEF DownGoal
  <1>4. op' \in [Sessions -> OpTypes] /\ starts' \in [Sessions -> Nat] /\ \A s \in Sessions : op'[s].via <= conn
    BY <1>0, OpMoves, Zenon DEF Proceeds
  <1>5. conn' \in Nat \ {0} /\ conn <= conn' /\ conn \in Nat \ {0}
    BY <1>0, ConnMoves, Zenon DEF Types
  <1>6. \A s \in Sessions : op'[s].via <= conn'
    <2>1. ASSUME NEW s \in Sessions PROVE op'[s].via <= conn'
      <3>1. op'[s] \in OpTypes /\ op'[s].via <= conn
        BY <1>4, Zenon
      <3>2. op'[s].via \in Nat
        BY <3>1, Zenon DEF OpTypes
      <3>. QED BY <1>5, <3>1, <3>2
    <2>. QED BY <2>1, Zenon
  <1>7. tcp' \in [Sessions -> TcpTypes] /\ \A s \in Sessions : \A f \in Elems(tcp'[s].down) : f.s = s
    BY <1>0, TcpMoves, Zenon DEF TcpGoal, Turns
  <1>8. setup' \in SetupTypes
    BY <1>0, <1>1, Zenon DEF Types
  <1>9. \A s \in Sessions : \A f \in Elems(tcp'[s].down) : f.s = s
    BY <1>7, Zenon
  <1>10. /\ cp' \in {"bound", "unbound", "off"} /\ due' \subseteq [s : Sessions, late : BOOLEAN]
         /\ clock' \in [Sessions -> 0..2] /\ assignment' \in {"ready", "fencing", "fenced"}
         /\ lease' \in BOOLEAN /\ online' \in BOOLEAN /\ cut' \in BOOLEAN /\ rn' \in BOOLEAN /\ live' \in BOOLEAN
    BY <1>0, CpMoves, DueMoves, SmallTypes, Zenon
  <1>. QED BY <1>1, <1>2, <1>3, <1>4, <1>5, <1>6, <1>7, <1>8, <1>10, Zenon DEF Types, Elems

(* The Assignment ends only after its fence took effect on the Runner.     *)
LEMMA FenceKept ==
  ASSUME DataPlaneInv, [Next]_vars
  PROVE  FenceInv'
  <1>1. FenceInv
    BY Zenon DEF DataPlaneInv
  <1>2. CASE live' = live
    <2>1. assignment' = assignment \/ assignment' = "fencing" \/ (assignment' = "fenced" /\ ~live)
      BY AssignmentFrame, Zenon DEF AssignmentStep, AssignmentFenced, StopSandbox
    <2>. QED BY <1>1, <1>2, <2>1, Zenon DEF FenceInv
  <1>3. CASE live' = FALSE
    BY <1>3, Zenon DEF FenceInv
  <1>. QED BY <1>2, <1>3, LiveFrame, Zenon DEF LiveStep, FenceAssignment

(* Terminals on their way, or read, stay true: an operation that ended     *)
(* stays so.                                                               *)
LEMMA ProofKept ==
  ASSUME DataPlaneInv, [Next]_vars
  PROVE  ProofInv'
  <1>0. Types /\ ProofInv /\ ReqGoal /\ TcpGoal /\ setup' = setup
    BY RequestMoves, TcpMoves, SetupKept, Zenon DEF DataPlaneInv
  <1>1. \A s \in Sessions : Over(s) => op'[s].stage = "done"
    BY <1>0, OpMoves, Zenon DEF Proceeds
  <1>2. ASSUME NEW m \in Elems(up'), m.type = "terminal" PROVE op'[m.s].stage = "done"
    <2>1. m \in Elems(up) \/ Sound(m)
      BY <1>0, UpMoves, Zenon
    <2>2. CASE m \in Elems(up)
      <3>1. up \in Seq(ReportTypes)
        BY <1>0, Zenon DEF Types
      <3>2. m \in ReportTypes
        BY <2>2, <3>1, ElemsIn, Zenon
      <3>3. m.s \in Sessions /\ Over(m.s)
        BY <1>0, <1>2, <2>2, <3>2, Zenon DEF ReportTypes, ProofInv
      <3>. QED BY <1>1, <3>3, Zenon
    <2>3. CASE Sound(m)
      BY <1>2, <2>3, Zenon DEF Sound
    <2>. QED BY <2>1, <2>2, <2>3, Zenon
  <1>3. ASSUME NEW r \in Requests, Reported(request'[r]) PROVE op'[Of(r)].stage = "done"
    <2>1. Advances(r, request'[r]) /\ Of(r) \in Sessions
      BY <1>0, OfIn, Zenon DEF ReqGoal
    <2>2. Reported(request[r]) => Over(Of(r))
      BY <1>0, Zenon DEF ProofInv, Reported
    <2>. QED BY <1>1, <1>3, <2>1, <2>2, Zenon DEF Advances
  <1>4. ASSUME NEW s \in Sessions, tcp'[s].up # "none" PROVE op'[s].stage = "done"
    <2>1. Turns(s, tcp'[s])
      BY <1>0, Zenon DEF TcpGoal
    <2>2. tcp[s].up # "none" => Over(s)
      BY <1>0, Zenon DEF ProofInv
    <2>. QED BY <1>1, <1>4, <2>1, <2>2, Zenon DEF Turns
  <1>5. \A r \in Requests : Of(r)' = Of(r)
    BY <1>0, Zenon DEF Of
  <1>6. \A r \in Requests : request'[r].inbox # "none" \/ request'[r].pc = "complete" => op'[Of(r)'].stage = "done"
    BY <1>3, <1>5, Zenon DEF Reported
  <1>. QED BY <1>2, <1>4, <1>6, Zenon DEF ProofInv, Over, Elems

(* Nothing begins the work of a session whose row does not come to run.    *)
LEMMA UnbegunKept ==
  ASSUME DataPlaneInv, [Next]_vars, NEW s \in Sessions, Unbegun(s)
  PROVE  Unbegun(s)' \/ row'[s].state \in {"running", "cancelling"}
  <1>0. Types /\ ReqGoal /\ TcpGoal /\ DownGoal /\ setup' = setup
    BY RequestMoves, TcpMoves, DownMoves, SetupKept, Zenon DEF DataPlaneInv
  <1>1. /\ op[s].stage \in {"none", "done"} /\ tcp[s].stage \in Unserved
        /\ \A f \in Elems(down) : ~Begins(f, s)
        /\ \A r \in Requests : Of(r) = s => ~Opens(r)
    BY Zenon DEF Unbegun, Unserved
  <1>2. op'[s].stage \in {"none", "done"}
    <2>1. Proceeds(s, op'[s])
      BY <1>0, OpMoves, Zenon
    <2>2. op'[s].stage \in OpStages
      BY <2>1, Zenon DEF Proceeds, OpTypes
    <2>3. ~Active(op[s])
      BY <1>1, Zenon DEF Active
    <2>4. ~Begun(s)
      BY <1>1, Zenon DEF Begun, Served, Unserved
    <2>5. ~Active(op'[s])
      BY <2>1, <2>3, <2>4, Zenon DEF Proceeds
    <2>. QED BY <2>2, <2>5, Zenon DEF Active, OpStages
  <1>3. tcp'[s].stage \in Unserved
    <2>1. Turns(s, tcp'[s])
      BY <1>0, Zenon DEF TcpGoal
    <2>. QED BY <1>1, <2>1, Zenon DEF Turns
  <1>. SUFFICES ASSUME row'[s].state \notin {"running", "cancelling"} PROVE Unbegun(s)'
    BY Zenon
  <1>4. \A f \in Elems(down') : ~Begins(f, s)
    <2>1. ~Founded(s)
      BY <1>1, Zenon DEF Founded, Opens
    <2>. QED BY <1>0, <1>1, <2>1, Zenon DEF DownGoal
  <1>5. ASSUME NEW r \in Requests, Of(r) = s PROVE ~Stands(request'[r], s)
    <2>1. Advances(r, request'[r])
      BY <1>0, Zenon DEF ReqGoal
    <2>2. ~Stands(request[r], Of(r))
      BY <1>1, <1>5, Zenon DEF Opens, Stands
    <2>. QED BY <1>1, <1>5, <2>1, <2>2, Zenon DEF Advances
  <1>6. \A r \in Requests : Of(r)' = Of(r)
    BY <1>0, Zenon DEF Of
  <1>7. Direct(s)' = Direct(s)
    BY <1>0, Zenon DEF Direct
  <1>8. ASSUME NEW r \in Requests, Of(r)' = s PROVE ~Opens(r)'
    <2>1. Of(r) = s
      BY <1>6, <1>8, Zenon
    <2>2. ~Stands(request'[r], s)
      BY <1>5, <2>1, Zenon
    <2>3. Direct(Of(r))' = Direct(s)
      BY <1>0, <1>8, Zenon DEF Direct
    <2>4. Opens(r)' => Stands(request'[r], s)
      BY <2>3, Zenon DEF Opens, Stands
    <2>. QED BY <2>2, <2>4, Zenon
  <1>9. op'[s].stage \in {"none", "done"} /\ tcp'[s].stage \in {"none", "consuming"}
    BY <1>2, <1>3, Zenon DEF Unserved
  <1>10. \A f \in Elems(down)' : ~Begins(f, s)'
    BY <1>4, Zenon DEF Elems, Begins
  <1>11. \A r \in Requests : Of(r)' = s => ~Opens(r)'
    BY <1>8, Zenon
  <1>. QED BY <1>9, <1>10, <1>11, Zenon DEF Unbegun

(* No work begins before its session runs or after it ended.               *)
LEMMA BeginKept ==
  ASSUME DataPlaneInv, [Next]_vars
  PROVE  BeginInv'
  <1>0. Types /\ BeginInv /\ ReqGoal /\ setup' = setup
    BY RequestMoves, SetupKept, Zenon DEF DataPlaneInv
  <1>1. live' = live \/ live' = FALSE
    BY LiveFrame, Zenon DEF LiveStep, FenceAssignment
  <1>2. ASSUME NEW s \in Sessions
        PROVE  /\ row'[s].state \in {"none", "pending"} => Unbegun(s)'
               /\ row'[s].state \in {"completed", "failed"} /\ row'[s].kind # "LOST"
                    => op'[s].stage = "done" \/ ~live' \/ Unbegun(s)'
               /\ \A r \in Requests : Of(r) = s /\ request'[r].pc = "wait" => row'[s].state # "none"
    <2>1. Moves(s, row'[s])
      BY RowMoves, Zenon
    <2>2. /\ State(s) \in {"none", "pending"} => Unbegun(s)
          /\ Ended(s) /\ row[s].kind # "LOST" => Over(s) \/ ~live \/ Unbegun(s)
          /\ \A r \in Requests : Of(r) = s /\ request[r].pc = "wait" => State(s) # "none"
      BY <1>0, Zenon DEF BeginInv
    <2>3. Over(s) => op'[s].stage = "done"
      BY <1>0, OpMoves, Zenon DEF Proceeds
    <2>4. Unbegun(s) => Unbegun(s)' \/ row'[s].state \in {"running", "cancelling"}
      BY UnbegunKept, Zenon
    <2>5. row'[s].state = "none" => State(s) = "none"
      BY <2>1 DEF Moves, State, Unstopped, Ended
    <2>6. row'[s].state \in {"none", "pending"} => State(s) \in {"none", "pending"}
      BY <2>1 DEF Moves, State, Unstopped, Ended
    <2>7. row'[s].state \in {"completed", "failed"} /\ row'[s].kind # "LOST"
            => (Ended(s) /\ row[s].kind # "LOST") \/ State(s) = "pending" \/ Over(s) \/ ~live
      BY <2>1 DEF Moves, State, Unstopped, Ended, Finished
    <2>8. row'[s].state \in {"none", "pending"} => Unbegun(s)'
      BY <2>2, <2>4, <2>6, Zenon
    <2>9. row'[s].state \in {"completed", "failed"} => row'[s].state \notin {"running", "cancelling"}
      BY Zenon
    <2>10. row'[s].state \in {"completed", "failed"} /\ row'[s].kind # "LOST"
             => op'[s].stage = "done" \/ ~live' \/ Unbegun(s)'
      BY <1>1, <2>2, <2>3, <2>4, <2>7, <2>9, Zenon
    <2>11. ASSUME NEW r \in Requests, Of(r) = s, request'[r].pc = "wait" PROVE row'[s].state # "none"
      <3>1. Advances(r, request'[r])
        BY <1>0, Zenon DEF ReqGoal
      <3>2. request[r].pc = "wait" \/ State(s) # "none"
        BY <2>11, <3>1, Zenon DEF Advances
      <3>. QED BY <2>2, <2>5, <2>11, <3>2, Zenon
    <2>. QED BY <2>8, <2>10, <2>11, Zenon
  <1>3. \A r \in Requests : Of(r)' = Of(r)
    BY <1>0, Zenon DEF Of
  <1>. QED BY <1>2, <1>3, Zenon DEF BeginInv, State, Ended, Over

(* The initial state: nothing admitted, nothing on its way.                *)
LEMMA InitInv ==
  ASSUME Init
  PROVE  DataPlaneInv
  <1>. PICK c \in Scenarios :
       /\ setup = [kind |-> c.kind, direct |-> c.direct, of |-> c.of, later |-> c.later]
       /\ row = [s \in Sessions |-> [state |-> "none", kind |-> "none"]]
       /\ clock = [s \in Sessions |-> 0]
       /\ assignment = "ready" /\ lease = TRUE /\ online = TRUE
       /\ request = [r \in Requests |-> [NewRequest EXCEPT !.pc = IF r \in c.idle THEN "done" ELSE @]]
       /\ owner = [s \in Sessions |-> Nobody] /\ due = {}
       /\ conn = 1 /\ cut = FALSE /\ cp = "bound" /\ rn = TRUE
       /\ up = <<>> /\ down = <<>> /\ live = TRUE
       /\ op = [s \in Sessions |-> NoOp] /\ tcp = [s \in Sessions |-> NoTcp]
       /\ starts = [s \in Sessions |-> 0]
    BY Zenon DEF Init
  <1>0. /\ c.kind \in [Sessions -> Kinds] /\ c.direct \subseteq Sessions
        /\ c.of \in [Requests -> Sessions] /\ c.later \subseteq Requests
    BY DataPlaneAssumption, Zenon
  <1>1. setup \in SetupTypes
    BY <1>0 DEF SetupTypes
  <1>2. \A s \in Sessions : row[s] \in RowTypes /\ row[s].state = "none"
    BY DEF RowTypes, RowStates
  <1>3. row \in [Sessions -> RowTypes]
    BY <1>2, Zenon
  <1>4. \A r \in Requests : /\ request[r] \in RequestTypes /\ request[r].pc \in {"new", "done"}
                            /\ request[r].inbox = "none"
    BY DEF NewRequest, RequestTypes, Pcs, RowStates
  <1>5. request \in [Requests -> RequestTypes]
    BY <1>4, Zenon
  <1>6. owner \in [Sessions -> Anybody] /\ Nobody \in Anybody
    BY Zenon DEF Anybody
  <1>7. NoOp \in OpTypes /\ NoOp.stage = "none" /\ NoOp.via = 0
    BY DEF NoOp, OpTypes, OpStages
  <1>8. /\ NoTcp \in TcpTypes /\ NoTcp.stage = "none" /\ NoTcp.by = Nobody /\ NoTcp.up = "none" /\ NoTcp.down = <<>>
    BY <1>6 DEF NoTcp, TcpTypes, TcpStages
  <1>9. /\ up \in Seq(ReportTypes) /\ down \in Seq(FrameTypes) /\ Elems(up) = {} /\ Elems(down) = {}
    BY EmptyIn, Zenon
  <1>10. \A s \in Sessions : op[s] = NoOp /\ tcp[s] = NoTcp /\ owner[s] = Nobody /\ starts[s] = 0
    BY Zenon
  <1>11. Elems(NoTcp.down) = {}
    BY <1>8, EmptyIn, Zenon
  <1>12. \A s \in Sessions : op[s].via <= conn /\ \A f \in Elems(tcp[s].down) : f.s = s
    <2>1. \A s \in Sessions : op[s].via <= conn
      BY <1>7, <1>10
    <2>2. \A s \in Sessions : \A f \in Elems(tcp[s].down) : f.s = s
      BY <1>10, <1>11, Zenon
    <2>. QED BY <2>1, <2>2, Zenon
  <1>13. op \in [Sessions -> OpTypes] /\ tcp \in [Sessions -> TcpTypes]
    BY <1>7, <1>8, Zenon
  <1>14. clock \in [Sessions -> 0..2] /\ starts \in [Sessions -> Nat] /\ conn \in Nat \ {0}
    OBVIOUS
  <1>15. Types
    BY <1>1, <1>3, <1>5, <1>6, <1>9, <1>12, <1>13, <1>14, Zenon DEF Types
  <1>16. RouteInv
    BY <1>8, <1>10, DataPlaneAssumption, Zenon DEF RouteInv
  <1>17. OnceInv
    BY <1>10 DEF OnceInv
  <1>18. FenceInv
    BY Zenon DEF FenceInv
  <1>19. ProofInv
    BY <1>4, <1>8, <1>9, <1>10, Zenon DEF ProofInv
  <1>20. BeginInv
    <2>1. ASSUME NEW s \in Sessions PROVE Unbegun(s) /\ State(s) = "none"
      <3>1. \A r \in Requests : ~Opens(r)
        BY <1>4, Zenon DEF Opens
      <3>. QED BY <1>2, <1>7, <1>8, <1>9, <1>10, <3>1, Zenon DEF Unbegun, State
    <2>2. \A r \in Requests : request[r].pc # "wait"
      BY <1>4, Zenon
    <2>. QED BY <2>1, <2>2, Zenon DEF BeginInv
  <1>. QED BY <1>15, <1>16, <1>17, <1>18, <1>19, <1>20, Zenon DEF DataPlaneInv

(* DataPlaneInv is inductive.                                              *)
LEMMA StepInv ==
  ASSUME DataPlaneInv, [Next]_vars
  PROVE  DataPlaneInv'
  BY TypesKept, RouteKept, OnceKept, FenceKept, ProofKept, BeginKept, Zenon DEF DataPlaneInv

(* DataPlaneInv is an invariant of the data plane.                         *)
LEMMA Invariance ==
  Spec => []DataPlaneInv
  <1>1. Init => DataPlaneInv
    BY InitInv, Zenon
  <1>2. DataPlaneInv /\ [Next]_vars => DataPlaneInv'
    BY StepInv, Zenon
  <1>. QED BY <1>1, <1>2, PTL DEF Spec

-----------------------------------------------------------------------------
(***************************************************************************)
(* The theorems.                                                           *)
(***************************************************************************)

(* Rows, clocks, routes and operations keep their ranges: every write of   *)
(* data_plane.go, of the broker and of the Runner stays within them.       *)
THEOREM DataPlaneTypes ==
  Spec => []TypeOK
  <1>1. ASSUME DataPlaneInv PROVE TypeOK
    <2>0. Types
      BY <1>1, Zenon DEF DataPlaneInv
    <2>1. row \in [Sessions -> [state : {"none", "pending", "running", "cancelling", "completed", "failed"},
                                kind : {"none", "DONE", "FAILED", "CANCELLED", "DEADLINE", "LOST"}]]
      <3>1. Terminals \cup {"none", "LOST"} = {"none", "DONE", "FAILED", "CANCELLED", "DEADLINE", "LOST"}
        BY DEF Terminals
      <3>2. row \in [Sessions -> [state : RowStates, kind : Terminals \cup {"none", "LOST"}]]
        BY <2>0, Zenon DEF Types, RowTypes
      <3>. QED BY <3>1, <3>2, Zenon DEF RowStates
    <2>2. {lease, online, cut, rn, live} \subseteq BOOLEAN
      BY <2>0, Zenon DEF Types
    <2>3. owner \in [Sessions -> Requests \union {Nobody}]
      BY <2>0, Zenon DEF Types, Anybody
    <2>4. ASSUME NEW s \in Sessions
          PROVE  /\ op[s].stage \in {"none", "upload", "run", "done"} /\ op[s].via \in 0..conn
                 /\ tcp[s].stage \in {"none", "consuming", "open", "fin", "closing"}
      <3>1. op[s].stage \in OpStages /\ op[s].via <= conn /\ op[s].via \in Nat /\ tcp[s].stage \in TcpStages
        BY <2>0, OpRec, TcpRec, Zenon
      <3>2. conn \in Nat
        BY <2>0, Zenon DEF Types
      <3>3. op[s].via \in 0..conn
        BY <3>1, <3>2
      <3>. QED BY <3>1, <3>3, Zenon DEF OpStages, TcpStages
    <2>. QED BY <2>0, <2>1, <2>2, <2>3, <2>4, Zenon DEF TypeOK, Types
  <1>. QED BY <1>1, Invariance, PTL

(* The guest work of an admitted operation is started at most once, for    *)
(* every number of requests, attachments, redeliveries and reconnects: an  *)
(* Open meets the operation or the terminal the Runner retains.            *)
THEOREM GuestWorkOnce ==
  Spec => []RunsOnce
  <1>1. DataPlaneInv => RunsOnce
    BY Zenon DEF DataPlaneInv, OnceInv, RunsOnce
  <1>. QED BY <1>1, Invariance, PTL

(* A session that completed, failed, was cancelled or timed out has no     *)
(* guest work left on the Runner: its end was written from a terminal the  *)
(* Runner sent, after its fence, or before anything could begin the work.  *)
THEOREM EndIsFinal ==
  Spec => []EndedMeansStopped
  <1>1. ASSUME DataPlaneInv, NEW s \in Sessions, Ended(s), Executing(s) PROVE row[s].kind = "LOST"
    <2>1. op[s].stage = "run" /\ live
      BY <1>1, Zenon DEF Executing
    <2>2. ~Over(s) /\ ~Unbegun(s)
      BY <2>1, Zenon DEF Over, Unbegun
    <2>. QED BY <1>1, <2>1, <2>2, Zenon DEF DataPlaneInv, BeginInv
  <1>2. DataPlaneInv => EndedMeansStopped
    BY <1>1, Zenon DEF EndedMeansStopped
  <1>. QED BY <1>2, Invariance, PTL

(* Routes of the broker and direct connections are held only by handlers   *)
(* that still use them, and routes only while their connection is bound.   *)
THEOREM RoutesReleased ==
  Spec => []NothingOutlivesItsHandler
  <1>1. DataPlaneInv => NothingOutlivesItsHandler
    BY Zenon DEF DataPlaneInv, RouteInv, NothingOutlivesItsHandler, At, Away
  <1>. QED BY <1>1, Invariance, PTL

(* The outcome a session ended with is never rewritten, and a recorded     *)
(* cancellation or deadline stays the outcome unless the Runner is lost.   *)
THEOREM OutcomesStand ==
  Spec => OutcomeSettled
  <1>1. ASSUME DataPlaneInv, [Next]_vars
        PROVE  [\A s \in Sessions : /\ Ended(s) => row'[s] = row[s]
                                    /\ State(s) = "cancelling" => row'[s].kind \in {row[s].kind, "LOST"}]_vars
    BY <1>1, RowSettled, Zenon
  <1>. QED BY <1>1, Invariance, PTL DEF Spec, OutcomeSettled
=============================================================================
