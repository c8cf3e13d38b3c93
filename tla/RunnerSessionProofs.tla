------------------------ MODULE RunnerSessionProofs -------------------------
(***************************************************************************)
(* RunnerSession implements EventLog, for any number of connections,       *)
(* commands and faults, any window and any batch sizes; and the Runner's   *)
(* row stays ready while the connection it names is active.                *)
(*                                                                         *)
(* The command frames of a connection are ones the Runner accepts, however *)
(* many connections, handlers and faults there are: the numbers that       *)
(* ClaimCommands gives go up, no command is claimed twice for a connection *)
(* and the first claim begins with its reconciliation.                     *)
(***************************************************************************)
EXTENDS RunnerSession, TLAPS

UpFrame   == [seq : Nat, kind : {"registration", "heartbeat", "result", "terminal"},
              cmd : Commands \cup {NoCommand}]
DownFrame == [seq : Nat, cmd : Commands \cup {NoCommand}]
LogEntry  == [conn : Conns, seq : Nat]
Phases    == {"none", "greeted", "open", "registered", "closed"}
States    == {"none", "active", "superseded", "disconnected"}

SessionTypeOK ==
  /\ dialled \in 0..MaxConn /\ rconn \in 0..MaxConn
  /\ rphase \in {"idle", "hello", "serving"} /\ sequence \in Nat
  /\ running \in SUBSET (Commands \cup {NoCommand})
  /\ up \in [Conns -> Seq(UpFrame)] /\ wire \in [Conns -> Seq(UpFrame)]
  /\ batch \in [Conns -> Seq(UpFrame)]
  /\ down \in [Conns -> Seq(DownFrame)]
  /\ phase \in [Conns -> Phases] /\ cstate \in [Conns -> States]
  /\ lastSeq \in [Conns -> Nat] /\ lastControl \in [Conns -> Nat]
  /\ log \in Seq(LogEntry)

(* The Runner serves a connection it dialled, or none.                     *)
Dialled ==
  /\ rconn <= dialled
  /\ rphase = "idle" <=> rconn = 0
  /\ rconn = 0 => running = {}
  /\ \A c \in Conns : c > dialled => wire[c] = <<>> /\ phase[c] = "none"

(* A connection is opened once, and one at most is active.                 *)
OpenedOnce ==
  /\ \A c \in Conns : phase[c] \in {"none", "greeted"} => cstate[c] = "none"
  /\ \A c, d \in Conns : Active(c) /\ Active(d) => c = d

UpTo(s, n) == \A i \in 1..Len(s) : s[i].seq <= n

(* Numbers go up along a connection: nothing on its way is newer than the  *)
(* last message sent, and the Runner's counter is not behind it.           *)
Numbered ==
  /\ rconn # 0 => Sent(rconn) <= sequence
  /\ \A c \in Conns : UpTo(wire[c], Sent(c)) /\ UpTo(up[c], Sent(c)) /\ UpTo(batch[c], Sent(c))

SessionInv == SessionTypeOK /\ Dialled /\ OpenedOnce /\ Numbered

-----------------------------------------------------------------------------
(* What the steps of each part leave alone. *)

Talk == Register \/ Serve \/ LoseSession \/ sendInstanceTerminal \/ Restart
        \/ \E k \in Commands : Finish(k)

Ending == \E c \in Conns : CloseConnection(c) \/ GiveUp(c) \/ Crash(c) \/ Break(c)

Opening == \E c \in Conns : OpenConnection(c)

Reading == \E c \in Conns :
  \/ RecordRegistration(c) \/ RecordHeartbeat(c) \/ collectDurableEventBatch(c)
  \/ RecordEvents(c) \/ RecordEvent(c) \/ PersistFails(c) \/ Replay(c)

Issuing == InsertCommand \/ \E k \in Commands : ExpireCommand(k)

Delivering == \E c \in Conns :
  SendCommands(c) \/ SendFails(c) \/ MarkCommandsDelivered(c) \/ PumpFails(c)

LEMMA Steps ==
  ASSUME [Next]_vars
  PROVE  UNCHANGED vars \/ Connect \/ Talk \/ Opening \/ Ending \/ Reading \/ Issuing \/ Delivering
<1>1. CASE Loop \/ Work
  BY <1>1, Zenon DEF Loop, Work, Talk
<1>2. CASE Environment
  BY <1>2, Zenon DEF Environment, Talk, Issuing, Reading, Delivering, Ending
<1>3. CASE \E c \in Conns : Reader(c) \/ Pump(c)
  BY <1>3, Zenon DEF Reader, Pump, Opening, Reading, Delivering, Ending
<1> QED
  BY <1>1, <1>2, <1>3, Zenon DEF Next

(* A step that changes nothing. *)
LEMMA IdleFrames ==
  ASSUME UNCHANGED vars
  PROVE  UNCHANGED <<dialled, rconn, rphase, sequence, accepted, running, up, down, wire,
                     phase, window, batch, pump, lastSeq, log, cstate, lastControl, rowConn, rowState,
                     cmdState, cmdTarget, created, kinds>>
  BY Zenon DEF vars, runner, streams, handlers, ordered, rows, commands, bounds

(* The steps of the Runner. *)
LEMMA ConnectFrames ==
  ASSUME Connect
  PROVE  UNCHANGED <<sequence, up, wire, window, batch, pump, lastSeq, log, cstate, lastControl,
                     rowConn, rowState, cmdState, cmdTarget, created, kinds>>
  BY Zenon DEF Connect, ordered, rows, commands, bounds

LEMMA TalkFrames ==
  ASSUME Talk
  PROVE  /\ UNCHANGED <<dialled, phase, window, batch, pump, lastSeq, log, cstate, lastControl,
                        rowConn, rowState, cmdState, cmdTarget, created, kinds>>
         /\ UNCHANGED accepted \/ Serve
         /\ UNCHANGED down \/ Register \/ Serve
<1>1. CASE Register
  BY <1>1, Zenon DEF Register, handlers, ordered, rows, commands, bounds
<1>2. CASE Serve
  BY <1>2, Zenon DEF Serve, handlers, ordered, rows, commands, bounds
<1>3. CASE LoseSession
  BY <1>3, Zenon DEF LoseSession, streams, handlers, ordered, rows, commands, bounds
<1>4. CASE sendInstanceTerminal
  BY <1>4, Zenon DEF sendInstanceTerminal, handlers, ordered, rows, commands, bounds, Spend
<1>5. CASE Restart
  BY <1>5, Zenon DEF Restart, handlers, ordered, rows, commands, bounds, Fault, Spend
<1>6. ASSUME NEW k \in Commands, Finish(k)
      PROVE  UNCHANGED <<dialled, phase, window, batch, pump, lastSeq, log, cstate, lastControl,
                         rowConn, rowState, cmdState, cmdTarget, created, kinds, accepted, down>>
  BY <1>6, Zenon DEF Finish, handlers, ordered, rows, commands, bounds
<1> QED
  BY <1>1, <1>2, <1>3, <1>4, <1>5, <1>6, Zenon DEF Talk

(* The steps that open and end a connection. *)
LEMMA OpeningFrames ==
  ASSUME Opening
  PROVE  UNCHANGED <<dialled, rconn, rphase, sequence, accepted, running, up, down, wire, window, batch,
                     pump, lastSeq, log, lastControl, rowConn, rowState, created, kinds>>
  BY Zenon DEF Opening, OpenConnection, runner, streams, ordered, bounds

LEMMA EndingFrames ==
  ASSUME Ending
  PROVE  /\ UNCHANGED <<dialled, rconn, rphase, sequence, accepted, running, up, down, wire, window,
                        lastSeq, log, lastControl, rowConn, cmdState, cmdTarget, created, kinds>>
         /\ UNCHANGED <<cstate, rowState>> \/ \E c \in Conns : CloseConnection(c)
         /\ UNCHANGED phase \/ \E c \in Conns : CloseConnection(c) \/ GiveUp(c) \/ Crash(c)
         /\ UNCHANGED batch \/ \E c \in Conns : Crash(c)
         /\ UNCHANGED pump \/ \E c \in Conns : CloseConnection(c) \/ Crash(c)
<1>1. ASSUME NEW c \in Conns, CloseConnection(c)
      PROVE  UNCHANGED <<dialled, rconn, rphase, sequence, accepted, running, up, down, wire, window,
                         lastSeq, log, lastControl, rowConn, cmdState, cmdTarget, created, kinds, batch>>
  BY <1>1, Zenon DEF CloseConnection, runner, ordered, commands, bounds
<1>2. ASSUME NEW c \in Conns, GiveUp(c)
      PROVE  UNCHANGED <<dialled, rconn, rphase, sequence, accepted, running, up, down, wire, window,
                         lastSeq, log, lastControl, rowConn, cmdState, cmdTarget, created, kinds,
                         cstate, rowState, batch, pump>>
  BY <1>2, Zenon DEF GiveUp, runner, streams, ordered, rows, commands, bounds
<1>3. ASSUME NEW c \in Conns, Crash(c)
      PROVE  UNCHANGED <<dialled, rconn, rphase, sequence, accepted, running, up, down, wire, window,
                         lastSeq, log, lastControl, rowConn, cmdState, cmdTarget, created, kinds,
                         cstate, rowState>>
  BY <1>3, Zenon DEF Crash, runner, ordered, rows, commands, Fault, Spend
<1>4. ASSUME NEW c \in Conns, Break(c)
      PROVE  UNCHANGED <<dialled, rconn, rphase, sequence, accepted, running, up, down, wire, window,
                         lastSeq, log, lastControl, rowConn, cmdState, cmdTarget, created, kinds,
                         cstate, rowState, phase, batch, pump>>
  BY <1>4, Zenon DEF Break, runner, handlers, ordered, rows, commands, Fault, Spend
<1> QED
  BY <1>1, <1>2, <1>3, <1>4, Zenon DEF Ending

(* The steps that read and record messages. *)
LEMMA ReadingFrames ==
  ASSUME Reading
  PROVE  /\ UNCHANGED <<dialled, rconn, rphase, sequence, accepted, running, down, wire, pump, cstate,
                        lastControl, cmdTarget, created, kinds>>
         /\ UNCHANGED up \/ \E c \in Conns :
              RecordRegistration(c) \/ RecordHeartbeat(c) \/ collectDurableEventBatch(c) \/ Replay(c)
         /\ UNCHANGED window \/ \E c \in Conns :
              RecordRegistration(c) \/ RecordHeartbeat(c) \/ collectDurableEventBatch(c)
         /\ UNCHANGED batch \/ \E c \in Conns :
              collectDurableEventBatch(c) \/ RecordEvents(c) \/ RecordEvent(c) \/ PersistFails(c)
         /\ UNCHANGED <<lastSeq, log>> \/ \E c \in Conns :
              RecordRegistration(c) \/ RecordHeartbeat(c) \/ RecordEvents(c) \/ RecordEvent(c)
         /\ UNCHANGED <<phase, rowConn>> \/ \E c \in Conns : RecordRegistration(c)
         /\ UNCHANGED rowState \/ \E c \in Conns : RecordRegistration(c) \/ RecordHeartbeat(c)
         /\ UNCHANGED cmdState \/ \E c \in Conns : RecordEvents(c) \/ RecordEvent(c)
<1>1. ASSUME NEW c \in Conns, RecordRegistration(c)
      PROVE  UNCHANGED <<dialled, rconn, rphase, sequence, accepted, running, down, wire, pump, cstate,
                         lastControl, cmdTarget, created, kinds, batch, cmdState>>
  BY <1>1, Zenon DEF RecordRegistration, runner, commands, bounds
<1>2. ASSUME NEW c \in Conns, RecordHeartbeat(c)
      PROVE  UNCHANGED <<dialled, rconn, rphase, sequence, accepted, running, down, wire, pump, cstate,
                         lastControl, cmdTarget, created, kinds, batch, cmdState, phase, rowConn>>
  BY <1>2, Zenon DEF RecordHeartbeat, runner, commands, bounds
<1>3. ASSUME NEW c \in Conns, collectDurableEventBatch(c)
      PROVE  UNCHANGED <<dialled, rconn, rphase, sequence, accepted, running, down, wire, pump, cstate,
                         lastControl, cmdTarget, created, kinds, cmdState, phase, rowConn,
                         lastSeq, log, rowState>>
  BY <1>3, Zenon DEF collectDurableEventBatch, runner, ordered, rows, commands, bounds
<1>4. ASSUME NEW c \in Conns, RecordEvents(c)
      PROVE  UNCHANGED <<dialled, rconn, rphase, sequence, accepted, running, down, wire, pump, cstate,
                         lastControl, cmdTarget, created, kinds, phase, rowConn, rowState, up, window>>
  BY <1>4, Zenon DEF RecordEvents, runner, streams, rows, acknowledge, Count, Fault, Spend, commands, bounds
<1>5. ASSUME NEW c \in Conns, RecordEvent(c)
      PROVE  UNCHANGED <<dialled, rconn, rphase, sequence, accepted, running, down, wire, pump, cstate,
                         lastControl, cmdTarget, created, kinds, phase, rowConn, rowState, up, window>>
  BY <1>5, Zenon DEF RecordEvent, runner, streams, rows, acknowledge, Count, Fault, Spend, commands, bounds
<1>6. ASSUME NEW c \in Conns, PersistFails(c)
      PROVE  UNCHANGED <<dialled, rconn, rphase, sequence, accepted, running, down, wire, pump, cstate,
                         lastControl, cmdTarget, created, kinds, phase, rowConn, rowState, up, window,
                         lastSeq, log, cmdState>>
  BY <1>6, Zenon DEF PersistFails, runner, streams, ordered, rows, commands, Fault, Spend
<1>7. ASSUME NEW c \in Conns, Replay(c)
      PROVE  UNCHANGED <<dialled, rconn, rphase, sequence, accepted, running, down, wire, pump, cstate,
                         lastControl, cmdTarget, created, kinds, phase, rowConn, rowState, window,
                         lastSeq, log, cmdState, batch>>
  BY <1>7, Zenon DEF Replay, runner, handlers, ordered, rows, commands, Spend
<1> QED
  BY <1>1, <1>2, <1>3, <1>4, <1>5, <1>6, <1>7, Zenon DEF Reading

(* The steps that insert, expire and deliver commands. *)
LEMMA IssuingFrames ==
  ASSUME Issuing
  PROVE  /\ UNCHANGED <<dialled, rconn, rphase, sequence, accepted, running, up, down, wire,
                        phase, window, batch, pump, lastSeq, log, cstate, lastControl, rowConn, rowState,
                        kinds>>
         /\ UNCHANGED created \/ InsertCommand
         /\ UNCHANGED cmdTarget \/ \E k \in Commands : ExpireCommand(k)
<1>1. CASE InsertCommand
  BY <1>1, Zenon DEF InsertCommand, runner, streams, handlers, ordered, rows, bounds
<1>2. ASSUME NEW k \in Commands, ExpireCommand(k)
      PROVE  UNCHANGED <<dialled, rconn, rphase, sequence, accepted, running, up, down, wire,
                         phase, window, batch, pump, lastSeq, log, cstate, lastControl, rowConn, rowState,
                         kinds, created>>
  BY <1>2, Zenon DEF ExpireCommand, runner, streams, handlers, ordered, rows, Spend
<1> QED
  BY <1>1, <1>2, Zenon DEF Issuing

LEMMA DeliveringFrames ==
  ASSUME Delivering
  PROVE  /\ UNCHANGED <<dialled, rconn, rphase, sequence, accepted, running, up, wire,
                        phase, window, batch, lastSeq, log, cstate, rowConn, rowState, created, kinds>>
         /\ UNCHANGED <<down, lastControl, cmdTarget>> \/ \E c \in Conns : SendCommands(c) \/ SendFails(c)
         /\ UNCHANGED pump \/ \E c \in Conns : SendCommands(c) \/ MarkCommandsDelivered(c)
         /\ UNCHANGED cmdState
              \/ \E c \in Conns : SendCommands(c) \/ SendFails(c) \/ MarkCommandsDelivered(c)
<1>1. ASSUME NEW c \in Conns, SendCommands(c)
      PROVE  UNCHANGED <<dialled, rconn, rphase, sequence, accepted, running, up, wire,
                         phase, window, batch, lastSeq, log, cstate, rowConn, rowState, created, kinds>>
  BY <1>1, Zenon DEF SendCommands, runner, ordered, bounds
<1>2. ASSUME NEW c \in Conns, SendFails(c)
      PROVE  UNCHANGED <<dialled, rconn, rphase, sequence, accepted, running, up, wire,
                         phase, window, batch, lastSeq, log, cstate, rowConn, rowState, created, kinds, pump>>
  BY <1>2, Zenon DEF SendFails, runner, ordered, Fault, Spend
<1>3. ASSUME NEW c \in Conns, MarkCommandsDelivered(c)
      PROVE  UNCHANGED <<dialled, rconn, rphase, sequence, accepted, running, up, wire,
                         phase, window, batch, lastSeq, log, cstate, rowConn, rowState, created, kinds,
                         down, lastControl, cmdTarget>>
  BY <1>3, Zenon DEF MarkCommandsDelivered, runner, streams, ordered, rows, bounds
<1>4. ASSUME NEW c \in Conns, PumpFails(c)
      PROVE  UNCHANGED <<dialled, rconn, rphase, sequence, accepted, running, up, wire,
                         phase, window, batch, lastSeq, log, cstate, rowConn, rowState, created, kinds,
                         down, lastControl, cmdTarget, pump, cmdState>>
  BY <1>4, Zenon DEF PumpFails, runner, streams, ordered, rows, commands, bounds
<1> QED
  BY <1>1, <1>2, <1>3, <1>4, Zenon DEF Delivering

(* The steps that may change each variable. *)
LEMMA Touches ==
  ASSUME [Next]_vars
  PROVE  /\ UNCHANGED dialled \/ Connect
         /\ UNCHANGED <<rconn, rphase, running>> \/ Connect \/ Talk
         /\ UNCHANGED <<sequence, wire>> \/ Talk
         /\ UNCHANGED accepted \/ Connect \/ Serve
         /\ UNCHANGED up \/ Talk \/ \E c \in Conns :
              RecordRegistration(c) \/ RecordHeartbeat(c) \/ collectDurableEventBatch(c) \/ Replay(c)
         /\ UNCHANGED down \/ Connect \/ Register \/ Serve
              \/ \E c \in Conns : SendCommands(c) \/ SendFails(c)
         /\ UNCHANGED lastControl \/ \E c \in Conns : SendCommands(c) \/ SendFails(c)
         /\ UNCHANGED phase \/ Connect \/ \E c \in Conns : \/ OpenConnection(c) \/ RecordRegistration(c)
                                                       \/ CloseConnection(c) \/ GiveUp(c) \/ Crash(c)
         /\ UNCHANGED window \/ \E c \in Conns :
              RecordRegistration(c) \/ RecordHeartbeat(c) \/ collectDurableEventBatch(c)
         /\ UNCHANGED batch \/ \E c \in Conns : \/ collectDurableEventBatch(c) \/ RecordEvents(c)
                                              \/ RecordEvent(c) \/ PersistFails(c) \/ Crash(c)
         /\ UNCHANGED pump \/ \E c \in Conns : \/ SendCommands(c) \/ MarkCommandsDelivered(c)
                                             \/ CloseConnection(c) \/ Crash(c)
         /\ UNCHANGED cstate \/ \E c \in Conns : OpenConnection(c) \/ CloseConnection(c)
         /\ UNCHANGED <<lastSeq, log>> \/ \E c \in Conns :
              RecordRegistration(c) \/ RecordHeartbeat(c) \/ RecordEvents(c) \/ RecordEvent(c)
         /\ UNCHANGED rowConn \/ \E c \in Conns : RecordRegistration(c)
         /\ UNCHANGED rowState \/ \E c \in Conns :
              RecordRegistration(c) \/ RecordHeartbeat(c) \/ CloseConnection(c)
         /\ UNCHANGED cmdState \/ InsertCommand \/ (\E k \in Commands : ExpireCommand(k))
              \/ \E c \in Conns : \/ OpenConnection(c) \/ RecordEvents(c) \/ RecordEvent(c)
                                \/ SendCommands(c) \/ SendFails(c) \/ MarkCommandsDelivered(c)
         /\ UNCHANGED cmdTarget \/ (\E k \in Commands : ExpireCommand(k))
              \/ \E c \in Conns : OpenConnection(c) \/ SendCommands(c) \/ SendFails(c)
         /\ UNCHANGED created \/ InsertCommand
         /\ UNCHANGED kinds
<1> USE Steps, IdleFrames, ConnectFrames, TalkFrames, OpeningFrames, EndingFrames,
        ReadingFrames, IssuingFrames, DeliveringFrames
<1>1. UNCHANGED dialled \/ Connect
  BY Zenon
<1>2. UNCHANGED <<rconn, rphase, running>> \/ Connect \/ Talk
  BY Zenon
<1>3. UNCHANGED <<sequence, wire>> \/ Talk
  BY Zenon
<1>4. UNCHANGED accepted \/ Connect \/ Serve
  BY Zenon
<1>5. UNCHANGED up \/ Talk \/ \E c \in Conns :
       RecordRegistration(c) \/ RecordHeartbeat(c) \/ collectDurableEventBatch(c) \/ Replay(c)
  BY Zenon
<1>6. UNCHANGED down \/ Connect \/ Register \/ Serve
       \/ \E c \in Conns : SendCommands(c) \/ SendFails(c)
  BY Zenon
<1>7. UNCHANGED lastControl \/ \E c \in Conns : SendCommands(c) \/ SendFails(c)
  BY Zenon
<1>8. UNCHANGED phase \/ Connect \/ \E c \in Conns : \/ OpenConnection(c) \/ RecordRegistration(c)
                                                \/ CloseConnection(c) \/ GiveUp(c) \/ Crash(c)
  BY Zenon DEF Opening
<1>9. UNCHANGED window \/ \E c \in Conns :
       RecordRegistration(c) \/ RecordHeartbeat(c) \/ collectDurableEventBatch(c)
  BY Zenon
<1>10. UNCHANGED batch \/ \E c \in Conns : \/ collectDurableEventBatch(c) \/ RecordEvents(c)
                                       \/ RecordEvent(c) \/ PersistFails(c) \/ Crash(c)
  BY Zenon
<1>11. UNCHANGED pump \/ \E c \in Conns : \/ SendCommands(c) \/ MarkCommandsDelivered(c)
                                      \/ CloseConnection(c) \/ Crash(c)
  BY Zenon
<1>12. UNCHANGED cstate \/ \E c \in Conns : OpenConnection(c) \/ CloseConnection(c)
  BY Zenon DEF Opening
<1>13. UNCHANGED <<lastSeq, log>> \/ \E c \in Conns :
       RecordRegistration(c) \/ RecordHeartbeat(c) \/ RecordEvents(c) \/ RecordEvent(c)
  BY Zenon
<1>14. UNCHANGED rowConn \/ \E c \in Conns : RecordRegistration(c)
  BY Zenon
<1>15. UNCHANGED rowState \/ \E c \in Conns :
       RecordRegistration(c) \/ RecordHeartbeat(c) \/ CloseConnection(c)
  BY Zenon
<1>16. UNCHANGED cmdState \/ InsertCommand \/ (\E k \in Commands : ExpireCommand(k))
       \/ \E c \in Conns : \/ OpenConnection(c) \/ RecordEvents(c) \/ RecordEvent(c)
                         \/ SendCommands(c) \/ SendFails(c) \/ MarkCommandsDelivered(c)
  BY Zenon DEF Opening, Issuing
<1>17. UNCHANGED cmdTarget \/ (\E k \in Commands : ExpireCommand(k))
       \/ \E c \in Conns : OpenConnection(c) \/ SendCommands(c) \/ SendFails(c)
  BY Zenon DEF Opening
<1>18. UNCHANGED created \/ InsertCommand
  BY Zenon
<1>19. UNCHANGED kinds
  BY Zenon
<1> QED
  BY ONLY <1>1, <1>2, <1>3, <1>4, <1>5, <1>6, <1>7, <1>8, <1>9, <1>10,
     <1>11, <1>12, <1>13, <1>14, <1>15, <1>16, <1>17, <1>18, <1>19, Zenon
-----------------------------------------------------------------------------
(* Streams. *)

LEMMA SentType == ASSUME wire \in [Conns -> Seq(UpFrame)], NEW c \in Conns PROVE Sent(c) \in Nat
<1>1. wire[c] \in Seq(UpFrame)
  OBVIOUS
<1>2. CASE wire[c] # <<>>
  <2>1. wire[c][Len(wire[c])] \in UpFrame
    BY <1>1, <1>2
  <2> QED
    BY <2>1, <1>2 DEF Sent, UpFrame
<1> QED
  BY <1>2 DEF Sent

LEMMA Concat ==
  ASSUME NEW S, NEW s \in Seq(S), NEW t \in Seq(S)
  PROVE  /\ s \o t \in Seq(S) /\ Len(s \o t) = Len(s) + Len(t) /\ Len(s) \in Nat /\ Len(t) \in Nat
         /\ \A i \in 1..Len(s) : (s \o t)[i] = s[i] /\ s[i] \in S
         /\ \A i \in 1..Len(t) : (s \o t)[Len(s) + i] = t[i] /\ t[i] \in S
  OBVIOUS

LEMMA UpToMore ==
  ASSUME NEW s \in Seq(UpFrame), NEW n \in Nat, NEW m \in Nat, n <= m, UpTo(s, n)
  PROVE  UpTo(s, m)
<1>1. \A i \in 1..Len(s) : s[i] \in UpFrame
  OBVIOUS
<1>2. \A i \in 1..Len(s) : s[i].seq \in Nat
  BY <1>1, Zenon DEF UpFrame
<1> QED
  BY <1>2 DEF UpTo

LEMMA HeadTail ==
  ASSUME NEW s \in Seq(UpFrame), s # <<>>, NEW n, UpTo(s, n)
  PROVE  /\ Head(s) \in UpFrame /\ Head(s).seq <= n /\ Head(s).seq \in Nat
         /\ Tail(s) \in Seq(UpFrame) /\ UpTo(Tail(s), n)
<1>1. Head(s) = s[1] /\ 1 \in 1..Len(s) /\ s[1] \in UpFrame
  OBVIOUS
<1>2. s[1].seq \in Nat
  BY <1>1 DEF UpFrame
<1>3. Tail(s) \in Seq(UpFrame) /\ Len(Tail(s)) = Len(s) - 1
      /\ \A i \in 1..(Len(s) - 1) : Tail(s)[i] = s[i + 1] /\ i + 1 \in 1..Len(s)
  OBVIOUS
<1> QED
  BY <1>1, <1>2, <1>3 DEF UpTo

LEMMA AppendUpTo ==
  ASSUME NEW s \in Seq(UpFrame), NEW f \in UpFrame, NEW n, UpTo(s, n), f.seq <= n
  PROVE  Append(s, f) \in Seq(UpFrame) /\ UpTo(Append(s, f), n)
<1>1. /\ Append(s, f) \in Seq(UpFrame)
      /\ Len(Append(s, f)) = Len(s) + 1 /\ Len(s) \in Nat
      /\ \A i \in 1..Len(s) : Append(s, f)[i] = s[i]
      /\ Append(s, f)[Len(s) + 1] = f
  OBVIOUS
<1> QED
  BY <1>1 DEF UpTo

Draft == [kind : {"registration", "heartbeat", "result", "terminal"},
          cmd : Commands \cup {NoCommand}]

(* What Send leaves: longer streams, numbered up to the new counter.       *)
LEMMA SendNumbers ==
  ASSUME SessionInv, rconn \in Conns, NEW new \in Seq(Draft), new # <<>>, Send(rconn, new)
  PROVE  /\ sequence' \in Nat /\ sequence' > Sent(rconn)
         /\ wire' \in [Conns -> Seq(UpFrame)] /\ up' \in [Conns -> Seq(UpFrame)]
         /\ \A c \in Conns \ {rconn} : wire'[c] = wire[c] /\ up'[c] = up[c]
         /\ wire'[rconn][Len(wire'[rconn])].seq = sequence' /\ wire'[rconn] # <<>>
         /\ UpTo(wire'[rconn], sequence') /\ UpTo(up'[rconn], sequence')
<1> DEFINE frames == [i \in 1..Len(new) |->
                        [seq |-> sequence + i, kind |-> new[i].kind, cmd |-> new[i].cmd]]
<1>a. /\ sequence \in Nat /\ wire \in [Conns -> Seq(UpFrame)] /\ up \in [Conns -> Seq(UpFrame)]
      /\ UpTo(wire[rconn], Sent(rconn)) /\ UpTo(up[rconn], Sent(rconn))
      /\ rconn # 0 => Sent(rconn) <= sequence
  BY Zenon DEF SessionInv, SessionTypeOK, Numbered
<1>1. Len(new) \in Nat /\ Len(new) > 0 /\ sequence \in Nat
  BY <1>a
<1>2. \A i \in 1..Len(new) : frames[i] \in UpFrame /\ frames[i].seq = sequence + i
  <2> SUFFICES ASSUME NEW i \in 1..Len(new)
               PROVE  frames[i] \in UpFrame /\ frames[i].seq = sequence + i
    OBVIOUS
  <2>1. new[i] \in Draft
    OBVIOUS
  <2>2. new[i].kind \in {"registration", "heartbeat", "result", "terminal"}
        /\ new[i].cmd \in Commands \cup {NoCommand}
    BY <2>1 DEF Draft
  <2> QED
    BY <2>2, <1>1 DEF UpFrame
<1>3. frames \in Seq(UpFrame) /\ Len(frames) = Len(new)
  BY <1>1, <1>2
<1>4. /\ sequence' = sequence + Len(new)
      /\ wire' = [wire EXCEPT ![rconn] = @ \o frames]
      /\ up' = [up EXCEPT ![rconn] = IF broken[rconn] THEN @ ELSE @ \o frames]
  BY DEF Send
<1> HIDE DEF frames
<1>5. /\ wire[rconn] \in Seq(UpFrame) /\ up[rconn] \in Seq(UpFrame)
      /\ Sent(rconn) \in Nat /\ Sent(rconn) <= sequence
  BY <1>a, SentType DEF Conns
<1>6. ASSUME NEW s \in Seq(UpFrame), UpTo(s, Sent(rconn))
      PROVE  /\ s \o frames \in Seq(UpFrame) /\ UpTo(s \o frames, sequence') /\ UpTo(s, sequence')
             /\ Len(s \o frames) > 0 /\ (s \o frames)[Len(s \o frames)].seq = sequence'
  <2>1. s \o frames \in Seq(UpFrame) /\ Len(s \o frames) = Len(s) + Len(new) /\ Len(s) \in Nat
    <3>1. /\ s \o frames \in Seq(UpFrame) /\ Len(s \o frames) = Len(s) + Len(frames)
          /\ Len(s) \in Nat
      BY <1>3, Concat, Zenon
    <3> QED
      BY <3>1, <1>3
  <2>2. \A i \in 1..Len(s) : (s \o frames)[i] = s[i]
    BY <1>3, Concat
  <2>3. \A i \in 1..Len(new) : (s \o frames)[Len(s) + i].seq = sequence + i
    BY <1>3, <1>2, Concat
  <2>4. UpTo(s, sequence')
    BY <1>6, <1>5, <1>4, <1>1, UpToMore
  <2>5. UpTo(s \o frames, sequence')
    <3> SUFFICES ASSUME NEW i \in 1..(Len(s) + Len(new))
                 PROVE  (s \o frames)[i].seq <= sequence'
      BY <2>1 DEF UpTo
    <3>1. CASE i <= Len(s)
      BY <3>1, <2>1, <2>2, <2>4 DEF UpTo
    <3>2. CASE i > Len(s)
      <4>1. PICK j \in 1..Len(new) : i = Len(s) + j
        <5>1. i - Len(s) \in 1..Len(new) /\ i = Len(s) + (i - Len(s))
          BY <3>2, <2>1, <1>1
        <5> QED
          BY <5>1, Zenon
      <4> QED
        <5>1. (s \o frames)[i].seq = sequence + j
          BY <4>1, <2>3, Zenon
        <5> QED
          BY <5>1, <1>1, <1>4
    <3> QED
      BY <3>1, <3>2, <2>1
  <2>6. Len(s \o frames) > 0 /\ (s \o frames)[Len(s \o frames)].seq = sequence'
    <3>1. Len(new) \in 1..Len(new)
      BY <1>1
    <3>2. (s \o frames)[Len(s) + Len(new)].seq = sequence + Len(new)
      BY <3>1, <2>3, Zenon
    <3> QED
      BY <3>2, <2>1, <1>1, <1>4
  <2> QED
    BY <2>1, <2>4, <2>5, <2>6
<1>7. wire'[rconn] = wire[rconn] \o frames /\ wire' \in [Conns -> Seq(UpFrame)]
  BY <1>a, <1>4, <1>5, <1>6
<1>8. (up'[rconn] = up[rconn] \/ up'[rconn] = up[rconn] \o frames) /\ up' \in [Conns -> Seq(UpFrame)]
  BY <1>a, <1>4, <1>5, <1>6
<1>9. sequence' \in Nat /\ sequence' > Sent(rconn)
  BY <1>1, <1>4, <1>5
<1>10. \A c \in Conns \ {rconn} : wire'[c] = wire[c] /\ up'[c] = up[c]
  BY <1>a, <1>4
<1>11. /\ wire'[rconn][Len(wire'[rconn])].seq = sequence' /\ wire'[rconn] # <<>>
       /\ UpTo(wire'[rconn], sequence')
  BY <1>a, <1>7, <1>5, <1>6
<1>12. UpTo(up'[rconn], sequence')
  BY <1>a, <1>8, <1>5, <1>6, Zenon
<1> QED
  BY <1>7, <1>8, <1>9, <1>10, <1>11, <1>12

-----------------------------------------------------------------------------
(* Steps of the log. *)

LogStep == [Recorded!Next]_(Recorded!logVars)

LEMMA QuietStep == ASSUME UNCHANGED <<wire, cstate, lastSeq, log>> PROVE LogStep
<1>1. \A c \in Conns : Sent(c)' = Sent(c) /\ Active(c)' = Active(c)
  BY DEF Sent, Active
<1> QED
  BY <1>1 DEF LogStep, Recorded!logVars

(* The rows of a batch extend the log as a step of the abstract one does.  *)
LEMMA RecordStep ==
  ASSUME SessionInv, NEW c \in Conns, Active(c), NEW fs \in Seq(UpFrame), fs # <<>>,
         UpTo(fs, Sent(c)), Record(c, fs), UNCHANGED <<wire, cstate>>,
         \A i \in 1..Len(fs) : /\ fs[i].seq > lastSeq[c]
                               /\ \A j \in 1..(i - 1) : fs[i].seq > fs[j].seq
  PROVE  LogStep /\ lastSeq' \in [Conns -> Nat] /\ log' \in Seq(LogEntry)
<1> DEFINE new == [i \in 1..Len(fs) |-> [conn |-> c, seq |-> fs[i].seq]]
<1>a. log \in Seq(LogEntry) /\ lastSeq \in [Conns -> Nat]
  BY Zenon DEF SessionInv, SessionTypeOK
<1>1. Len(fs) \in Nat /\ Len(fs) > 0 /\ Len(fs) \in 1..Len(fs)
  OBVIOUS
<1>2. \A i \in 1..Len(fs) : fs[i].seq \in Nat
  <2>1. \A i \in 1..Len(fs) : fs[i] \in UpFrame
    OBVIOUS
  <2> QED
    BY <2>1, Zenon DEF UpFrame
<1>3. new \in Seq(LogEntry) /\ Len(new) = Len(fs) /\ \A i \in 1..Len(fs) : new[i] = [conn |-> c, seq |-> fs[i].seq]
  BY <1>1, <1>2 DEF LogEntry
<1>4. log' = log \o new /\ lastSeq' = [lastSeq EXCEPT ![c] = fs[Len(fs)].seq]
  BY DEF Record
<1> HIDE DEF new
<1>5. /\ log' \in Seq(LogEntry) /\ Len(log') = Len(log) + Len(new) /\ Len(log) \in Nat
      /\ \A i \in 1..Len(log) : log'[i] = log[i]
      /\ \A i \in 1..Len(new) : log'[Len(log) + i] = new[i]
  <2>1. /\ log \o new \in Seq(LogEntry) /\ Len(log \o new) = Len(log) + Len(new)
        /\ Len(log) \in Nat
        /\ \A i \in 1..Len(log) : (log \o new)[i] = log[i]
        /\ \A i \in 1..Len(new) : (log \o new)[Len(log) + i] = new[i]
    <3>1. log \in Seq(LogEntry) /\ new \in Seq(LogEntry)
      BY <1>a, <1>3, Zenon
    <3> QED
      BY ONLY <3>1, Concat
  <2> QED
    BY <2>1, <1>4, Zenon
<1>6. ASSUME NEW i \in (Len(log) + 1)..Len(log')
      PROVE  \E k \in 1..Len(fs) : i = Len(log) + k /\ log'[i].conn = c /\ log'[i].seq = fs[k].seq
  <2>1. i - Len(log) \in 1..Len(fs) /\ i = Len(log) + (i - Len(log))
    BY <1>1, <1>3, <1>5
  <2>2. PICK k \in 1..Len(fs) : i = Len(log) + k
    BY <2>1, Zenon
  <2>3. log'[i] = [conn |-> c, seq |-> fs[k].seq]
    BY <2>2, <1>3, <1>5, Zenon
  <2> QED
    BY <2>2, <2>3
<1>7. \A i \in (Len(log) + 1)..Len(log') :
        /\ log'[i].conn = c /\ log'[i].seq > lastSeq[c]
        /\ \A j \in (Len(log) + 1)..(i - 1) : log'[j].seq < log'[i].seq
  <2> SUFFICES ASSUME NEW i \in (Len(log) + 1)..Len(log')
               PROVE  /\ log'[i].conn = c /\ log'[i].seq > lastSeq[c]
                      /\ \A j \in (Len(log) + 1)..(i - 1) : log'[j].seq < log'[i].seq
    OBVIOUS
  <2>1. PICK k \in 1..Len(fs) : i = Len(log) + k /\ log'[i].conn = c /\ log'[i].seq = fs[k].seq
    BY <1>6, Zenon
  <2>2. ASSUME NEW j \in (Len(log) + 1)..(i - 1)
        PROVE  log'[j].seq < log'[i].seq
    <3>1. j \in (Len(log) + 1)..Len(log')
      BY <1>5
    <3>2. PICK m \in 1..Len(fs) : j = Len(log) + m /\ log'[j].seq = fs[m].seq
      BY <3>1, <1>6, Zenon
    <3>3. m \in 1..(k - 1) /\ fs[m].seq \in Nat /\ fs[k].seq \in Nat
      BY <3>2, <2>1, <1>1, <1>2, <1>5
    <3>4. fs[k].seq > fs[m].seq
      BY <3>3
    <3> QED
      BY <3>2, <3>3, <3>4, <2>1
  <2> QED
    BY <2>1, <2>2
<1>8. log'[Len(log')].seq = fs[Len(fs)].seq
  <2>1. log'[Len(log) + Len(fs)] = new[Len(fs)] /\ Len(log') = Len(log) + Len(fs)
    BY <1>5, <1>3, <1>1
  <2>2. new[Len(fs)] = [conn |-> c, seq |-> fs[Len(fs)].seq]
    BY <1>3, <1>1, Zenon
  <2> QED
    BY <2>1, <2>2
<1>9. lastSeq' = [lastSeq EXCEPT ![c] = log'[Len(log')].seq] /\ lastSeq' \in [Conns -> Nat]
      /\ lastSeq'[c] = fs[Len(fs)].seq
  <2>1. fs[Len(fs)].seq \in Nat
    BY <1>1, <1>2, Zenon
  <2> QED
    BY <2>1, <1>a, <1>4, <1>8
<1>10. lastSeq'[c] <= Sent(c)
  BY <1>1, <1>9 DEF UpTo
<1>11. Recorded!Record(c)
  <2>1. log' \in Seq(Recorded!Entry) /\ Len(log') > Len(log)
    BY <1>1, <1>3, <1>5 DEF Recorded!Entry, LogEntry
  <2>2. UNCHANGED <<[d \in Conns |-> Sent(d)], {d \in Conns : cstate[d] # "none"},
                    {d \in Conns : Active(d)}>>
    BY DEF Sent, Active
  <2>3. c \in {d \in Conns : Active(d)} /\ [d \in Conns |-> Sent(d)][c] = Sent(c)
    OBVIOUS
  <2> QED
    BY <1>5, <1>7, <1>9, <1>10, <2>1, <2>2, <2>3, Zenon DEF Recorded!Record
<1> QED
  BY <1>5, <1>9, <1>11, Zenon DEF LogStep, Recorded!Next

(* One message by itself. *)
LEMMA RecordOne ==
  ASSUME SessionInv, NEW c \in Conns, NEW f \in UpFrame, f.seq <= Sent(c),
         beginOrderedMessage(c, f) = "new", Record(c, <<f>>), UNCHANGED <<wire, cstate>>
  PROVE  LogStep /\ lastSeq' \in [Conns -> Nat] /\ log' \in Seq(LogEntry)
<1>a. lastSeq \in [Conns -> Nat]
  BY Zenon DEF SessionInv, SessionTypeOK
<1>1. Active(c) /\ ~(f.seq <= lastSeq[c])
  BY DEF beginOrderedMessage
<1>2. f.seq \in Nat /\ lastSeq[c] \in Nat
  BY <1>a DEF UpFrame
<1>3. <<f>> \in Seq(UpFrame) /\ <<f>> # <<>> /\ Len(<<f>>) = 1 /\ <<f>>[1] = f
  OBVIOUS
<1>4. UpTo(<<f>>, Sent(c))
  BY <1>3 DEF UpTo
<1>5. \A i \in 1..Len(<<f>>) : /\ <<f>>[i].seq > lastSeq[c]
                               /\ \A j \in 1..(i - 1) : <<f>>[i].seq > <<f>>[j].seq
  BY <1>1, <1>2, <1>3
<1> QED
  BY <1>1, <1>3, <1>4, <1>5, RecordStep, Zenon

-----------------------------------------------------------------------------
(* What the Runner does to its streams. *)

(* It numbers and sends messages on the connection it serves, ... *)
Sends ==
  /\ rconn \in Conns /\ UNCHANGED <<rconn, dialled>> /\ rphase' \in {"hello", "serving"}
  /\ \E new \in Seq(Draft) : new # <<>> /\ Send(rconn, new)

(* ... or leaves it, ... *)
Leaves == EndSession /\ UNCHANGED <<up, wire>> /\ sequence' \in {sequence, 0}

(* ... or starts what it accepted. *)
Quiet == rconn \in Conns /\ UNCHANGED <<rconn, rphase, sequence, up, wire>>

LEMMA Served ==
  ASSUME SessionTypeOK, rconn \in Conns, down[rconn] # <<>>
  PROVE  /\ Head(down[rconn]) \in DownFrame /\ Tail(down[rconn]) \in Seq(DownFrame)
         /\ Head(down[rconn]).cmd \in Commands \cup {NoCommand}
<1>1. down[rconn] \in Seq(DownFrame)
  BY Zenon DEF SessionTypeOK
<1>2. Head(down[rconn]) \in DownFrame /\ Tail(down[rconn]) \in Seq(DownFrame)
  BY <1>1
<1> QED
  BY <1>2, Zenon DEF DownFrame

LEMMA Drafts ==
  ASSUME NEW k \in Commands \cup {NoCommand},
         NEW t \in {"registration", "heartbeat", "result", "terminal"}
  PROVE  Message(t, k) \in Draft /\ <<Message(t, k)>> \in Seq(Draft) /\ <<Message(t, k)>> # <<>>
  BY DEF Message, Draft

LEMMA Connected ==
  ASSUME SessionTypeOK, Dialled
  PROVE  /\ rphase # "idle" => rconn \in Conns
         /\ rconn # 0 => rconn \in Conns /\ rphase \in {"hello", "serving"}
         /\ \A k \in running : rconn # 0
<1>1. rconn \in 0..MaxConn /\ rphase \in {"idle", "hello", "serving"}
  BY Zenon DEF SessionTypeOK
<1> QED
  BY <1>1, SessionAssumption DEF Dialled, Conns

LEMMA TalkEffect ==
  ASSUME SessionTypeOK, Dialled, Talk
  PROVE  /\ Sends \/ Leaves \/ Quiet
         /\ running' \in SUBSET (Commands \cup {NoCommand})
         /\ rconn' = 0 => running' = {} /\ rphase' = "idle"
         /\ rconn' \in {0, rconn}
         /\ rconn' # 0 => rconn # 0 /\ rphase' \in {"hello", "serving"}
<1>a. running \in SUBSET (Commands \cup {NoCommand})
  BY Zenon DEF SessionTypeOK
<1>e. UNCHANGED dialled
  BY TalkFrames, Zenon
<1>1. CASE Register
  <2>1. /\ rconn \in Conns /\ UNCHANGED <<rconn, running>> /\ rphase' = "serving"
        /\ Send(rconn, <<Message("registration", NoCommand), Message("heartbeat", NoCommand)>>)
    BY <1>1, Connected, Zenon DEF Register
  <2>2. /\ <<Message("registration", NoCommand), Message("heartbeat", NoCommand)>> \in Seq(Draft)
        /\ <<Message("registration", NoCommand), Message("heartbeat", NoCommand)>> # <<>>
    BY DEF Message, Draft
  <2>3. Sends
    BY <1>e, <2>1, <2>2, Zenon DEF Sends
  <2> QED
    BY <1>a, <2>1, <2>3, SessionAssumption DEF Conns
<1>2. CASE Serve
  <2> DEFINE f == Head(down[rconn])
  <2>1. rphase = "serving" /\ rconn \in Conns /\ f.cmd \in Commands \cup {NoCommand}
    BY <1>2, Connected, Served, Zenon DEF Serve
  <2>2. CASE Reordered(f)
    <3>1. EndSession /\ UNCHANGED <<up, sequence, wire>>
      BY <1>2, <2>2, Zenon DEF Serve
    <3> QED
      BY <3>1, Zenon DEF EndSession, Leaves
  <2>3. CASE ~Reordered(f) /\ f \notin accepted /\ KindOf(f.cmd) \notin {"assignment", "create"}
    <3>1. Send(rconn, <<Message("result", f.cmd)>>) /\ UNCHANGED <<running, rphase, rconn>>
      BY <1>2, <2>3, Zenon DEF Serve
    <3>2. <<Message("result", f.cmd)>> \in Seq(Draft) /\ <<Message("result", f.cmd)>> # <<>>
      BY <2>1, Drafts, Zenon
    <3>3. Sends
      BY <1>e, <2>1, <3>1, <3>2, Zenon DEF Sends
    <3> QED
      BY <1>a, <2>1, <3>1, <3>3, SessionAssumption DEF Conns
  <2>4. CASE ~Reordered(f) /\ ~(f \notin accepted /\ KindOf(f.cmd) \notin {"assignment", "create"})
    <3>1. /\ running' = running \cup ({f.cmd} \ {g.cmd : g \in accepted})
          /\ UNCHANGED <<rphase, rconn, sequence, up, wire>>
      BY <1>2, <2>4, Zenon DEF Serve
    <3>2. running' \in SUBSET (Commands \cup {NoCommand})
      BY <1>a, <2>1, <3>1
    <3>3. Quiet
      BY <2>1, <3>1, Zenon DEF Quiet
    <3> QED
      BY <2>1, <3>1, <3>2, <3>3, SessionAssumption DEF Conns
  <2> QED
    BY <2>2, <2>3, <2>4, Zenon
<1>3. ASSUME NEW k \in Commands, Finish(k)
      PROVE  Sends /\ running' \in SUBSET running /\ UNCHANGED <<rconn, rphase>> /\ rconn # 0
  <2>1. k \in running /\ running' = running \ {k} /\ UNCHANGED <<rconn, rphase>>
        /\ Send(rconn, <<Message("result", k)>>)
    BY <1>3, Zenon DEF Finish
  <2>2. rconn # 0 /\ rconn \in Conns /\ rphase \in {"hello", "serving"}
    BY <2>1, Connected, Zenon
  <2>3. <<Message("result", k)>> \in Seq(Draft) /\ <<Message("result", k)>> # <<>>
    BY Drafts, Zenon
  <2>4. Sends
    BY <1>e, <2>1, <2>2, <2>3, Zenon DEF Sends
  <2> QED
    BY <2>1, <2>2, <2>4
<1>4. CASE sendInstanceTerminal
  <2>1. rphase = "serving" /\ UNCHANGED <<rconn, rphase, running>> /\ rconn \in Conns
        /\ Send(rconn, <<Message("terminal", NoCommand)>>)
    BY <1>4, Connected, Zenon DEF sendInstanceTerminal
  <2>2. <<Message("terminal", NoCommand)>> \in Seq(Draft) /\ <<Message("terminal", NoCommand)>> # <<>>
    BY Drafts, Zenon
  <2>3. Sends
    BY <1>e, <2>1, <2>2, Zenon DEF Sends
  <2> QED
    BY <1>a, <2>1, <2>3, SessionAssumption DEF Conns
<1>5. CASE LoseSession \/ Restart
  <2>1. EndSession /\ UNCHANGED <<up, wire>> /\ sequence' \in {sequence, 0}
    BY <1>5, Zenon DEF LoseSession, Restart, streams
  <2> QED
    BY <2>1, Zenon DEF EndSession, Leaves
<1>6. CASE \E k \in Commands : Finish(k)
  BY <1>3, <1>6, <1>a, Connected
<1> QED
  BY <1>1, <1>2, <1>4, <1>5, <1>6, Zenon DEF Talk

-----------------------------------------------------------------------------
(* The invariant, a conjunct at a time. *)

LEMMA RunnerInv ==
  ASSUME SessionInv, [Next]_vars
  PROVE  /\ dialled' \in 0..MaxConn /\ rconn' \in 0..MaxConn
         /\ rphase' \in {"idle", "hello", "serving"}
         /\ running' \in SUBSET (Commands \cup {NoCommand})
         /\ rconn' <= dialled' /\ (rphase' = "idle" <=> rconn' = 0)
         /\ rconn' = 0 => running' = {}
<1>a. /\ SessionTypeOK /\ Dialled
      /\ dialled \in 0..MaxConn /\ rconn \in 0..MaxConn
      /\ rphase \in {"idle", "hello", "serving"}
      /\ running \in SUBSET (Commands \cup {NoCommand})
      /\ rconn <= dialled /\ (rphase = "idle" <=> rconn = 0)
      /\ rconn = 0 => running = {}
  BY Zenon DEF SessionInv, SessionTypeOK, Dialled
<1>1. CASE UNCHANGED dialled /\ UNCHANGED <<rconn, rphase, running>>
  BY <1>a, <1>1
<1>2. CASE Connect
  <2>1. dialled < MaxConn /\ dialled' = dialled + 1 /\ rconn' = dialled + 1
        /\ rphase' = "hello" /\ running' = {}
    BY <1>2 DEF Connect
  <2> QED
    BY <2>1, <1>a, SessionAssumption
<1>3. CASE Talk
  BY <1>3, <1>a, TalkEffect, TalkFrames, SessionAssumption
<1> QED
  BY <1>1, <1>2, <1>3, Touches, Zenon

(* The types of what the handlers keep. *)
LEMMA HandlerTypes ==
  ASSUME SessionInv, [Next]_vars
  PROVE  phase' \in [Conns -> Phases] /\ cstate' \in [Conns -> States]
<1>a. phase \in [Conns -> Phases] /\ cstate \in [Conns -> States]
  BY Zenon DEF SessionInv, SessionTypeOK
<1>1. phase' \in [Conns -> Phases]
  <2>1. CASE UNCHANGED phase
    BY <2>1, <1>a
  <2>2. CASE Connect
    <3>1. phase' = [phase EXCEPT ![dialled + 1] = "greeted"]
      BY <2>2, Zenon DEF Connect
    <3> QED
      BY <3>1, <1>a DEF Phases
  <2>3. ASSUME NEW c \in Conns,
               \/ OpenConnection(c) \/ RecordRegistration(c)
               \/ CloseConnection(c) \/ GiveUp(c) \/ Crash(c)
        PROVE  \E p \in Phases : phase' = [phase EXCEPT ![c] = p]
    <3>1. CASE OpenConnection(c)
      BY <3>1, Zenon DEF OpenConnection, Phases
    <3>2. CASE RecordRegistration(c)
      <4>1. phase' = [phase EXCEPT ![c] = "registered"] \/ UNCHANGED phase
        BY <3>2, Zenon DEF RecordRegistration
      <4> QED
        BY <4>1, <1>a DEF Phases
    <3>3. CASE CloseConnection(c) \/ GiveUp(c) \/ Crash(c)
      BY <3>3, Zenon DEF CloseConnection, GiveUp, Crash, Phases
    <3> QED
      BY <2>3, <3>1, <3>2, <3>3, Zenon
  <2>4. ASSUME NEW c \in Conns, NEW p \in Phases, phase' = [phase EXCEPT ![c] = p]
        PROVE  phase' \in [Conns -> Phases]
    BY <2>4, <1>a
  <2> QED
    BY <2>1, <2>2, <2>3, <2>4, Touches, Zenon
<1>2. cstate' \in [Conns -> States]
  <2>1. CASE UNCHANGED cstate
    BY <2>1, <1>a
  <2>2. ASSUME NEW c \in Conns, OpenConnection(c) PROVE cstate' \in [Conns -> States]
    BY <2>2, <1>a DEF OpenConnection, States
  <2>3. ASSUME NEW c \in Conns, CloseConnection(c) PROVE cstate' \in [Conns -> States]
    <3>1. cstate' = [cstate EXCEPT ![c] = IF @ = "active" THEN "disconnected" ELSE @]
      BY <2>3, Zenon DEF CloseConnection
    <3> QED
      BY <3>1, <1>a DEF States
  <2> QED
    BY <2>1, <2>2, <2>3, Touches, Zenon
<1> QED
  BY <1>1, <1>2

(* A connection is dialled before it has a handler or a message.           *)
LEMMA FreshInv ==
  ASSUME SessionInv, [Next]_vars
  PROVE  \A c \in Conns : c > dialled' => wire'[c] = <<>> /\ phase'[c] = "none"
<1>a. /\ SessionTypeOK /\ Dialled
      /\ dialled \in 0..MaxConn /\ rconn \in 0..MaxConn /\ rconn <= dialled
      /\ phase \in [Conns -> Phases]
      /\ wire \in [Conns -> Seq(UpFrame)]
      /\ \A c \in Conns : c > dialled => wire[c] = <<>> /\ phase[c] = "none"
  BY Zenon DEF SessionInv, SessionTypeOK, Dialled
<1> SUFFICES ASSUME NEW c \in Conns, c > dialled'
             PROVE  wire'[c] = <<>> /\ phase'[c] = "none"
  OBVIOUS
<1>1. c > dialled /\ (UNCHANGED dialled \/ c # dialled + 1)
  <2>1. CASE UNCHANGED dialled
    BY <2>1
  <2>2. CASE Connect
    <3>1. dialled' = dialled + 1
      BY <2>2 DEF Connect
    <3> QED
      BY <3>1, <1>a DEF Conns
  <2> QED
    BY <2>1, <2>2, Touches, Zenon
<1>2. wire'[c] = <<>>
  <2>1. CASE UNCHANGED wire
    BY <2>1, <1>1, <1>a, Zenon
  <2>2. CASE Sends
    <3>1. wire'[c] = wire[c] \/ c = rconn
      BY <2>2, SendNumbers, Zenon DEF Sends
    <3>2. c # rconn
      BY <1>1, <1>a DEF Conns
    <3> QED
      BY <3>1, <3>2, <1>1, <1>a, Zenon
  <2> QED
    BY <2>1, <2>2, <1>a, Touches, TalkEffect, Zenon DEF Leaves, Quiet
<1>3. phase'[c] = "none"
  <2>1. CASE UNCHANGED phase
    BY <2>1, <1>1, <1>a, Zenon
  <2>2. CASE Connect
    <3>1. phase' = [phase EXCEPT ![dialled + 1] = "greeted"] /\ dialled' = dialled + 1
      BY <2>2 DEF Connect
    <3> QED
      BY <3>1, <1>1, <1>a DEF Conns
  <2>3. ASSUME NEW d \in Conns,
               \/ OpenConnection(d) \/ RecordRegistration(d)
               \/ CloseConnection(d) \/ GiveUp(d) \/ Crash(d)
        PROVE  phase'[c] = "none"
    <3>1. phase[d] # "none"
      BY <2>3, Zenon DEF OpenConnection, RecordRegistration, CloseConnection, GiveUp, Crash
    <3>2. phase' = phase \/ \E p \in Phases : phase' = [phase EXCEPT ![d] = p]
      BY <2>3, Zenon DEF OpenConnection, RecordRegistration, CloseConnection, GiveUp, Crash, Phases
    <3> QED
      BY <3>1, <3>2, <1>1, <1>a
  <2> QED
    BY <2>1, <2>2, <2>3, Touches, Zenon
<1> QED
  BY <1>2, <1>3

(* OpenConnection supersedes, so one connection at most is active.         *)
LEMMA OpenedInv ==
  ASSUME SessionInv, [Next]_vars
  PROVE  OpenedOnce'
<1>a. /\ phase \in [Conns -> Phases] /\ cstate \in [Conns -> States]
      /\ dialled \in 0..MaxConn
      /\ \A c \in Conns : c > dialled => phase[c] = "none"
      /\ \A c \in Conns : phase[c] \in {"none", "greeted"} => cstate[c] = "none"
      /\ \A c, d \in Conns : cstate[c] = "active" /\ cstate[d] = "active" => c = d
  BY Zenon DEF SessionInv, SessionTypeOK, Dialled, OpenedOnce, Active
<1>1. \A c \in Conns : phase'[c] \in {"none", "greeted"} => cstate'[c] = "none"
  <2>1. CASE UNCHANGED <<phase, cstate>>
    BY <2>1, <1>a, Zenon
  <2>2. CASE Connect /\ UNCHANGED cstate
    <3>1. phase' = [phase EXCEPT ![dialled + 1] = "greeted"] /\ dialled < MaxConn
      BY <2>2 DEF Connect
    <3>2. dialled + 1 \in Conns /\ dialled + 1 > dialled
      BY <3>1, <1>a, SessionAssumption DEF Conns
    <3> QED
      BY <3>1, <3>2, <2>2, <1>a
  <2>3. ASSUME NEW d \in Conns, OpenConnection(d)
        PROVE  \A c \in Conns : phase'[c] \in {"none", "greeted"} => cstate'[c] = "none"
    <3>1. /\ phase' = [phase EXCEPT ![d] = "open"]
          /\ cstate' = [e \in Conns |-> IF e = d THEN "active"
                                        ELSE IF cstate[e] = "active" THEN "superseded" ELSE cstate[e]]
      BY <2>3, Zenon DEF OpenConnection
    <3> QED
      BY <3>1, <1>a
  <2>4. ASSUME NEW d \in Conns, CloseConnection(d)
        PROVE  \A c \in Conns : phase'[c] \in {"none", "greeted"} => cstate'[c] = "none"
    <3>1. /\ phase' = [phase EXCEPT ![d] = "closed"]
          /\ cstate' = [cstate EXCEPT ![d] = IF @ = "active" THEN "disconnected" ELSE @]
      BY <2>4, Zenon DEF CloseConnection
    <3> QED
      BY <3>1, <1>a
  <2>5. ASSUME NEW d \in Conns, RecordRegistration(d) \/ GiveUp(d) \/ Crash(d), UNCHANGED cstate
        PROVE  \A c \in Conns : phase'[c] \in {"none", "greeted"} => cstate'[c] = "none"
    <3>1. phase' = phase \/ phase' = [phase EXCEPT ![d] = "registered"]
          \/ phase' = [phase EXCEPT ![d] = "closed"]
      BY <2>5, Zenon DEF RecordRegistration, GiveUp, Crash
    <3> QED
      BY <3>1, <2>5, <1>a
  <2>6. ASSUME NEW d \in Conns, RecordRegistration(d) \/ GiveUp(d) \/ Crash(d) PROVE UNCHANGED cstate
    BY <2>6, Zenon DEF RecordRegistration, GiveUp, Crash, rows
  <2>7. CASE Connect
    BY <2>2, <2>7, ConnectFrames, Zenon
  <2> QED
    BY <2>1, <2>3, <2>4, <2>5, <2>6, <2>7, Touches, Zenon
<1>2. \A c, d \in Conns : cstate'[c] = "active" /\ cstate'[d] = "active" => c = d
  <2>1. CASE UNCHANGED cstate
    BY <2>1, <1>a, Zenon
  <2>2. ASSUME NEW e \in Conns, OpenConnection(e)
        PROVE  \A c, d \in Conns : cstate'[c] = "active" /\ cstate'[d] = "active" => c = d
    BY <2>2 DEF OpenConnection
  <2>3. ASSUME NEW e \in Conns, CloseConnection(e)
        PROVE  \A c, d \in Conns : cstate'[c] = "active" /\ cstate'[d] = "active" => c = d
    <3>1. cstate' = [cstate EXCEPT ![e] = IF @ = "active" THEN "disconnected" ELSE @]
      BY <2>3, Zenon DEF CloseConnection
    <3> QED
      BY <3>1, <1>a
  <2> QED
    BY <2>1, <2>2, <2>3, Touches, Zenon
<1> QED
  BY <1>1, <1>2, Zenon DEF OpenedOnce, Active

(* A frame that a handler takes.                                           *)
LEMMA Received ==
  ASSUME SessionInv, NEW c \in Conns, NEW some, Receive(c, some)
  PROVE  /\ up' \in [Conns -> Seq(UpFrame)]
         /\ \A d \in Conns : UpTo(up'[d], Sent(d))
         /\ Head(up[c]) \in UpFrame /\ Head(up[c]).seq <= Sent(c) /\ Head(up[c]).seq \in Nat
<1>1. up \in [Conns -> Seq(UpFrame)] /\ \A d \in Conns : UpTo(up[d], Sent(d))
  BY Zenon DEF SessionInv, SessionTypeOK, Numbered
<1>2. up[c] \in Seq(UpFrame) /\ up[c] # <<>> /\ up' = [up EXCEPT ![c] = Tail(up[c])]
  BY <1>1 DEF Receive
<1>3. /\ Head(up[c]) \in UpFrame /\ Head(up[c]).seq <= Sent(c) /\ Head(up[c]).seq \in Nat
      /\ Tail(up[c]) \in Seq(UpFrame) /\ UpTo(Tail(up[c]), Sent(c))
  BY <1>1, <1>2, HeadTail, Zenon
<1> QED
  BY <1>1, <1>2, <1>3

LEMMA Receives ==
  ASSUME NEW c \in Conns, RecordRegistration(c) \/ RecordHeartbeat(c) \/ collectDurableEventBatch(c)
  PROVE  \E some : Receive(c, some)
  BY Zenon DEF RecordRegistration, RecordHeartbeat, collectDurableEventBatch

(* Nothing arrives that was not sent.                                      *)
LEMMA UpInv ==
  ASSUME SessionInv, [Next]_vars, ~Sends
  PROVE  up' \in [Conns -> Seq(UpFrame)] /\ \A d \in Conns : UpTo(up'[d], Sent(d))
<1>a. /\ SessionTypeOK /\ Dialled
      /\ up \in [Conns -> Seq(UpFrame)] /\ wire \in [Conns -> Seq(UpFrame)]
      /\ \A d \in Conns : UpTo(up[d], Sent(d)) /\ UpTo(wire[d], Sent(d))
  BY Zenon DEF SessionInv, SessionTypeOK, Numbered
<1>1. CASE UNCHANGED up
  BY <1>1, <1>a, Zenon
<1>2. ASSUME NEW c \in Conns, RecordRegistration(c) \/ RecordHeartbeat(c) \/ collectDurableEventBatch(c)
      PROVE  up' \in [Conns -> Seq(UpFrame)] /\ \A d \in Conns : UpTo(up'[d], Sent(d))
  BY <1>2, Receives, Received, Zenon
<1>3. ASSUME NEW c \in Conns, Replay(c)
      PROVE  up' \in [Conns -> Seq(UpFrame)] /\ \A d \in Conns : UpTo(up'[d], Sent(d))
  <2>1. PICK i \in 2..Len(wire[c]) : up' = [up EXCEPT ![c] = <<wire[c][i]>>]
    BY <1>3, Zenon DEF Replay
  <2>2. i \in 1..Len(wire[c])
    OBVIOUS
  <2>3. wire[c][i] \in UpFrame /\ wire[c][i].seq <= Sent(c)
    BY <2>2, <1>a DEF UpTo
  <2>4. <<wire[c][i]>> \in Seq(UpFrame) /\ UpTo(<<wire[c][i]>>, Sent(c))
    BY <2>3 DEF UpTo
  <2> QED
    BY <2>1, <2>4, <1>a
<1>4. CASE Talk
  BY <1>1, <1>4, <1>a, TalkEffect, Zenon DEF Leaves, Quiet
<1> QED
  BY <1>1, <1>2, <1>3, <1>4, Touches, Zenon

(* A batch holds frames that were sent.                                    *)
LEMMA BatchInv ==
  ASSUME SessionInv, [Next]_vars
  PROVE  batch' \in [Conns -> Seq(UpFrame)] /\ \A d \in Conns : UpTo(batch'[d], Sent(d))
<1>a. batch \in [Conns -> Seq(UpFrame)] /\ \A d \in Conns : UpTo(batch[d], Sent(d))
  BY Zenon DEF SessionInv, SessionTypeOK, Numbered
<1>1. CASE UNCHANGED batch
  BY <1>1, <1>a, Zenon
<1>2. ASSUME NEW c \in Conns, NEW s \in Seq(UpFrame), UpTo(s, Sent(c)), batch' = [batch EXCEPT ![c] = s]
      PROVE  batch' \in [Conns -> Seq(UpFrame)] /\ \A d \in Conns : UpTo(batch'[d], Sent(d))
  BY <1>2, <1>a
<1>3. \A c \in Conns : <<>> \in Seq(UpFrame) /\ UpTo(<<>>, Sent(c))
  BY DEF UpTo
<1>4. ASSUME NEW c \in Conns, collectDurableEventBatch(c)
      PROVE  batch' \in [Conns -> Seq(UpFrame)] /\ \A d \in Conns : UpTo(batch'[d], Sent(d))
  <2>1. /\ Receive(c, {"result", "terminal"})
        /\ batch' = batch \/ batch' = [batch EXCEPT ![c] = Append(@, Head(up[c]))]
    BY <1>4, Zenon DEF collectDurableEventBatch
  <2>2. Head(up[c]) \in UpFrame /\ Head(up[c]).seq <= Sent(c)
    BY <2>1, Received, Zenon
  <2>3. batch[c] \in Seq(UpFrame) /\ UpTo(batch[c], Sent(c))
    BY <1>a
  <2>4. Append(batch[c], Head(up[c])) \in Seq(UpFrame) /\ UpTo(Append(batch[c], Head(up[c])), Sent(c))
    BY <2>2, <2>3, AppendUpTo, Zenon
  <2> QED
    BY <1>1, <1>2, <2>1, <2>4, Zenon
<1>5. ASSUME NEW c \in Conns, RecordEvents(c) \/ PersistFails(c) \/ Crash(c)
      PROVE  batch' \in [Conns -> Seq(UpFrame)] /\ \A d \in Conns : UpTo(batch'[d], Sent(d))
  <2>1. batch' = batch \/ batch' = [batch EXCEPT ![c] = <<>>]
    BY <1>5, Zenon DEF RecordEvents, PersistFails, Crash
  <2> QED
    BY <1>1, <1>2, <1>3, <2>1, Zenon
<1>6. ASSUME NEW c \in Conns, RecordEvent(c)
      PROVE  batch' \in [Conns -> Seq(UpFrame)] /\ \A d \in Conns : UpTo(batch'[d], Sent(d))
  <2>1. /\ batch[c] # <<>>
        /\ \/ batch' = [batch EXCEPT ![c] = <<>>]
           \/ batch' = [batch EXCEPT ![c] = Tail(batch[c])]
    BY <1>6, Zenon DEF RecordEvent
  <2>2. batch[c] \in Seq(UpFrame) /\ UpTo(batch[c], Sent(c))
    BY <1>a
  <2>3. Tail(batch[c]) \in Seq(UpFrame) /\ UpTo(Tail(batch[c]), Sent(c))
    BY <2>1, <2>2, HeadTail, Zenon
  <2> QED
    BY <1>2, <1>3, <2>1, <2>3, Zenon
<1> QED
  BY <1>1, <1>4, <1>5, <1>6, Touches, Zenon

(* A claim is a batch of pending commands.                                 *)
LEMMA QueueType ==
  ASSUME NEW q \in Queues
  PROVE  /\ q \in Seq(Candidates) /\ Len(q) \in 1..CommandBatchSize /\ Len(q) \in Nat
         /\ DOMAIN q = 1..Len(q)
         /\ \A i \in 1..Len(q) : q[i] \in Candidates /\ q[i] \in Commands
<1>1. PICK m \in 1..CommandBatchSize : q \in [1..m -> Candidates]
  BY DEF Queues
<1>2. m \in Nat /\ Len(q) = m /\ q \in Seq(Candidates)
  BY <1>1, SessionAssumption
<1> QED
  BY <1>1, <1>2 DEF Candidates

LEMMA FramesType ==
  ASSUME SessionTypeOK, NEW c \in Conns, NEW q \in Queues, NEW n \in 0..Len(q)
  PROVE  Frames(c, q, n) \in Seq(DownFrame) /\ Len(Frames(c, q, n)) = n
<1>1. lastControl[c] \in Nat
  BY Zenon DEF SessionTypeOK
<1>2. Len(q) \in Nat /\ \A i \in 1..Len(q) : q[i] \in Commands
  BY QueueType, Zenon
<1>3. \A i \in 1..n : [seq |-> lastControl[c] + i, cmd |-> q[i]] \in DownFrame
  BY <1>1, <1>2 DEF DownFrame
<1> QED
  BY <1>2, <1>3 DEF Frames

(* What a claim does to the connection: command frames follow the others.  *)
LEMMA Delivers ==
  ASSUME SessionTypeOK, NEW c \in Conns, SendCommands(c) \/ SendFails(c)
  PROVE  \E q \in Queues, n \in Nat :
           /\ n <= Len(q) /\ Claim(c, q)
           /\ down' = down \/ down' = [down EXCEPT ![c] = @ \o Frames(c, q, n)]
           /\ Frames(c, q, n) \in Seq(DownFrame) /\ Len(Frames(c, q, n)) = n
<1>a. down \in [Conns -> Seq(DownFrame)]
  BY Zenon DEF SessionTypeOK
<1>1. CASE SendCommands(c)
  <2>1. PICK q \in Queues :
          /\ Claim(c, q)
          /\ down' = [down EXCEPT ![c] = IF broken[c] THEN @ ELSE @ \o Frames(c, q, Len(q))]
    BY <1>1, Zenon DEF SendCommands
  <2>2. down' = down \/ down' = [down EXCEPT ![c] = @ \o Frames(c, q, Len(q))]
    BY <2>1, <1>a, Zenon
  <2>3. Len(q) \in Nat /\ Len(q) <= Len(q) /\ Len(q) \in 0..Len(q)
    BY QueueType
  <2>4. Frames(c, q, Len(q)) \in Seq(DownFrame) /\ Len(Frames(c, q, Len(q))) = Len(q)
    BY <2>3, FramesType, Zenon
  <2> QED
    BY <2>1, <2>2, <2>3, <2>4, Zenon
<1>2. CASE SendFails(c)
  <2>1. PICK q \in Queues : \E n, marked \in 0..(Len(q) - 1) :
          Claim(c, q) /\ down' = [down EXCEPT ![c] = @ \o Frames(c, q, n)]
    BY <1>2, Zenon DEF SendFails
  <2>2. PICK n \in 0..(Len(q) - 1) : Claim(c, q) /\ down' = [down EXCEPT ![c] = @ \o Frames(c, q, n)]
    BY <2>1, Zenon
  <2>3. n \in 0..Len(q) /\ n \in Nat /\ n <= Len(q)
    BY QueueType
  <2>4. Frames(c, q, n) \in Seq(DownFrame) /\ Len(Frames(c, q, n)) = n
    BY <2>3, FramesType, Zenon
  <2> QED
    BY <2>2, <2>3, <2>4, Zenon
<1> QED
  BY <1>1, <1>2, Zenon

LEMMA DownInv ==
  ASSUME SessionInv, [Next]_vars
  PROVE  down' \in [Conns -> Seq(DownFrame)] /\ lastControl' \in [Conns -> Nat]
<1>a. /\ SessionTypeOK /\ Dialled
      /\ down \in [Conns -> Seq(DownFrame)]
  BY Zenon DEF SessionInv, SessionTypeOK
<1>b. lastControl \in [Conns -> Nat]
  BY Zenon DEF SessionInv, SessionTypeOK
<1>1. ASSUME NEW c \in Conns, SendCommands(c) \/ SendFails(c)
      PROVE  down' \in [Conns -> Seq(DownFrame)] /\ lastControl' \in [Conns -> Nat]
  <2>1. PICK q \in Queues, n \in Nat :
           /\ n <= Len(q) /\ Claim(c, q)
           /\ down' = down \/ down' = [down EXCEPT ![c] = @ \o Frames(c, q, n)]
           /\ Frames(c, q, n) \in Seq(DownFrame) /\ Len(Frames(c, q, n)) = n
    BY <1>1, <1>a, Delivers, Zenon
  <2>2. down[c] \in Seq(DownFrame)
    BY <1>a
  <2>3. down[c] \o Frames(c, q, n) \in Seq(DownFrame)
    BY <2>1, <2>2, Concat, Zenon
  <2>4. lastControl' = [lastControl EXCEPT ![c] = @ + Len(q)] /\ Len(q) \in Nat
    BY <2>1, QueueType, Zenon DEF Claim
  <2>5. down' \in [Conns -> Seq(DownFrame)]
    BY <1>a, <2>1, <2>3, Zenon
  <2>6. lastControl' \in [Conns -> Nat]
    BY ONLY <1>b, <2>4, c \in Conns
  <2> QED
    BY <2>5, <2>6
<1>2. lastControl' \in [Conns -> Nat]
  BY <1>1, <1>b, Touches, Zenon
<1>3. CASE Connect
  <2>1. down' = [down EXCEPT ![dialled + 1] = <<Welcome>>]
    BY <1>3, Zenon DEF Connect
  <2>2. <<Welcome>> \in Seq(DownFrame)
    BY DEF Welcome, DownFrame
  <2> QED
    BY <2>1, <2>2, <1>2, <1>a, Zenon
<1>4. CASE Register \/ Serve
  <2>1. rconn \in Conns /\ down[rconn] # <<>>
        /\ (UNCHANGED down \/ down' = [down EXCEPT ![rconn] = Tail(@)])
    BY <1>4, <1>a, Connected, Zenon DEF Register, Serve
  <2>2. Tail(down[rconn]) \in Seq(DownFrame)
    BY <2>1, <1>a, Served, Zenon
  <2> QED
    BY <2>1, <2>2, <1>2, <1>a, Zenon
<1> QED
  BY <1>1, <1>2, <1>3, <1>4, <1>a, Touches, Zenon

-----------------------------------------------------------------------------
(* The log of a step. *)

(* A handler records a message, or a batch of them, or nothing.            *)
LEMMA Records ==
  ASSUME SessionInv, NEW c \in Conns,
         RecordRegistration(c) \/ RecordHeartbeat(c) \/ RecordEvents(c) \/ RecordEvent(c)
  PROVE  LogStep /\ lastSeq' \in [Conns -> Nat] /\ log' \in Seq(LogEntry)
<1>a. /\ lastSeq \in [Conns -> Nat] /\ log \in Seq(LogEntry)
      /\ batch[c] \in Seq(UpFrame) /\ UpTo(batch[c], Sent(c))
  BY Zenon DEF SessionInv, SessionTypeOK, Numbered
<1>b. UNCHANGED <<wire, cstate>>
  <2>1. Reading
    BY Zenon DEF Reading
  <2> QED
    BY <2>1, ReadingFrames, Zenon
<1>1. CASE UNCHANGED <<lastSeq, log>>
  BY <1>1, <1>a, <1>b, QuietStep, Zenon
<1>2. ASSUME NEW f \in UpFrame, f.seq <= Sent(c), beginOrderedMessage(c, f) = "new", Record(c, <<f>>)
      PROVE  LogStep /\ lastSeq' \in [Conns -> Nat] /\ log' \in Seq(LogEntry)
  BY <1>2, <1>b, RecordOne, Zenon
<1>3. CASE RecordRegistration(c) \/ RecordHeartbeat(c)
  <2>1. \/ beginOrderedMessage(c, Head(up[c])) = "new" /\ Record(c, <<Head(up[c])>>)
        \/ UNCHANGED <<lastSeq, log>>
    BY <1>3, Zenon DEF RecordRegistration, RecordHeartbeat, ordered
  <2>2. Head(up[c]) \in UpFrame /\ Head(up[c]).seq <= Sent(c)
    BY <1>3, Receives, Received, Zenon
  <2> QED
    BY <1>1, <1>2, <2>1, <2>2, Zenon
<1>4. CASE RecordEvents(c)
  <2>1. batch[c] # <<>>
    BY <1>4, Zenon DEF RecordEvents
  <2>2. \/ UNCHANGED <<lastSeq, log>>
        \/ /\ Active(c) /\ Record(c, batch[c])
           /\ \A i \in 1..Len(batch[c]) :
                /\ batch[c][i].seq > lastSeq[c]
                /\ \A j \in 1..(i - 1) : batch[c][i].seq > batch[c][j].seq
    BY <1>4, Zenon DEF RecordEvents, ordered
  <2> QED
    BY <1>1, <1>a, <1>b, <2>1, <2>2, RecordStep, Zenon
<1>5. CASE RecordEvent(c)
  <2>1. /\ batch[c] # <<>>
        /\ \/ beginOrderedMessage(c, Head(batch[c])) = "new" /\ Record(c, <<Head(batch[c])>>)
           \/ UNCHANGED <<lastSeq, log>>
    BY <1>5, Zenon DEF RecordEvent, ordered
  <2>2. Head(batch[c]) \in UpFrame /\ Head(batch[c]).seq <= Sent(c)
    BY <1>a, <2>1, HeadTail, Zenon
  <2> QED
    BY <1>1, <1>2, <2>1, <2>2, Zenon
<1> QED
  BY <1>3, <1>4, <1>5, Zenon

LEMMA RowsInv ==
  ASSUME SessionInv, [Next]_vars
  PROVE  lastSeq' \in [Conns -> Nat] /\ log' \in Seq(LogEntry)
<1>1. CASE UNCHANGED <<lastSeq, log>>
  BY <1>1, Zenon DEF SessionInv, SessionTypeOK
<1> QED
  BY <1>1, Records, Touches, Zenon

(* What Sends leaves.                                                      *)
LEMMA SendsEffect ==
  ASSUME SessionInv, Sends
  PROVE  /\ sequence' \in Nat /\ rconn' = rconn /\ Sent(rconn)' = sequence'
         /\ Sent(rconn) \in Nat /\ sequence' > Sent(rconn)
         /\ wire' \in [Conns -> Seq(UpFrame)] /\ up' \in [Conns -> Seq(UpFrame)]
         /\ \A c \in Conns \ {rconn} : Sent(c)' = Sent(c) /\ wire'[c] = wire[c] /\ up'[c] = up[c]
         /\ UpTo(wire'[rconn], sequence') /\ UpTo(up'[rconn], sequence')
<1>1. /\ rconn \in Conns /\ rconn' = rconn
      /\ sequence' \in Nat /\ sequence' > Sent(rconn)
      /\ wire' \in [Conns -> Seq(UpFrame)] /\ up' \in [Conns -> Seq(UpFrame)]
      /\ \A c \in Conns \ {rconn} : wire'[c] = wire[c] /\ up'[c] = up[c]
      /\ wire'[rconn][Len(wire'[rconn])].seq = sequence' /\ wire'[rconn] # <<>>
      /\ UpTo(wire'[rconn], sequence') /\ UpTo(up'[rconn], sequence')
  BY SendNumbers, Zenon DEF Sends
<1>2. Sent(rconn)' = sequence'
  BY <1>1 DEF Sent
<1>3. \A c \in Conns \ {rconn} : Sent(c)' = Sent(c)
  BY <1>1, Zenon DEF Sent
<1>4. Sent(rconn) \in Nat
  <2>1. wire \in [Conns -> Seq(UpFrame)]
    BY Zenon DEF SessionInv, SessionTypeOK
  <2> QED
    BY <2>1, <1>1, SentType, Zenon
<1> QED
  BY <1>1, <1>2, <1>3, <1>4, Zenon

LEMMA NumberedInv ==
  ASSUME SessionInv, [Next]_vars
  PROVE  /\ Numbered' /\ sequence' \in Nat
         /\ up' \in [Conns -> Seq(UpFrame)] /\ wire' \in [Conns -> Seq(UpFrame)]
<1>a. /\ SessionTypeOK /\ Dialled /\ dialled \in 0..MaxConn /\ rconn \in 0..MaxConn
      /\ sequence \in Nat /\ wire \in [Conns -> Seq(UpFrame)]
      /\ rconn # 0 => Sent(rconn) <= sequence
      /\ \A c \in Conns : UpTo(wire[c], Sent(c)) /\ UpTo(batch[c], Sent(c))
      /\ \A c \in Conns : c > dialled => wire[c] = <<>>
  BY Zenon DEF SessionInv, SessionTypeOK, Dialled, Numbered
<1>b. /\ batch' \in [Conns -> Seq(UpFrame)]
      /\ \A d \in Conns : UpTo(batch'[d], Sent(d))
  BY BatchInv, Zenon
<1>1. CASE Sends
  <2>1. /\ sequence' \in Nat /\ rconn' = rconn /\ Sent(rconn)' = sequence'
        /\ Sent(rconn) \in Nat /\ sequence' > Sent(rconn)
        /\ wire' \in [Conns -> Seq(UpFrame)] /\ up' \in [Conns -> Seq(UpFrame)]
        /\ \A c \in Conns \ {rconn} : Sent(c)' = Sent(c) /\ wire'[c] = wire[c] /\ up'[c] = up[c]
        /\ UpTo(wire'[rconn], sequence') /\ UpTo(up'[rconn], sequence')
    BY <1>1, SendsEffect, Zenon
  <2>2. rconn \in Conns
    BY <1>1, Zenon DEF Sends
  <2>3. rconn' # 0 => Sent(rconn)' <= sequence'
    BY <2>1
  <2>4. UpTo(batch'[rconn], sequence')
    <3>1. batch'[rconn] \in Seq(UpFrame) /\ UpTo(batch'[rconn], Sent(rconn))
      BY <1>b, <2>2
    <3>2. Sent(rconn) <= sequence'
      BY <2>1
    <3> QED
      BY <3>1, <3>2, <2>1, UpToMore, Zenon
  <2>5. ASSUME NEW c \in Conns
        PROVE  UpTo(wire'[c], Sent(c)') /\ UpTo(up'[c], Sent(c)') /\ UpTo(batch'[c], Sent(c)')
    <3>1. CASE c = rconn
      BY <3>1, <2>1, <2>4
    <3>2. CASE c # rconn
      <4>1. UpTo(up[c], Sent(c))
        BY Zenon DEF SessionInv, Numbered
      <4> QED
        BY <3>2, <4>1, <2>1, <1>a, <1>b
    <3> QED
      BY <3>1, <3>2, Zenon
  <2>6. Numbered'
    BY <2>3, <2>5, Zenon DEF Numbered, UpTo
  <2> QED
    BY <2>1, <2>6, Zenon
<1>2. CASE ~Sends
  <2>1. UNCHANGED wire /\ (UNCHANGED sequence \/ (sequence' = 0 /\ rconn' = 0))
    <3>1. CASE UNCHANGED <<sequence, wire>>
      BY <3>1, Zenon
    <3>2. CASE Talk
      BY <1>a, <1>2, <3>2, TalkEffect, Zenon DEF Leaves, Quiet, EndSession
    <3> QED
      BY <3>1, <3>2, Touches, Zenon
  <2>2. \A c \in Conns : Sent(c)' = Sent(c)
    BY <2>1, Zenon DEF Sent
  <2>3. up' \in [Conns -> Seq(UpFrame)] /\ \A d \in Conns : UpTo(up'[d], Sent(d))
    BY <1>2, UpInv, Zenon
  <2>4. rconn' # 0 => Sent(rconn)' <= sequence'
    <3>1. CASE UNCHANGED rconn
      <4>1. Sent(rconn)' = Sent(rconn)
        BY <3>1, <2>1, Zenon DEF Sent
      <4> QED
        BY <3>1, <4>1, <2>1, <1>a, Zenon
    <3>2. CASE Connect
      <4>1. rconn' = dialled + 1 /\ dialled < MaxConn
        BY <3>2, Zenon DEF Connect
      <4>2. dialled + 1 \in Conns /\ dialled + 1 > dialled
        BY <4>1, <1>a, SessionAssumption DEF Conns
      <4>3. wire'[rconn'] = <<>>
        BY <4>1, <4>2, <2>1, <1>a, Zenon
      <4>4. Sent(rconn)' = 0
        BY <4>3, Zenon DEF Sent
      <4>5. UNCHANGED sequence
        BY <3>2, ConnectFrames, Zenon
      <4> QED
        BY <4>4, <4>5, <1>a
    <3>3. CASE Talk
      BY <1>a, <1>2, <3>1, <3>3, TalkEffect, Zenon DEF Leaves, Quiet, EndSession
    <3> QED
      BY <3>1, <3>2, <3>3, Touches, Zenon
  <2>5. \A c \in Conns : UpTo(wire'[c], Sent(c)') /\ UpTo(up'[c], Sent(c)') /\ UpTo(batch'[c], Sent(c)')
    BY <2>1, <2>2, <2>3, <1>a, <1>b, Zenon
  <2>6. Numbered'
    BY <2>4, <2>5, Zenon DEF Numbered, UpTo
  <2>7. sequence' \in Nat /\ wire' \in [Conns -> Seq(UpFrame)]
    BY <2>1, <1>a
  <2> QED
    BY <2>3, <2>6, <2>7, Zenon
<1> QED
  BY <1>1, <1>2, Zenon

(* Every step is one of the log's, or leaves the log alone.                *)
LEMMA LogSteps ==
  ASSUME SessionInv, [Next]_vars
  PROVE  LogStep
<1>a. /\ SessionTypeOK /\ Dialled
      /\ cstate \in [Conns -> States]
      /\ \A c \in Conns : phase[c] \in {"none", "greeted"} => cstate[c] = "none"
      /\ \A c, d \in Conns : cstate[c] = "active" /\ cstate[d] = "active" => c = d
  BY Zenon DEF SessionInv, SessionTypeOK, OpenedOnce, Active
<1>1. CASE Talk
  <2>1. UNCHANGED <<cstate, lastSeq, log>>
    BY <1>1, TalkFrames, Zenon
  <2>2. CASE ~Sends
    <3>1. UNCHANGED wire
      BY <1>1, <1>a, <2>2, TalkEffect, Zenon DEF Leaves, Quiet
    <3> QED
      BY <2>1, <3>1, QuietStep, Zenon
  <2>3. CASE Sends
    <3> DEFINE old == [c \in Conns |-> Sent(c)]
    <3>1. /\ rconn \in Conns /\ rconn' = rconn /\ Sent(rconn)' = sequence' /\ sequence' \in Nat
          /\ sequence' > Sent(rconn)
          /\ \A c \in Conns \ {rconn} : Sent(c)' = Sent(c)
      BY <2>3, SendsEffect, Zenon DEF Sends
    <3>2. \A c \in Conns : c = rconn => Sent(c)' = sequence'
      BY <3>1 DEF Sent
    <3>3. old' = [old EXCEPT ![rconn] = sequence'] /\ old'[rconn] = sequence' /\ old[rconn] = Sent(rconn)
      BY <3>1, <3>2, Zenon
    <3>4. {c \in Conns : Active(c)}' = {c \in Conns : Active(c)}
      BY <2>1 DEF Active
    <3> HIDE DEF old
    <3>5. Recorded!Send(rconn)
      <4>1. old'[rconn] \in Nat /\ old'[rconn] > old[rconn] /\ old' = [old EXCEPT ![rconn] = old'[rconn]]
        BY <3>1, <3>3, Zenon
      <4> QED
        BY <2>1, <3>4, <4>1, Zenon DEF Recorded!Send, old
    <3> QED
      BY <3>1, <3>5, Zenon DEF LogStep, Recorded!Next
  <2> QED
    BY <2>2, <2>3, Zenon
<1>2. ASSUME NEW c \in Conns, OpenConnection(c) PROVE LogStep
  <2>1. /\ phase[c] = "greeted" /\ cstate[c] = "none"
        /\ cstate' = [d \in Conns |-> IF d = c THEN "active"
                                      ELSE IF cstate[d] = "active" THEN "superseded" ELSE cstate[d]]
    BY <1>2, <1>a, Zenon DEF OpenConnection
  <2>2. UNCHANGED <<wire, lastSeq, log>>
    BY <1>2, OpeningFrames, Zenon DEF Opening
  <2>3. {d \in Conns : Active(d)}' = {c}
    BY <2>1 DEF Active
  <2>4. {d \in Conns : cstate'[d] # "none"} = {d \in Conns : cstate[d] # "none"} \cup {c}
    BY <2>1
  <2>5. [d \in Conns |-> Sent(d)]' = [d \in Conns |-> Sent(d)]
    BY <2>2 DEF Sent
  <2>6. c \notin {d \in Conns : cstate[d] # "none"}
    BY <2>1
  <2>7. Recorded!Open(c)
    BY <2>2, <2>3, <2>4, <2>5, <2>6, Zenon DEF Recorded!Open
  <2> QED
    BY <2>7, Zenon DEF LogStep, Recorded!Next
<1>3. ASSUME NEW c \in Conns, CloseConnection(c) PROVE LogStep
  <2>1. cstate' = [cstate EXCEPT ![c] = IF @ = "active" THEN "disconnected" ELSE @]
    BY <1>3, Zenon DEF CloseConnection
  <2>2. UNCHANGED <<wire, lastSeq, log>>
    BY <1>3, EndingFrames, Zenon DEF Ending
  <2>3. CASE cstate[c] = "active"
    <3>1. {d \in Conns : Active(d)}' = {}
      BY <2>1, <2>3, <1>a DEF Active
    <3>2. {d \in Conns : cstate'[d] # "none"} = {d \in Conns : cstate[d] # "none"}
      BY <2>1, <2>3, <1>a
    <3>3. [d \in Conns |-> Sent(d)]' = [d \in Conns |-> Sent(d)]
      BY <2>2 DEF Sent
    <3>4. Recorded!Close
      BY <2>2, <3>1, <3>2, <3>3, Zenon DEF Recorded!Close
    <3> QED
      BY <3>4, Zenon DEF LogStep, Recorded!Next
  <2>4. CASE cstate[c] # "active"
    <3>1. cstate' = cstate
      BY <2>1, <2>4, <1>a
    <3> QED
      BY <2>2, <3>1, QuietStep, Zenon
  <2> QED
    BY <2>3, <2>4, Zenon
<1>4. CASE UNCHANGED <<wire, cstate, lastSeq, log>>
  BY <1>4, QuietStep, Zenon
<1> QED
  BY <1>1, <1>2, <1>3, <1>4, Touches, Records, Zenon

LEMMA NextStep == SessionInv /\ [Next]_vars => SessionInv' /\ LogStep
<1> SUFFICES ASSUME SessionInv, [Next]_vars PROVE SessionInv' /\ LogStep
  OBVIOUS
<1>1. SessionTypeOK'
  BY RunnerInv, HandlerTypes, NumberedInv, BatchInv, DownInv, RowsInv, Zenon DEF SessionTypeOK
<1>2. Dialled'
  BY RunnerInv, FreshInv, Zenon DEF Dialled
<1>3. OpenedOnce' /\ Numbered' /\ LogStep
  BY OpenedInv, NumberedInv, LogSteps, Zenon
<1> QED
  BY <1>1, <1>2, <1>3, Zenon DEF SessionInv

LEMMA InitInv == Init => SessionInv /\ Recorded!Init
<1> SUFFICES ASSUME Init PROVE SessionInv /\ Recorded!Init
  OBVIOUS
<1>1. \A c \in Conns : Sent(c) = 0
  BY DEF Init, Sent
<1>2. SessionTypeOK
  <2>1. 0 \in 0..MaxConn
    BY SessionAssumption
  <2>2. <<>> \in Seq(UpFrame) /\ <<>> \in Seq(DownFrame) /\ <<>> \in Seq(LogEntry) /\ 0 \in Nat
    OBVIOUS
  <2>3. /\ up = [c \in Conns |-> <<>>] /\ down = [c \in Conns |-> <<>>] /\ wire = [c \in Conns |-> <<>>]
        /\ batch = [c \in Conns |-> <<>>] /\ phase = [c \in Conns |-> "none"]
        /\ cstate = [c \in Conns |-> "none"] /\ lastSeq = [c \in Conns |-> 0]
        /\ lastControl = [c \in Conns |-> 0] /\ log = <<>>
        /\ dialled = 0 /\ rconn = 0 /\ rphase = "idle" /\ sequence = 0 /\ running = {}
    BY Zenon DEF Init
  <2> QED
    BY <2>1, <2>2, <2>3 DEF SessionTypeOK, Phases, States
<1>3. Dialled /\ OpenedOnce
  BY DEF Init, Dialled, OpenedOnce, Active
<1>4. Numbered
  <2>1. rconn = 0 /\ \A c \in Conns : wire[c] = <<>> /\ up[c] = <<>> /\ batch[c] = <<>>
    BY DEF Init
  <2> QED
    BY <2>1 DEF Numbered, UpTo
<1>5. Recorded!Init
  BY <1>1 DEF Init, Recorded!Init, Active
<1> QED
  BY <1>2, <1>3, <1>4, <1>5, Zenon DEF SessionInv

LEMMA SessionInvariance == Spec => []SessionInv
<1>1. Init => SessionInv
  BY InitInv, Zenon
<1>2. SessionInv /\ [Next]_vars => SessionInv'
  BY NextStep, Zenon
<1> QED
  BY <1>1, <1>2, PTL DEF Spec

(* Whatever connections, replicas, restarts and failed transactions do,    *)
(* what beginOrderedMessage and RecordEvents put into runner_messages is a *)
(* log of sessions: the detailed specification implements EventLog.        *)
THEOREM Implements == Spec => RecordsALog
<1>1. Init => Recorded!Init
  BY InitInv, Zenon
<1>2. SessionInv /\ [Next]_vars => [Recorded!Next]_(Recorded!logVars)
  BY NextStep DEF LogStep
<1>3. Spec => Recorded!Init /\ [][Recorded!Next]_(Recorded!logVars)
  BY <1>1, <1>2, SessionInvariance, PTL DEF Spec
<1> QED
  BY <1>3 DEF RecordsALog, Recorded!Spec

(* A log that implements EventLog has EventLog's properties.               *)
InLog == INSTANCE EventLogProofs WITH
  sent    <- [c \in Conns |-> Sent(c)],
  opened  <- {c \in Conns : cstate[c] # "none"},
  current <- {c \in Conns : Active(c)},
  last    <- lastSeq

(* In runner_messages, each connection's messages appear in the order the  *)
(* Runner sent them and at most once, and no message of a connection after *)
(* one of its successor.                                                   *)
THEOREM MessagesInOrder == Spec => [](Recorded!RecordedInOrder /\ Recorded!SessionsContiguous)
<1>1. Recorded!Init => InLog!Init
  BY DEF Recorded!Init, InLog!Init
<1>2. [Recorded!Next]_(Recorded!logVars) => [InLog!Next]_(InLog!logVars)
  BY Zenon
  DEF Recorded!Next, Recorded!Send, Recorded!Open, Recorded!Close, Recorded!Record,
         Recorded!Entry, Recorded!logVars,
         InLog!Next, InLog!Send, InLog!Open, InLog!Close, InLog!Record, InLog!Entry, InLog!logVars
<1>3. InLog!RecordedInOrder /\ InLog!SessionsContiguous
        => Recorded!RecordedInOrder /\ Recorded!SessionsContiguous
  BY Zenon
  DEF InLog!RecordedInOrder, InLog!SessionsContiguous,
         Recorded!RecordedInOrder, Recorded!SessionsContiguous
<1>4. InLog!Spec => [](InLog!RecordedInOrder /\ InLog!SessionsContiguous)
  BY InLog!LogInOrder
<1>5. Recorded!Spec => InLog!Spec
  BY <1>1, <1>2, PTL DEF Recorded!Spec, InLog!Spec
<1>6. Spec => Recorded!Spec
  BY Implements DEF RecordsALog
<1> QED
  BY <1>3, <1>4, <1>5, <1>6, PTL

-----------------------------------------------------------------------------
(* The Runner's row. *)

(* Only a connection that was registered is named by the row.              *)
RowNamed == \A c \in Conns : phase[c] \in {"none", "greeted", "open"} => rowConn # c

RowInv == RowNamed /\ CurrentStaysReady

LEMMA RowSteps == SessionInv /\ RowInv /\ [Next]_vars => RowInv'
<1> SUFFICES ASSUME SessionInv, RowInv, [Next]_vars PROVE RowInv'
  OBVIOUS
<1>a. /\ phase \in [Conns -> Phases] /\ cstate \in [Conns -> States] /\ dialled \in 0..MaxConn
      /\ \A c \in Conns : c > dialled => phase[c] = "none"
      /\ \A c \in Conns : phase[c] \in {"none", "greeted", "open"} => rowConn # c
      /\ \A c \in Conns : cstate[c] = "active" /\ rowConn = c => rowState = "ready"
  BY Zenon DEF SessionInv, SessionTypeOK, Dialled, RowInv, RowNamed, CurrentStaysReady, Active
<1>b. \A c \in Conns : phase[c] \in {"none", "greeted"} => cstate[c] = "none"
  BY Zenon DEF SessionInv, OpenedOnce
<1>1. RowNamed'
  <2>1. CASE UNCHANGED <<phase, rowConn>>
    BY <2>1, <1>a, Zenon DEF RowNamed
  <2>2. CASE Connect
    <3>1. phase' = [phase EXCEPT ![dialled + 1] = "greeted"] /\ dialled < MaxConn /\ UNCHANGED rowConn
      BY <2>2, ConnectFrames, Zenon DEF Connect
    <3>2. dialled + 1 \in Conns /\ dialled + 1 > dialled
      BY <3>1, <1>a, SessionAssumption DEF Conns
    <3> QED
      BY <3>1, <3>2, <1>a DEF RowNamed
  <2>3. ASSUME NEW d \in Conns, RecordRegistration(d) PROVE RowNamed'
    <3>1. UNCHANGED <<phase, rowConn>>
          \/ (phase' = [phase EXCEPT ![d] = "registered"] /\ rowConn' = d)
      BY <2>3, Zenon DEF RecordRegistration
    <3> QED
      BY <3>1, <1>a DEF RowNamed
  <2>4. ASSUME NEW d \in Conns, OpenConnection(d) \/ CloseConnection(d) \/ GiveUp(d) \/ Crash(d)
        PROVE  RowNamed'
    <3>1. \/ phase[d] = "greeted" /\ phase' = [phase EXCEPT ![d] = "open"]
          \/ phase' = [phase EXCEPT ![d] = "closed"]
      BY <2>4, Zenon DEF OpenConnection, CloseConnection, GiveUp, Crash
    <3>2. UNCHANGED rowConn
      BY <2>4, OpeningFrames, EndingFrames, Zenon DEF Opening, Ending
    <3> QED
      BY <3>1, <3>2, <1>a DEF RowNamed
  <2> QED
    BY <2>1, <2>2, <2>3, <2>4, Touches, Zenon
<1>2. \A c \in Conns : cstate'[c] = "active" /\ rowConn' = c => rowState' = "ready"
  <2>1. CASE UNCHANGED <<cstate, rowConn, rowState>>
    BY <2>1, <1>a, Zenon
  <2>2. ASSUME NEW d \in Conns, OpenConnection(d)
        PROVE  \A c \in Conns : cstate'[c] = "active" /\ rowConn' = c => rowState' = "ready"
    <3>1. /\ phase[d] = "greeted"
          /\ cstate' = [e \in Conns |-> IF e = d THEN "active"
                                        ELSE IF cstate[e] = "active" THEN "superseded" ELSE cstate[e]]
      BY <2>2, Zenon DEF OpenConnection
    <3>2. UNCHANGED <<rowConn, rowState>>
      BY <2>2, OpeningFrames, Zenon DEF Opening
    <3> QED
      BY <3>1, <3>2, <1>a
  <2>3. ASSUME NEW d \in Conns, RecordRegistration(d) \/ RecordHeartbeat(d)
        PROVE  \A c \in Conns : cstate'[c] = "active" /\ rowConn' = c => rowState' = "ready"
    <3>1. UNCHANGED cstate /\ (rowState' = "ready" \/ UNCHANGED <<rowConn, rowState>>)
      BY <2>3, Zenon DEF RecordRegistration, RecordHeartbeat
    <3> QED
      BY <3>1, <1>a, Zenon
  <2>4. ASSUME NEW d \in Conns, CloseConnection(d)
        PROVE  \A c \in Conns : cstate'[c] = "active" /\ rowConn' = c => rowState' = "ready"
    <3>1. /\ cstate' = [cstate EXCEPT ![d] = IF @ = "active" THEN "disconnected" ELSE @]
          /\ rowState' = IF rowConn = d THEN "offline" ELSE rowState
          /\ UNCHANGED rowConn
      BY <2>4, Zenon DEF CloseConnection
    <3> QED
      BY <3>1, <1>a
  <2> QED
    BY <2>1, <2>2, <2>3, <2>4, Touches, Zenon
<1> QED
  BY <1>1, <1>2, Zenon DEF RowInv, CurrentStaysReady, Active

(* The late CloseConnection of a connection that was superseded never      *)
(* takes a Runner offline that another connection registered.              *)
THEOREM StaysReady == Spec => []CurrentStaysReady
<1>1. Init => RowInv
  BY DEF Init, RowInv, RowNamed, CurrentStaysReady, Active, Conns
<1>2. RowInv => CurrentStaysReady
  BY Zenon DEF RowInv
<1> QED
  BY <1>1, <1>2, RowSteps, SessionInvariance, PTL DEF Spec

-----------------------------------------------------------------------------
(* The commands.                                                           *)

Reconcile(c) == <<"reconcile", c>>

CmdStates == Live \cup {"absent", "acknowledged", "expired"}

CommandTypeOK ==
  /\ accepted \in SUBSET DownFrame /\ running \in SUBSET Commands
  /\ cmdState \in [Commands -> CmdStates] /\ cmdTarget \in [Commands -> 0..MaxConn]
  /\ created \in Nat /\ Len(kinds) \in Nat /\ Len(kinds) <= MaxCommands

(* What the handlers keep is bounded.                                      *)
Bounded ==
  /\ window \in [Conns -> Seq(Nat)] /\ pump \in [Conns -> Seq(Commands)]
  /\ \A c \in Conns : /\ Len(window[c]) <= Window /\ Len(batch[c]) <= EventBatchSize
                      /\ Len(pump[c]) <= CommandBatchSize

(* Nothing was claimed for a connection that is not registered, and before *)
(* its Welcome is read nothing else is on the way.                         *)
Unserved ==
  /\ \A c \in Conns : /\ phase[c] \in {"none", "greeted", "open"} => lastControl[c] = 0
                      /\ c > dialled => up[c] = <<>>
  /\ rphase = "hello" => /\ down[rconn] = <<Welcome>> /\ up[rconn] = <<>>
                         /\ accepted = {} /\ running = {}
                         /\ phase[rconn] # "registered" /\ lastControl[rconn] = 0

(* Commands are inserted in order.                                         *)
Uninserted == \A i \in 1..MaxCommands : i > created => cmdState[<<"command", i>>] = "absent"

(* An active connection has claimed its own reconciliation, or will first  *)
(* claim it, and those of the others are over.                             *)
Reconciling ==
  \A c \in Conns : cstate[c] = "active" =>
    /\ lastControl[c] = 0 <=> cmdState[Reconcile(c)] = "pending"
    /\ cmdState[Reconcile(c)] # "absent"
    /\ \A d \in Conns : d # c => cmdState[Reconcile(d)] \notin Live

(* A reconciliation is reported after it was claimed.                      *)
Claimed(k) == \A c \in Conns : k = Reconcile(c) => lastControl[c] > 0
AllClaimed(s) == \A i \in 1..Len(s) : Claimed(s[i].cmd)
Reporting ==
  /\ \A k \in running : Claimed(k)
  /\ \A c \in Conns : AllClaimed(wire[c]) /\ AllClaimed(up[c]) /\ AllClaimed(batch[c])

(* A command frame of the connection the Runner serves.                    *)
Known(f) ==
  /\ f.cmd \in Commands /\ f.seq \in 1..lastControl[rconn]
  /\ f.seq = 1 <=> f.cmd = Reconcile(rconn)
  /\ \A c \in Conns : f.cmd = Reconcile(c) => c = rconn
  /\ cstate[rconn] = "active" => cmdState[f.cmd] \notin {"pending", "absent"}

Precedes(f, g) == f.seq < g.seq /\ f.cmd # g.cmd

Serving ==
  rphase = "serving" =>
    /\ \A f \in accepted : Known(f)
    /\ \A i \in 1..Len(down[rconn]) : /\ Known(down[rconn][i])
                                      /\ \A f \in accepted : Precedes(f, down[rconn][i])
    /\ \A i, j \in 1..Len(down[rconn]) : i < j => Precedes(down[rconn][i], down[rconn][j])

CommandInv ==
  CommandTypeOK /\ Bounded /\ Unserved /\ Uninserted /\ Reconciling /\ Reporting /\ Serving

-----------------------------------------------------------------------------
(* Names of commands.  (A leaf is first-order unless it cites SMT.) *)

USE Zenon

LEMMA CommandNames ==
  /\ \A c \in Conns : Reconcile(c) \in Commands /\ KindOf(Reconcile(c)) = "workspace"
                      /\ Reconcile(c)[1] = "reconcile" /\ Reconcile(c)[2] = c
  /\ \A i \in 1..MaxCommands : <<"command", i>> \in Commands /\ <<"command", i>>[1] = "command"
  /\ \A c, d \in Conns : Reconcile(c) = Reconcile(d) => c = d
  /\ \A c \in Conns, i \in 1..MaxCommands : Reconcile(c) # <<"command", i>>
  /\ \A c \in Conns : Reconcile(c) # NoCommand
  /\ \A k \in Commands : (\E c \in Conns : k = Reconcile(c)) \/ (\E i \in 1..MaxCommands : k = <<"command", i>>)
<1>1. \A c \in Conns : Reconcile(c) \in Commands
  BY SMTT(30) DEF Commands, Reconcile
<1>2. \A i \in 1..MaxCommands : <<"command", i>> \in Commands
  BY SMTT(30) DEF Commands
<1>3. \A c \in Conns : KindOf(Reconcile(c)) = "workspace"
  BY SMTT(30) DEF KindOf, Reconcile
<1>4. \A k \in Commands : (\E c \in Conns : k = Reconcile(c)) \/ (\E i \in 1..MaxCommands : k = <<"command", i>>)
  BY SMTT(30) DEF Commands, Reconcile
<1>5. /\ \A c, d \in Conns : Reconcile(c) = Reconcile(d) => c = d
      /\ \A c \in Conns, i \in 1..MaxCommands : Reconcile(c) # <<"command", i>>
      /\ \A c \in Conns : Reconcile(c) # NoCommand
      /\ \A c \in Conns : Reconcile(c)[1] = "reconcile" /\ Reconcile(c)[2] = c
      /\ \A i \in 1..MaxCommands : <<"command", i>>[1] = "command"
  BY SMTT(30) DEF Reconcile, NoCommand
<1> QED
  BY <1>1, <1>2, <1>3, <1>4, <1>5

(* Reconciliation comes first in a claim of an active connection.          *)
LEMMA FirstClaim ==
  ASSUME CommandInv, NEW c \in Conns, cstate[c] = "active", NEW q \in Queues
  PROVE  /\ lastControl[c] = 0 => q[1] = Reconcile(c)
         /\ lastControl[c] # 0 => \A i \in 1..Len(q) : q[i] # Reconcile(c)
         /\ \A i \in 1..Len(q), d \in Conns : q[i] = Reconcile(d) => d = c
         /\ \A i, j \in 1..Len(q) : i < j => q[i] # q[j]
         /\ \A i \in 1..Len(q) : q[i] \in Commands /\ cmdState[q[i]] = "pending"
<1>a. /\ lastControl[c] = 0 <=> cmdState[Reconcile(c)] = "pending"
      /\ \A d \in Conns : d # c => cmdState[Reconcile(d)] \notin Live
  BY DEF CommandInv, Reconciling
<1>1. /\ Len(q) \in Nat /\ Len(q) >= 1 /\ DOMAIN q = 1..Len(q)
      /\ \A i \in 1..Len(q) : q[i] \in Candidates /\ q[i] \in Commands
  BY QueueType, SessionAssumption, SMTT(30)
<1>2. \A i \in 1..Len(q) : cmdState[q[i]] = "pending"
  BY <1>1 DEF Candidates
<1>3. \A i \in 1..Len(q), d \in Conns : q[i] = Reconcile(d) => d = c
  BY <1>2, <1>a, SMTT(30) DEF Live
<1>4. /\ \A i, j \in 1..Len(q) : i < j => Before(q[i], q[j])
      /\ \A k \in Candidates : \/ \E i \in 1..Len(q) : q[i] = k
                               \/ Len(q) = CommandBatchSize /\ \A i \in 1..Len(q) : Before(q[i], k)
  BY <1>1 DEF Queues
<1>5. \A k \in Commands : ~Before(k, k)
  <2>1. \A d \in Conns : ~Before(Reconcile(d), Reconcile(d))
    BY CommandNames, SMTT(30) DEF Before, Conns
  <2>2. \A i \in 1..MaxCommands : ~Before(<<"command", i>>, <<"command", i>>)
    BY SMTT(30) DEF Before
  <2>3. \A k \in Commands : \/ \E d \in Conns : k = Reconcile(d)
                           \/ \E i \in 1..MaxCommands : k = <<"command", i>>
    BY CommandNames
  <2> QED
    BY ONLY <2>1, <2>2, <2>3, Zenon
<1>6. \A i, j \in 1..Len(q) : i < j => q[i] # q[j]
  BY <1>1, <1>4, <1>5
<1>7. ASSUME lastControl[c] = 0 PROVE q[1] = Reconcile(c)
  <2>1. Reconcile(c) \in Candidates
    BY <1>7, <1>a, CommandNames, SMTT(30) DEF Candidates
  <2>2. ASSUME NEW i \in 1..Len(q) PROVE ~Before(q[i], Reconcile(c))
    <3>1. CASE \E d \in Conns : q[i] = Reconcile(d)
      <4>1. q[i] = Reconcile(c)
        BY <3>1, <1>3
      <4> QED
        BY <4>1, <1>1, <1>5
    <3>2. CASE \E n \in 1..MaxCommands : q[i] = <<"command", n>>
      BY <3>2, CommandNames, SMTT(30) DEF Before, Reconcile
    <3>3. \A k \in Commands : \/ \E d \in Conns : k = Reconcile(d)
                             \/ \E n \in 1..MaxCommands : k = <<"command", n>>
      BY CommandNames
    <3> QED
      BY <3>1, <3>2, <3>3, <1>1
  <2>3. 1 \in 1..Len(q)
    BY <1>1, SMTT(30)
  <2>4. PICK i \in 1..Len(q) : q[i] = Reconcile(c)
    BY <1>4, <2>1, <2>2, <2>3
  <2>5. ~(1 < i)
    BY <1>4, <2>2, <2>3, <2>4
  <2>6. i = 1
    BY <1>1, <2>5, SMTT(30)
  <2> QED
    BY <2>4, <2>6, SMTT(30)
<1>8. ASSUME lastControl[c] # 0 PROVE \A i \in 1..Len(q) : q[i] # Reconcile(c)
  BY <1>8, <1>2, <1>a
<1> QED
  BY <1>1, <1>2, <1>3, <1>6, <1>7, <1>8

(* What a claim for c does to commands and frames.                         *)
ClaimsFor(c, q, n) ==
  /\ phase[c] = "registered" /\ cstate[c] = "active" /\ n <= Len(q)
  /\ lastControl' = [lastControl EXCEPT ![c] = @ + Len(q)]
  /\ cmdTarget' = [k \in Commands |-> IF k \in Among(q, Len(q)) THEN c ELSE cmdTarget[k]]
  /\ down' = down \/ down' = [down EXCEPT ![c] = @ \o Frames(c, q, n)]
  /\ Frames(c, q, n) \in Seq(DownFrame) /\ Len(Frames(c, q, n)) = n
  /\ \A k \in Commands : IF k \in Among(q, Len(q)) THEN cmdState'[k] \in {"delivering", "delivered"}
                                                   ELSE cmdState'[k] = cmdState[k]
  /\ cmdState' = [k \in Commands |-> cmdState'[k]]

LEMMA Claims ==
  ASSUME SessionTypeOK, NEW c \in Conns, SendCommands(c) \/ SendFails(c)
  PROVE  \E q \in Queues, n \in Nat : ClaimsFor(c, q, n)
<1>a. down \in [Conns -> Seq(DownFrame)]
  BY DEF SessionTypeOK
<1>1. CASE SendCommands(c)
  <2>1. PICK q \in Queues :
          /\ Claim(c, q)
          /\ cmdState' = [k \in Commands |-> IF k \in Among(q, Len(q)) THEN "delivering" ELSE cmdState[k]]
          /\ down' = [down EXCEPT ![c] = IF broken[c] THEN @ ELSE @ \o Frames(c, q, Len(q))]
    BY <1>1 DEF SendCommands
  <2>2. down' = down \/ down' = [down EXCEPT ![c] = @ \o Frames(c, q, Len(q))]
    BY <2>1, <1>a
  <2>3. Len(q) \in Nat /\ Len(q) <= Len(q) /\ Len(q) \in 0..Len(q)
    BY QueueType, SMTT(30)
  <2>4. Frames(c, q, Len(q)) \in Seq(DownFrame) /\ Len(Frames(c, q, Len(q))) = Len(q)
    BY <2>3, FramesType
  <2>5. \A k \in Commands : IF k \in Among(q, Len(q)) THEN cmdState'[k] \in {"delivering", "delivered"}
                                                      ELSE cmdState'[k] = cmdState[k]
    BY <2>1
  <2>6. cmdState' = [k \in Commands |-> cmdState'[k]]
    BY <2>1
  <2> QED
    BY <2>1, <2>2, <2>3, <2>4, <2>5, <2>6 DEF ClaimsFor, Claim, Active
<1>2. CASE SendFails(c)
  <2>1. PICK q \in Queues : \E n, marked \in 0..(Len(q) - 1) :
          /\ Claim(c, q)
          /\ down' = [down EXCEPT ![c] = @ \o Frames(c, q, n)]
          /\ cmdState' = [k \in Commands |->
               IF k \in Among(q, marked) THEN "delivered"
               ELSE IF k \in Among(q, Len(q)) THEN "delivering" ELSE cmdState[k]]
    BY <1>2 DEF SendFails
  <2>2. PICK n \in 0..(Len(q) - 1), marked \in 0..(Len(q) - 1) :
          /\ Claim(c, q)
          /\ down' = [down EXCEPT ![c] = @ \o Frames(c, q, n)]
          /\ cmdState' = [k \in Commands |->
               IF k \in Among(q, marked) THEN "delivered"
               ELSE IF k \in Among(q, Len(q)) THEN "delivering" ELSE cmdState[k]]
    BY <2>1
  <2>3. n \in 0..Len(q) /\ n \in Nat /\ n <= Len(q)
    BY QueueType, SMTT(30)
  <2>4. Frames(c, q, n) \in Seq(DownFrame) /\ Len(Frames(c, q, n)) = n
    BY <2>3, FramesType
  <2>5. \A k \in Among(q, marked) : k \in Among(q, Len(q))
    <3>1. \A i \in 1..marked : i \in 1..Len(q)
      BY QueueType, SMTT(30)
    <3> QED
      BY <3>1 DEF Among
  <2>6. \A k \in Commands : IF k \in Among(q, Len(q)) THEN cmdState'[k] \in {"delivering", "delivered"}
                                                      ELSE cmdState'[k] = cmdState[k]
    BY <2>2, <2>5
  <2>7. cmdState' = [k \in Commands |-> cmdState'[k]]
    BY <2>2
  <2> QED
    BY <2>2, <2>3, <2>4, <2>6, <2>7 DEF ClaimsFor, Claim, Active
<1> QED
  BY <1>1, <1>2

-----------------------------------------------------------------------------
(* Commands. *)

(* What a step other than OpenConnection and the insertion of a command    *)
(* does to a command: it takes a live one further, and never back.         *)
Progress(k) ==
  \/ cmdState'[k] = cmdState[k]
  \/ cmdState[k] \in Live /\ cmdState'[k] \in CmdStates \ {"pending", "absent"}

(* The commands that a handler acknowledges.                               *)
LEMMA Acknowledges ==
  ASSUME NEW c \in Conns, RecordEvents(c) \/ RecordEvent(c)
  PROVE  UNCHANGED cmdState \/ acknowledge(batch[c]) \/ (batch[c] # <<>> /\ acknowledge(<<Head(batch[c])>>))
<1>1. CASE RecordEvents(c)
  BY <1>1 DEF RecordEvents, commands
<1>2. CASE RecordEvent(c)
  BY <1>2 DEF RecordEvent, commands
<1> QED
  BY <1>1, <1>2

LEMMA Moves ==
  ASSUME SessionInv, CommandInv, [Next]_vars, ~Opening, ~InsertCommand
  PROVE  (\A k \in Commands : Progress(k)) /\ cmdState' \in [Commands -> CmdStates]
<1>a. /\ SessionTypeOK /\ cmdState \in [Commands -> CmdStates]
      /\ pump \in [Conns -> Seq(Commands)]
  BY DEF SessionInv, CommandInv, CommandTypeOK, Bounded
<1>1. CASE UNCHANGED cmdState
  BY <1>1, <1>a DEF Progress
<1>2. ASSUME NEW k \in Commands, ExpireCommand(k)
      PROVE  (\A j \in Commands : Progress(j)) /\ cmdState' \in [Commands -> CmdStates]
  <2>1. cmdState[k] \in Live /\ cmdState' = [cmdState EXCEPT ![k] = "expired"]
    BY <1>2 DEF ExpireCommand
  <2> QED
    BY <2>1, <1>a, SMTT(30) DEF Progress, CmdStates
<1>3. ASSUME NEW fs, acknowledge(fs)
      PROVE  (\A j \in Commands : Progress(j)) /\ cmdState' \in [Commands -> CmdStates]
  <2>1. cmdState' = [j \in Commands |->
          IF j \in Reported(fs) /\ cmdState[j] \in Live THEN "acknowledged" ELSE cmdState[j]]
    BY <1>3 DEF acknowledge
  <2> QED
    BY <2>1, <1>a, SMTT(30) DEF Progress, CmdStates
<1>4. ASSUME NEW c \in Conns, RecordEvents(c) \/ RecordEvent(c)
      PROVE  (\A j \in Commands : Progress(j)) /\ cmdState' \in [Commands -> CmdStates]
  BY <1>1, <1>3, <1>4, Acknowledges
<1>5. ASSUME NEW c \in Conns, SendCommands(c) \/ SendFails(c)
      PROVE  (\A j \in Commands : Progress(j)) /\ cmdState' \in [Commands -> CmdStates]
  <2>1. PICK q \in Queues, n \in Nat : ClaimsFor(c, q, n)
    BY <1>5, <1>a, Claims
  <2>2. \A k \in Among(q, Len(q)) : cmdState[k] = "pending"
    BY QueueType DEF Among, Candidates
  <2>3. /\ \A k \in Commands : IF k \in Among(q, Len(q)) THEN cmdState'[k] \in {"delivering", "delivered"}
                                                         ELSE cmdState'[k] = cmdState[k]
        /\ cmdState' = [k \in Commands |-> cmdState'[k]]
    BY <2>1 DEF ClaimsFor
  <2>4. \A k \in Commands : Progress(k) /\ cmdState'[k] \in CmdStates
    BY <2>2, <2>3, <1>a, SMTT(30) DEF Progress, Live, CmdStates
  <2> QED
    BY <2>3, <2>4
<1>6. ASSUME NEW c \in Conns, MarkCommandsDelivered(c)
      PROVE  (\A j \in Commands : Progress(j)) /\ cmdState' \in [Commands -> CmdStates]
  <2> DEFINE sent == {pump[c][i] : i \in 1..Len(pump[c])}
  <2>1. \/ UNCHANGED cmdState
        \/ /\ \A k \in sent : cmdState[k] = "delivering"
           /\ cmdState' = [k \in Commands |-> IF k \in sent THEN "delivered" ELSE cmdState[k]]
    BY <1>6 DEF MarkCommandsDelivered
  <2> HIDE DEF sent
  <2> QED
    BY <2>1, <1>a, SMTT(30) DEF Progress, CmdStates, Live
<1> QED
  BY <1>1, <1>2, <1>4, <1>5, <1>6, Touches DEF Opening

(* OpenConnection takes live commands back and expires reconciliations.    *)
LEMMA Opens ==
  ASSUME CommandInv, NEW c \in Conns, OpenConnection(c)
  PROVE  /\ phase[c] = "greeted"
         /\ cstate' = [d \in Conns |-> IF d = c THEN "active"
                                       ELSE IF cstate[d] = "active" THEN "superseded" ELSE cstate[d]]
         /\ cmdState' \in [Commands -> CmdStates] /\ cmdState'[Reconcile(c)] = "pending"
         /\ \A d \in Conns : d # c => cmdState'[Reconcile(d)] \notin Live
         /\ \A k \in Commands : cmdState[k] = "absent" /\ k # Reconcile(c) => cmdState'[k] = "absent"
<1>a. cmdState \in [Commands -> CmdStates]
  BY DEF CommandInv, CommandTypeOK
<1>1. /\ phase[c] = "greeted"
      /\ cstate' = [d \in Conns |-> IF d = c THEN "active"
                                    ELSE IF cstate[d] = "active" THEN "superseded" ELSE cstate[d]]
      /\ cmdState' = [k \in Commands |->
           IF k = Reconcile(c) THEN "pending"
           ELSE IF cmdState[k] \in Live
                  THEN IF k[1] = "reconcile" THEN "expired" ELSE "pending"
                  ELSE cmdState[k]]
  BY DEF OpenConnection, Reconcile
<1>2. cmdState' \in [Commands -> CmdStates]
  BY <1>1, <1>a, SMTT(30) DEF CmdStates, Live
<1>3. cmdState'[Reconcile(c)] = "pending"
  BY <1>1, CommandNames
<1>4. ASSUME NEW d \in Conns, d # c PROVE cmdState'[Reconcile(d)] \notin Live
  <2>1. Reconcile(d) \in Commands /\ Reconcile(d) # Reconcile(c) /\ Reconcile(d)[1] = "reconcile"
    BY <1>4, CommandNames
  <2> QED
    BY <2>1, <1>1, SMTT(30) DEF Live
<1>5. \A k \in Commands : cmdState[k] = "absent" /\ k # Reconcile(c) => cmdState'[k] = "absent"
  BY <1>1, SMTT(30) DEF Live
<1> QED
  BY <1>1, <1>2, <1>3, <1>4, <1>5

LEMMA Inserts ==
  ASSUME CommandInv, InsertCommand
  PROVE  /\ created + 1 \in 1..MaxCommands /\ created' = created + 1
         /\ cmdState' = [cmdState EXCEPT ![<<"command", created + 1>>] = "pending"]
         /\ cmdState[<<"command", created + 1>>] = "absent"
<1>a. /\ created \in Nat /\ Len(kinds) \in Nat /\ Len(kinds) <= MaxCommands
      /\ \A i \in 1..MaxCommands : i > created => cmdState[<<"command", i>>] = "absent"
  BY DEF CommandInv, CommandTypeOK, Uninserted
<1>1. /\ created < Len(kinds) /\ created' = created + 1
      /\ cmdState' = [cmdState EXCEPT ![<<"command", created + 1>>] = "pending"]
  BY DEF InsertCommand
<1>2. created + 1 \in 1..MaxCommands /\ created + 1 > created
  BY <1>a, <1>1, SessionAssumption, SMTT(30)
<1> QED
  BY <1>a, <1>1, <1>2

LEMMA CmdStateInv ==
  ASSUME SessionInv, CommandInv, [Next]_vars
  PROVE  /\ cmdState' \in [Commands -> CmdStates] /\ created' \in Nat
         /\ Len(kinds') \in Nat /\ Len(kinds') <= MaxCommands /\ Uninserted'
<1>a. /\ cmdState \in [Commands -> CmdStates] /\ created \in Nat
      /\ Len(kinds) \in Nat /\ Len(kinds) <= MaxCommands
      /\ \A i \in 1..MaxCommands : i > created => cmdState[<<"command", i>>] = "absent"
  BY DEF CommandInv, CommandTypeOK, Uninserted
<1>b. \A i \in 1..MaxCommands : <<"command", i>> \in Commands
  BY CommandNames
<1>1. CASE InsertCommand
  <2>1. cmdState' \in [Commands -> CmdStates]
    BY <1>1, <1>a, Inserts, SMTT(30) DEF CmdStates, Live
  <2>2. Uninserted'
    <3> SUFFICES ASSUME NEW i \in 1..MaxCommands, i > created'
                 PROVE  cmdState'[<<"command", i>>] = "absent"
      BY DEF Uninserted
    <3>1. i > created /\ i # created + 1
      BY <1>1, <1>a, Inserts, SMTT(30)
    <3>2. <<"command", i>> # <<"command", created + 1>>
      BY <3>1, SMTT(30)
    <3>3. cmdState'[<<"command", i>>] = cmdState[<<"command", i>>]
      BY <3>2, <1>1, <1>a, <1>b, Inserts
    <3> QED
      BY <3>1, <3>3, <1>a
  <2>3. created' \in Nat
    BY <1>1, <1>a, Inserts, SMTT(30)
  <2> QED
    BY <2>1, <2>2, <2>3, <1>a, Touches
<1>2. ASSUME NEW c \in Conns, OpenConnection(c)
      PROVE  cmdState' \in [Commands -> CmdStates] /\ Uninserted' /\ UNCHANGED created
  <2>1. UNCHANGED created
    BY <1>2, OpeningFrames DEF Opening
  <2>2. \A i \in 1..MaxCommands : <<"command", i>> # Reconcile(c)
    BY CommandNames
  <2> QED
    BY <2>1, <2>2, <1>2, <1>a, <1>b, Opens DEF Uninserted
<1>3. CASE ~Opening /\ ~InsertCommand
  <2>1. (\A k \in Commands : Progress(k)) /\ cmdState' \in [Commands -> CmdStates]
    BY <1>3, Moves
  <2>2. UNCHANGED created
    BY <1>3, Touches
  <2>3. "absent" \notin Live
    BY SMTT(30) DEF Live
  <2>4. Uninserted'
    BY <2>1, <2>2, <2>3, <1>a, <1>b DEF Progress, Uninserted
  <2> QED
    BY <2>1, <2>2, <2>4, <1>a, Touches
<1> QED
  BY <1>1, <1>2, <1>3, <1>a, Touches DEF Opening

(* The commands that the Runner accepts and runs, and who has them.        *)
LEMMA AcceptedInv ==
  ASSUME SessionInv, CommandInv, [Next]_vars
  PROVE  /\ accepted' \in SUBSET DownFrame /\ running' \in SUBSET Commands
         /\ cmdTarget' \in [Commands -> 0..MaxConn]
<1>a. /\ SessionTypeOK /\ Dialled /\ accepted \in SUBSET DownFrame /\ running \in SUBSET Commands
  BY DEF SessionInv, CommandInv, CommandTypeOK
<1>b. cmdTarget \in [Commands -> 0..MaxConn]
  BY DEF CommandInv, CommandTypeOK
<1>1. accepted' \in SUBSET DownFrame
  <2>1. CASE Serve
    <3>1. /\ rphase = "serving" /\ down[rconn] # <<>>
          /\ UNCHANGED accepted \/ accepted' = accepted \cup {Head(down[rconn])}
      BY <2>1 DEF Serve
    <3>2. Head(down[rconn]) \in DownFrame
      BY <3>1, <1>a, Connected, Served
    <3> QED
      BY <3>1, <3>2, <1>a, SMTT(30)
  <2>2. CASE Connect
    BY <2>2, SMTT(30) DEF Connect
  <2> QED
    BY <2>1, <2>2, <1>a, Touches
<1>2. running' \in SUBSET Commands
  <2>1. CASE Serve
    <3>1. /\ rphase = "serving" /\ down[rconn] # <<>>
          /\ running' = running \/ running' = {}
             \/ running' = running \cup ({Head(down[rconn]).cmd} \ {g.cmd : g \in accepted})
      BY <2>1 DEF Serve, EndSession
    <3>2. rconn \in Conns /\ down[rconn] \in Seq(DownFrame)
      BY <3>1, <1>a, Connected DEF SessionTypeOK
    <3>3. 1 \in 1..Len(down[rconn]) /\ Head(down[rconn]) = down[rconn][1]
      BY <3>1, <3>2, SMTT(30)
    <3>4. Head(down[rconn]).cmd \in Commands
      BY <3>1, <3>3 DEF CommandInv, Serving, Known
    <3> QED
      BY <3>1, <3>4, <1>a, SMTT(30)
  <2>2. CASE Connect
    BY <2>2, SMTT(30) DEF Connect
  <2>3. ASSUME NEW k \in Commands, Finish(k) PROVE running' \in SUBSET Commands
    BY <2>3, <1>a, SMTT(30) DEF Finish
  <2>4. CASE Register \/ sendInstanceTerminal
    BY <2>4, <1>a DEF Register, sendInstanceTerminal
  <2>5. CASE LoseSession \/ Restart
    BY <2>5, SMTT(30) DEF LoseSession, Restart, EndSession
  <2> QED
    BY <2>1, <2>2, <2>3, <2>4, <2>5, <1>a, Touches DEF Talk
<1>3. cmdTarget' \in [Commands -> 0..MaxConn]
  <2>1. 0 \in 0..MaxConn /\ \A c \in Conns : c \in 0..MaxConn
    BY SessionAssumption, SMTT(30) DEF Conns
  <2>2. ASSUME NEW k \in Commands, ExpireCommand(k) PROVE cmdTarget' \in [Commands -> 0..MaxConn]
    <3>1. cmdTarget' = [cmdTarget EXCEPT ![k] = 0]
      BY <2>2 DEF ExpireCommand
    <3> QED
      BY ONLY <3>1, <2>1, <1>b, Zenon
  <2>3. ASSUME NEW c \in Conns, OpenConnection(c) PROVE cmdTarget' \in [Commands -> 0..MaxConn]
    <3>1. cmdTarget' = [k \in Commands |-> IF cmdState[k] \in Live THEN 0 ELSE cmdTarget[k]]
      BY <2>3 DEF OpenConnection
    <3> QED
      BY ONLY <3>1, <2>1, <1>b
  <2>4. ASSUME NEW c \in Conns, SendCommands(c) \/ SendFails(c)
        PROVE  cmdTarget' \in [Commands -> 0..MaxConn]
    <3>1. PICK q \in Queues, n \in Nat : ClaimsFor(c, q, n)
      BY <2>4, <1>a, Claims
    <3>2. cmdTarget' = [k \in Commands |-> IF k \in Among(q, Len(q)) THEN c ELSE cmdTarget[k]]
      BY <3>1 DEF ClaimsFor
    <3> QED
      BY ONLY <3>2, <2>1, <1>b, c \in Conns
  <2> QED
    BY <2>2, <2>3, <2>4, <1>b, Touches
<1> QED
  BY <1>1, <1>2, <1>3, SMTT(30)

(* The window, the batch and the queue of a handler stay within bounds.    *)
LEMMA WindowInv ==
  ASSUME SessionInv, CommandInv, [Next]_vars
  PROVE  window' \in [Conns -> Seq(Nat)] /\ \A c \in Conns : Len(window'[c]) <= Window
<1>a. window \in [Conns -> Seq(Nat)] /\ \A c \in Conns : Len(window[c]) <= Window
  BY DEF CommandInv, Bounded
<1>1. CASE UNCHANGED window
  BY <1>1, <1>a
<1>2. ASSUME NEW c \in Conns, RecordRegistration(c) \/ RecordHeartbeat(c) \/ collectDurableEventBatch(c)
      PROVE  window' \in [Conns -> Seq(Nat)] /\ \A d \in Conns : Len(window'[d]) <= Window
  <2> DEFINE n == Head(up[c]).seq
             kept == IF Len(window[c]) = Window THEN Tail(window[c]) ELSE window[c]
  <2>1. UNCHANGED window \/ record(c, Head(up[c]))
    BY <1>2 DEF RecordRegistration, RecordHeartbeat, collectDurableEventBatch
  <2>2. n \in Nat
    BY <1>2, Receives, Received
  <2>3. UNCHANGED window \/ window' = [window EXCEPT ![c] = Append(kept, n)]
    BY <2>1, <1>a, SMTT(30) DEF record
  <2>4. window[c] \in Seq(Nat) /\ Len(window[c]) <= Window /\ Window \in Nat /\ Window > 0
    BY <1>a, SessionAssumption, SMTT(30)
  <2>5. kept \in Seq(Nat) /\ Len(kept) + 1 <= Window
    <3>1. CASE Len(window[c]) = Window
      <4>1. window[c] # <<>>
        BY <3>1, <2>4, SMTT(30)
      <4> QED
        BY <4>1, <3>1, <2>4, SMTT(30)
    <3>2. CASE Len(window[c]) # Window
      BY <3>2, <2>4, SMTT(30)
    <3> QED
      BY <3>1, <3>2, SMTT(30)
  <2> HIDE DEF kept, n
  <2>6. Append(kept, n) \in Seq(Nat) /\ Len(Append(kept, n)) <= Window
    BY <2>2, <2>5, SMTT(30)
  <2> QED
    BY <2>3, <2>6, <1>1, <1>a
<1> QED
  BY <1>1, <1>2, Touches

LEMMA BatchBound ==
  ASSUME SessionInv, CommandInv, [Next]_vars
  PROVE  \A c \in Conns : Len(batch'[c]) <= EventBatchSize
<1>a. batch \in [Conns -> Seq(UpFrame)] /\ \A c \in Conns : Len(batch[c]) <= EventBatchSize
  BY DEF SessionInv, SessionTypeOK, CommandInv, Bounded
<1>b. EventBatchSize \in Nat /\ Len(<<>>) <= EventBatchSize
  BY SessionAssumption, SMTT(30)
<1>1. CASE UNCHANGED batch
  BY <1>1, <1>a
<1>2. ASSUME NEW c \in Conns, NEW s, Len(s) <= EventBatchSize, batch' = [batch EXCEPT ![c] = s]
      PROVE  \A d \in Conns : Len(batch'[d]) <= EventBatchSize
  BY <1>2, <1>a
<1>3. ASSUME NEW c \in Conns, collectDurableEventBatch(c)
      PROVE  \A d \in Conns : Len(batch'[d]) <= EventBatchSize
  <2>1. /\ Len(batch[c]) < EventBatchSize
        /\ batch' = batch \/ batch' = [batch EXCEPT ![c] = Append(@, Head(up[c]))]
    BY <1>3 DEF collectDurableEventBatch
  <2>2. batch[c] \in Seq(UpFrame)
    BY <1>a, SMTT(30)
  <2>3. Len(Append(batch[c], Head(up[c]))) = Len(batch[c]) + 1 /\ Len(batch[c]) \in Nat
    BY ONLY <2>2
  <2>4. Len(Append(batch[c], Head(up[c]))) <= EventBatchSize
    BY <2>1, <2>3, <1>b, SMTT(30)
  <2> QED
    BY <1>1, <1>2, <2>1, <2>4
<1>4. ASSUME NEW c \in Conns, RecordEvents(c) \/ RecordEvent(c) \/ PersistFails(c) \/ Crash(c)
      PROVE  \A d \in Conns : Len(batch'[d]) <= EventBatchSize
  <2>1. \/ batch' = batch \/ batch' = [batch EXCEPT ![c] = <<>>]
        \/ batch[c] # <<>> /\ batch' = [batch EXCEPT ![c] = Tail(batch[c])]
    BY <1>4 DEF RecordEvents, RecordEvent, PersistFails, Crash
  <2>2. batch[c] \in Seq(UpFrame) /\ Len(batch[c]) <= EventBatchSize
    BY <1>a, SMTT(30)
  <2>3. batch[c] # <<>> => Len(Tail(batch[c])) <= EventBatchSize
    BY <2>2, <1>b, SMTT(30)
  <2> QED
    BY <1>1, <1>2, <1>b, <2>1, <2>3
<1> QED
  BY <1>1, <1>3, <1>4, Touches

LEMMA PumpInv ==
  ASSUME SessionInv, CommandInv, [Next]_vars
  PROVE  pump' \in [Conns -> Seq(Commands)] /\ \A c \in Conns : Len(pump'[c]) <= CommandBatchSize
<1>a. pump \in [Conns -> Seq(Commands)] /\ \A c \in Conns : Len(pump[c]) <= CommandBatchSize
  BY DEF CommandInv, Bounded
<1>1. CASE UNCHANGED pump
  BY <1>1, <1>a
<1>2. ASSUME NEW c \in Conns, NEW q \in Seq(Commands), Len(q) <= CommandBatchSize,
             pump' = [pump EXCEPT ![c] = q]
      PROVE  pump' \in [Conns -> Seq(Commands)] /\ \A d \in Conns : Len(pump'[d]) <= CommandBatchSize
  BY <1>2, <1>a
<1>3. ASSUME NEW c \in Conns, SendCommands(c) \/ MarkCommandsDelivered(c) \/ CloseConnection(c) \/ Crash(c)
      PROVE  (\E q \in Queues : pump' = [pump EXCEPT ![c] = q]) \/ pump' = [pump EXCEPT ![c] = <<>>]
  BY <1>3 DEF SendCommands, MarkCommandsDelivered, CloseConnection, Crash
<1>4. \A q \in Queues : q \in Seq(Commands) /\ Len(q) <= CommandBatchSize
  <2> SUFFICES ASSUME NEW q \in Queues PROVE q \in Seq(Commands) /\ Len(q) <= CommandBatchSize
    BY SMTT(30)
  <2>1. /\ q \in Seq(Candidates) /\ Len(q) \in 1..CommandBatchSize
        /\ \A i \in 1..Len(q) : q[i] \in Commands
    BY QueueType
  <2> QED
    BY <2>1, SMTT(30)
<1>5. <<>> \in Seq(Commands) /\ Len(<<>>) <= CommandBatchSize
  BY SessionAssumption, SMTT(30)
<1> QED
  BY <1>1, <1>2, <1>3, <1>4, <1>5, Touches

(* A command that nobody claimed is neither acknowledged nor expired       *)
(* before it is: the reconciliation of a connection waits for its claim.   *)
LEMMA StaysPending ==
  ASSUME SessionInv, CommandInv, [Next]_vars, NEW c \in Conns, ~Opening, ~InsertCommand,
         \A d \in Conns : ~(SendCommands(d) \/ SendFails(d)),
         lastControl[c] = 0, cmdState[Reconcile(c)] = "pending"
  PROVE  cmdState'[Reconcile(c)] = "pending"
<1>a. /\ cmdState \in [Commands -> CmdStates] /\ pump \in [Conns -> Seq(Commands)]
      /\ \A d \in Conns : AllClaimed(batch[d])
  BY DEF CommandInv, CommandTypeOK, Bounded, Reporting
<1>b. Reconcile(c) \in Commands /\ Reconcile(c)[1] = "reconcile"
  BY CommandNames
<1>1. CASE UNCHANGED cmdState
  BY <1>1
<1>2. ASSUME NEW k \in Commands, ExpireCommand(k) PROVE cmdState'[Reconcile(c)] = "pending"
  <2>1. k[1] = "command" /\ cmdState' = [cmdState EXCEPT ![k] = "expired"]
    BY <1>2 DEF ExpireCommand
  <2> QED
    BY <2>1, <1>a, <1>b, SMTT(30)
<1>3. ASSUME NEW fs, Reconcile(c) \notin Reported(fs), acknowledge(fs)
      PROVE  cmdState'[Reconcile(c)] = "pending"
  <2>1. cmdState' = [j \in Commands |->
          IF j \in Reported(fs) /\ cmdState[j] \in Live THEN "acknowledged" ELSE cmdState[j]]
    BY <1>3 DEF acknowledge
  <2> QED
    BY <2>1, <1>3, <1>b
<1>4. ASSUME NEW d \in Conns, RecordEvents(d) \/ RecordEvent(d)
      PROVE  cmdState'[Reconcile(c)] = "pending"
  <2>1. \A i \in 1..Len(batch[d]) : batch[d][i].cmd # Reconcile(c)
    BY <1>a, SMTT(30) DEF AllClaimed, Claimed
  <2>2. Reconcile(c) \notin Reported(batch[d])
    BY <2>1 DEF Reported
  <2>3. batch[d] # <<>> => Reconcile(c) \notin Reported(<<Head(batch[d])>>)
    <3>1. batch[d] \in Seq(UpFrame)
      BY DEF SessionInv, SessionTypeOK
    <3>2. batch[d] # <<>> => Head(batch[d]) = batch[d][1] /\ 1 \in 1..Len(batch[d])
      BY <3>1, SMTT(30)
    <3>3. batch[d] # <<>> => Head(batch[d]).cmd # Reconcile(c)
      BY <3>2, <2>1
    <3> QED
      BY <3>3, SMTT(30) DEF Reported
  <2> QED
    BY <1>1, <1>3, <1>4, <2>2, <2>3, Acknowledges
<1>5. ASSUME NEW d \in Conns, MarkCommandsDelivered(d) PROVE cmdState'[Reconcile(c)] = "pending"
  <2> DEFINE sent == {pump[d][i] : i \in 1..Len(pump[d])}
  <2>1. \/ UNCHANGED cmdState
        \/ /\ \A k \in sent : cmdState[k] = "delivering"
           /\ cmdState' = [k \in Commands |-> IF k \in sent THEN "delivered" ELSE cmdState[k]]
    BY <1>5 DEF MarkCommandsDelivered
  <2> HIDE DEF sent
  <2> QED
    BY <2>1, <1>b, SMTT(30)
<1> QED
  BY <1>1, <1>2, <1>4, <1>5, Touches DEF Opening

(* A claim moves the connection's own reconciliation, and no other.        *)
LEMMA ClaimedFirst ==
  ASSUME SessionInv, CommandInv, NEW c \in Conns, NEW q \in Queues, NEW n \in Nat, ClaimsFor(c, q, n)
  PROVE  /\ lastControl'[c] = lastControl[c] + Len(q) /\ lastControl'[c] > 0 /\ lastControl[c] \in Nat
         /\ \A d \in Conns : d # c => lastControl'[d] = lastControl[d]
         /\ cmdState'[Reconcile(c)] # "pending"
         /\ \A d \in Conns : d # c => cmdState'[Reconcile(d)] = cmdState[Reconcile(d)]
<1>a. lastControl \in [Conns -> Nat]
  BY DEF SessionInv, SessionTypeOK
<1>b. lastControl[c] = 0 <=> cmdState[Reconcile(c)] = "pending"
  BY DEF CommandInv, Reconciling, ClaimsFor
<1>1. Len(q) \in Nat /\ Len(q) > 0 /\ 1 \in 1..Len(q)
  BY QueueType, SessionAssumption, SMTT(30)
<1>2. lastControl' = [lastControl EXCEPT ![c] = @ + Len(q)]
  BY DEF ClaimsFor
<1>3. /\ lastControl'[c] = lastControl[c] + Len(q) /\ lastControl'[c] > 0 /\ lastControl[c] \in Nat
      /\ \A d \in Conns : d # c => lastControl'[d] = lastControl[d]
  BY ONLY <1>a, <1>1, <1>2, c \in Conns
<1>4. \A k \in Commands : IF k \in Among(q, Len(q)) THEN cmdState'[k] \in {"delivering", "delivered"}
                                                    ELSE cmdState'[k] = cmdState[k]
  BY DEF ClaimsFor
<1>5. /\ lastControl[c] = 0 => q[1] = Reconcile(c)
      /\ \A i \in 1..Len(q), d \in Conns : q[i] = Reconcile(d) => d = c
  BY FirstClaim DEF ClaimsFor
<1>6. Reconcile(c) \in Commands
  BY CommandNames
<1>7. cmdState'[Reconcile(c)] # "pending"
  <2>1. lastControl[c] = 0 => Reconcile(c) \in Among(q, Len(q))
    BY <1>1, <1>5 DEF Among
  <2>2. CASE Reconcile(c) \in Among(q, Len(q))
    BY <2>2, <1>4, <1>6, SMTT(30)
  <2>3. CASE Reconcile(c) \notin Among(q, Len(q))
    BY <2>1, <2>3, <1>4, <1>6, <1>b
  <2> QED
    BY <2>2, <2>3
<1>8. ASSUME NEW d \in Conns, d # c PROVE cmdState'[Reconcile(d)] = cmdState[Reconcile(d)]
  <2>1. Reconcile(d) \notin Among(q, Len(q))
    BY <1>5, <1>8 DEF Among
  <2>2. Reconcile(d) \in Commands
    BY CommandNames
  <2> QED
    BY <2>1, <2>2, <1>4
<1> QED
  BY <1>3, <1>7, <1>8

(* An active connection claims its own reconciliation before anything.     *)
LEMMA ReconcilingInv ==
  ASSUME SessionInv, CommandInv, [Next]_vars
  PROVE  Reconciling'
<1>a. /\ \A c \in Conns : cstate[c] = "active" =>
           /\ lastControl[c] = 0 <=> cmdState[Reconcile(c)] = "pending"
           /\ cmdState[Reconcile(c)] # "absent"
           /\ \A d \in Conns : d # c => cmdState[Reconcile(d)] \notin Live
      /\ cstate \in [Conns -> States]
      /\ SessionTypeOK
      /\ cmdState \in [Commands -> CmdStates]
  BY DEF SessionInv, SessionTypeOK, CommandInv, CommandTypeOK, Reconciling
<1>b. \A c \in Conns : Reconcile(c) \in Commands
  BY CommandNames
<1> SUFFICES ASSUME NEW c \in Conns, cstate'[c] = "active"
             PROVE  /\ lastControl'[c] = 0 <=> cmdState'[Reconcile(c)] = "pending"
                    /\ cmdState'[Reconcile(c)] # "absent"
                    /\ \A d \in Conns : d # c => cmdState'[Reconcile(d)] \notin Live
  BY DEF Reconciling
<1>1. ASSUME NEW e \in Conns, OpenConnection(e)
      PROVE  /\ lastControl'[c] = 0 <=> cmdState'[Reconcile(c)] = "pending"
             /\ cmdState'[Reconcile(c)] # "absent"
             /\ \A d \in Conns : d # c => cmdState'[Reconcile(d)] \notin Live
  <2>1. /\ phase[e] = "greeted"
        /\ cstate' = [d \in Conns |-> IF d = e THEN "active"
                                      ELSE IF cstate[d] = "active" THEN "superseded" ELSE cstate[d]]
        /\ cmdState'[Reconcile(e)] = "pending"
        /\ \A d \in Conns : d # e => cmdState'[Reconcile(d)] \notin Live
    BY <1>1, Opens
  <2>2. c = e
    BY <2>1, SMTT(30)
  <2>3. UNCHANGED lastControl
    BY <1>1, OpeningFrames DEF Opening
  <2>4. lastControl[e] = 0
    BY <2>1 DEF CommandInv, Unserved
  <2> QED
    BY <2>1, <2>2, <2>3, <2>4
<1>2. ASSUME ~Opening PROVE cstate[c] = "active"
  <2>1. CASE UNCHANGED cstate
    BY <2>1
  <2>2. ASSUME NEW d \in Conns, CloseConnection(d) PROVE cstate[c] = "active"
    <3>1. cstate' = [cstate EXCEPT ![d] = IF @ = "active" THEN "disconnected" ELSE @]
      BY <2>2 DEF CloseConnection
    <3> QED
      BY <3>1, <1>a, SMTT(30)
  <2> QED
    BY <1>2, <2>1, <2>2, Touches DEF Opening
<1>3. ASSUME NEW e \in Conns, SendCommands(e) \/ SendFails(e), ~Opening, ~InsertCommand
      PROVE  /\ lastControl'[c] = 0 <=> cmdState'[Reconcile(c)] = "pending"
             /\ cmdState'[Reconcile(c)] # "absent"
             /\ \A d \in Conns : d # c => cmdState'[Reconcile(d)] \notin Live
  <2>1. PICK q \in Queues, n \in Nat : ClaimsFor(e, q, n)
    BY <1>3, <1>a, Claims
  <2>2. c = e
    BY <1>2, <1>3, <2>1 DEF SessionInv, OpenedOnce, Active, ClaimsFor
  <2>3. /\ lastControl'[e] > 0 /\ cmdState'[Reconcile(e)] # "pending"
        /\ \A d \in Conns : d # e => cmdState'[Reconcile(d)] = cmdState[Reconcile(d)]
    BY <2>1, ClaimedFirst
  <2>4. lastControl'[e] # 0
    BY <2>3, SessionAssumption, SMTT(30)
  <2>5. Progress(Reconcile(e))
    BY <1>3, <1>b, Moves
  <2>6. cmdState'[Reconcile(e)] # "absent"
    BY <2>2, <2>5, <1>2, <1>3, <1>a, <1>b, SMTT(30) DEF Progress
  <2> QED
    BY <2>2, <2>3, <2>4, <2>6, <1>2, <1>3, <1>a
<1>4. CASE InsertCommand
  <2>1. UNCHANGED <<lastControl, cstate>>
    BY <1>4, IssuingFrames DEF Issuing
  <2>2. ASSUME NEW d \in Conns PROVE cmdState'[Reconcile(d)] = cmdState[Reconcile(d)]
    <3>1. Reconcile(d) # <<"command", created + 1>> /\ Reconcile(d) \in Commands
      BY <1>4, Inserts, CommandNames
    <3> QED
      BY <3>1, <1>4, <1>a, Inserts
  <2> QED
    BY <2>1, <2>2, <1>a
<1>5. ASSUME ~Opening, ~InsertCommand, \A d \in Conns : ~(SendCommands(d) \/ SendFails(d))
      PROVE  /\ lastControl'[c] = 0 <=> cmdState'[Reconcile(c)] = "pending"
             /\ cmdState'[Reconcile(c)] # "absent"
             /\ \A d \in Conns : d # c => cmdState'[Reconcile(d)] \notin Live
  <2>1. UNCHANGED lastControl /\ \A k \in Commands : Progress(k)
    BY <1>5, Touches, Moves
  <2>2. cstate[c] = "active"
    BY <1>2, <1>5
  <2>3. \A d \in Conns : d # c => cmdState'[Reconcile(d)] \notin Live
    BY <2>1, <2>2, <1>a, <1>b DEF Progress
  <2>4. cmdState'[Reconcile(c)] # "absent"
    BY <2>1, <2>2, <1>a, <1>b, SMTT(30) DEF Progress
  <2>5. CASE lastControl[c] = 0
    BY <2>1, <2>2, <2>3, <2>4, <2>5, <1>5, <1>a, StaysPending
  <2>6. CASE lastControl[c] # 0
    <3>1. cmdState'[Reconcile(c)] # "pending"
      BY <2>1, <2>2, <2>6, <1>a, <1>b, SMTT(30) DEF Progress
    <3> QED
      BY <3>1, <2>1, <2>3, <2>4, <2>6
  <2> QED
    BY <2>5, <2>6
<1> QED
  BY <1>1, <1>3, <1>4, <1>5 DEF Opening

(* What was claimed stays claimed.                                         *)
LEMMA ClaimedKept ==
  ASSUME SessionInv, CommandInv, [Next]_vars
  PROVE  /\ \A c \in Conns : lastControl[c] \in Nat /\ lastControl'[c] \in Nat /\ lastControl'[c] >= lastControl[c]
         /\ \A k : Claimed(k) => Claimed(k)'
<1>a. lastControl \in [Conns -> Nat] /\ SessionTypeOK
  BY DEF SessionInv, SessionTypeOK
<1>1. ASSUME NEW c \in Conns
      PROVE  lastControl[c] \in Nat /\ lastControl'[c] \in Nat /\ lastControl'[c] >= lastControl[c]
  <2>1. CASE UNCHANGED lastControl
    BY <2>1, <1>a, SMTT(30)
  <2>2. ASSUME NEW e \in Conns, SendCommands(e) \/ SendFails(e)
        PROVE  lastControl[c] \in Nat /\ lastControl'[c] \in Nat /\ lastControl'[c] >= lastControl[c]
    <3>1. PICK q \in Queues, n \in Nat : ClaimsFor(e, q, n)
      BY <2>2, <1>a, Claims
    <3>2. /\ lastControl'[e] = lastControl[e] + Len(q) /\ lastControl[e] \in Nat
          /\ \A d \in Conns : d # e => lastControl'[d] = lastControl[d]
      BY <3>1, ClaimedFirst
    <3>3. Len(q) \in Nat
      BY QueueType
    <3> QED
      BY <3>2, <3>3, <1>a, SMTT(30)
  <2> QED
    BY <2>1, <2>2, Touches
<1>2. ASSUME NEW k, Claimed(k) PROVE Claimed(k)'
  <2>1. \A c \in Conns : lastControl[c] > 0 => lastControl'[c] > 0
    BY <1>1, SMTT(30)
  <2> QED
    BY <2>1, <1>2 DEF Claimed, Reconcile
<1> QED
  BY <1>1, <1>2

LEMMA KnownClaimed ==
  ASSUME SessionInv, rconn \in Conns, NEW f, Known(f)
  PROVE  Claimed(f.cmd)
<1>1. lastControl[rconn] \in Nat
  BY DEF SessionInv, SessionTypeOK
<1>2. f.seq \in 1..lastControl[rconn] /\ \A c \in Conns : f.cmd = Reconcile(c) => c = rconn
  BY DEF Known
<1>3. lastControl[rconn] > 0
  BY <1>1, <1>2, SMTT(30)
<1> QED
  BY <1>2, <1>3 DEF Claimed

LEMMA NoneClaimed == Claimed(NoCommand)
  BY CommandNames DEF Claimed

(* What is put on the wire is reported of claimed commands.                *)
LEMMA SendsClaimed ==
  ASSUME SessionInv, rconn \in Conns, NEW new \in Seq(Draft), Send(rconn, new),
         \A i \in 1..Len(new) : Claimed(new[i].cmd), Reporting
  PROVE  \A c \in Conns : AllClaimed(wire'[c]) /\ AllClaimed(up'[c])
<1> DEFINE frames == [i \in 1..Len(new) |->
                        [seq |-> sequence + i, kind |-> new[i].kind, cmd |-> new[i].cmd]]
<1>a. /\ wire \in [Conns -> Seq(UpFrame)] /\ up \in [Conns -> Seq(UpFrame)]
      /\ \A c \in Conns : AllClaimed(wire[c]) /\ AllClaimed(up[c])
  BY DEF SessionInv, SessionTypeOK, Reporting
<1>1. /\ wire' = [wire EXCEPT ![rconn] = @ \o frames]
      /\ up' = [up EXCEPT ![rconn] = IF broken[rconn] THEN @ ELSE @ \o frames]
  BY DEF Send
<1>2. Len(new) \in Nat /\ \A i \in 1..Len(new) : frames[i].cmd = new[i].cmd
  BY SMTT(30)
<1>3. frames \in Seq(UpFrame) /\ Len(frames) = Len(new)
  <2>1. sequence \in Nat
    BY DEF SessionInv, SessionTypeOK
  <2>2. \A i \in 1..Len(new) : new[i] \in Draft
    BY SMTT(30)
  <2>3. \A i \in 1..Len(new) : frames[i] \in UpFrame
    BY <2>1, <2>2, SMTT(30) DEF Draft, UpFrame
  <2> QED
    BY <2>3, <1>2, SMTT(30)
<1>4. \A i \in 1..Len(frames) : Claimed(frames[i].cmd)
  BY <1>2, <1>3
<1> HIDE DEF frames
<1>5. ASSUME NEW s \in Seq(UpFrame), AllClaimed(s) PROVE AllClaimed(s \o frames)
  <2>1. /\ Len(s \o frames) = Len(s) + Len(frames) /\ Len(s) \in Nat /\ Len(frames) \in Nat
        /\ \A i \in 1..Len(s) : (s \o frames)[i] = s[i]
        /\ \A i \in 1..Len(frames) : (s \o frames)[Len(s) + i] = frames[i]
    <3>1. s \in Seq(UpFrame) /\ frames \in Seq(UpFrame)
      BY <1>3, SMTT(30)
    <3> QED
      BY ONLY <3>1, Concat
  <2> SUFFICES ASSUME NEW i \in 1..Len(s \o frames) PROVE Claimed((s \o frames)[i].cmd)
    BY DEF AllClaimed
  <2>2. CASE i <= Len(s)
    <3>1. i \in 1..Len(s)
      BY <2>1, <2>2, SMTT(30)
    <3> QED
      BY <3>1, <2>1, <1>5 DEF AllClaimed
  <2>3. CASE ~(i <= Len(s))
    <3>1. PICK j \in 1..Len(frames) : i = Len(s) + j
      <4>1. i - Len(s) \in 1..Len(frames) /\ i = Len(s) + (i - Len(s))
        BY <2>1, <2>3, SMTT(30)
      <4> QED
        BY <4>1
    <3> QED
      BY <3>1, <2>1, <1>4
  <2> QED
    BY <2>2, <2>3
<1>6. wire[rconn] \in Seq(UpFrame) /\ up[rconn] \in Seq(UpFrame)
  BY <1>a, SMTT(30)
<1>7. AllClaimed(wire[rconn] \o frames) /\ AllClaimed(up[rconn] \o frames)
  BY <1>5, <1>6, <1>a
<1>8. up' = up \/ up' = [up EXCEPT ![rconn] = up[rconn] \o frames]
  BY <1>1, <1>a
<1>9. \A c \in Conns : AllClaimed(wire'[c])
  BY <1>1, <1>7, <1>a
<1>10. \A c \in Conns : AllClaimed(up'[c])
  BY <1>7, <1>8, <1>a
<1> QED
  BY <1>9, <1>10

LEMMA OneClaimed ==
  ASSUME SessionInv, rconn \in Conns, Reporting, NEW k \in Commands \cup {NoCommand}, Claimed(k),
         NEW t \in {"registration", "heartbeat", "result", "terminal"}, Send(rconn, <<Message(t, k)>>)
  PROVE  \A c \in Conns : AllClaimed(wire'[c]) /\ AllClaimed(up'[c])
<1>1. <<Message(t, k)>> \in Seq(Draft)
  BY Drafts
<1>2. \A i \in 1..Len(<<Message(t, k)>>) : <<Message(t, k)>>[i].cmd = k
  BY SMTT(30) DEF Message
<1> QED
  BY <1>1, <1>2, SendsClaimed

(* The Runner reports on what it was sent.                                 *)
LEMMA TalkReports ==
  ASSUME SessionInv, CommandInv, Talk
  PROVE  /\ \A k \in running' : Claimed(k)
         /\ \A c \in Conns : AllClaimed(wire'[c]) /\ AllClaimed(up'[c])
<1>a. /\ SessionTypeOK /\ Dialled /\ Reporting /\ running \in SUBSET Commands
      /\ \A k \in running : Claimed(k)
      /\ \A c \in Conns : AllClaimed(wire[c]) /\ AllClaimed(up[c])
  BY DEF SessionInv, CommandInv, CommandTypeOK, Reporting
<1>1. CASE Register
  <2>1. rconn \in Conns /\ UNCHANGED running
        /\ Send(rconn, <<Message("registration", NoCommand), Message("heartbeat", NoCommand)>>)
    BY <1>1, <1>a, Connected DEF Register
  <2>2. /\ <<Message("registration", NoCommand), Message("heartbeat", NoCommand)>> \in Seq(Draft)
        /\ \A i \in 1..Len(<<Message("registration", NoCommand), Message("heartbeat", NoCommand)>>) :
             <<Message("registration", NoCommand), Message("heartbeat", NoCommand)>>[i].cmd = NoCommand
    BY SMTT(30) DEF Message, Draft
  <2> QED
    BY <2>1, <2>2, <1>a, NoneClaimed, SendsClaimed
<1>2. CASE Serve
  <2> DEFINE f == Head(down[rconn])
  <2>1. rphase = "serving" /\ down[rconn] # <<>> /\ rconn \in Conns /\ down[rconn] \in Seq(DownFrame)
    BY <1>2, <1>a, Connected DEF Serve, SessionTypeOK
  <2>2. 1 \in 1..Len(down[rconn]) /\ f = down[rconn][1]
    BY <2>1, SMTT(30)
  <2>3. Known(f)
    BY <2>1, <2>2 DEF CommandInv, Serving
  <2>4. f.cmd \in Commands /\ Claimed(f.cmd)
    BY <2>1, <2>3, KnownClaimed DEF Known
  <2>5. \/ UNCHANGED <<up, wire>>
        \/ Send(rconn, <<Message("result", f.cmd)>>)
    BY <1>2 DEF Serve
  <2>6. \/ running' = running \/ running' = {}
        \/ running' = running \cup ({f.cmd} \ {g.cmd : g \in accepted})
    BY <1>2 DEF Serve, EndSession
  <2> HIDE DEF f
  <2>7. \A k \in running' : Claimed(k)
    BY <2>4, <2>6, <1>a
  <2> QED
    BY <2>1, <2>4, <2>5, <2>7, <1>a, OneClaimed
<1>3. ASSUME NEW k \in Commands, Finish(k)
      PROVE  /\ \A j \in running' : Claimed(j)
             /\ \A c \in Conns : AllClaimed(wire'[c]) /\ AllClaimed(up'[c])
  <2>1. k \in running /\ running' = running \ {k} /\ Send(rconn, <<Message("result", k)>>)
    BY <1>3 DEF Finish
  <2>2. rconn \in Conns
    BY <2>1, <1>a, Connected
  <2> QED
    BY <2>1, <2>2, <1>a, OneClaimed
<1>4. CASE sendInstanceTerminal
  <2>1. rconn \in Conns /\ UNCHANGED running /\ Send(rconn, <<Message("terminal", NoCommand)>>)
    BY <1>4, <1>a, Connected DEF sendInstanceTerminal
  <2> QED
    BY <2>1, <1>a, NoneClaimed, OneClaimed
<1>5. CASE LoseSession \/ Restart
  <2>1. running' = {} /\ UNCHANGED <<up, wire>>
    BY <1>5 DEF LoseSession, Restart, EndSession, streams
  <2> QED
    BY <2>1, <1>a
<1> QED
  BY <1>1, <1>2, <1>3, <1>4, <1>5 DEF Talk

LEMMA PartsClaimed ==
  ASSUME NEW s \in Seq(UpFrame), s # <<>>, AllClaimed(s)
  PROVE  Claimed(Head(s).cmd) /\ AllClaimed(Tail(s))
<1>1. /\ 1 \in 1..Len(s) /\ Head(s) = s[1] /\ Len(Tail(s)) = Len(s) - 1
      /\ \A i \in 1..(Len(s) - 1) : Tail(s)[i] = s[i + 1] /\ i + 1 \in 1..Len(s)
  BY SMTT(30)
<1> QED
  BY <1>1 DEF AllClaimed

LEMMA EmptyClaimed == AllClaimed(<<>>)
  BY SMTT(30) DEF AllClaimed

LEMMA ReportingInv ==
  ASSUME SessionInv, CommandInv, [Next]_vars
  PROVE  Reporting'
<1>a. /\ SessionTypeOK /\ Dialled
      /\ up \in [Conns -> Seq(UpFrame)] /\ wire \in [Conns -> Seq(UpFrame)]
      /\ batch \in [Conns -> Seq(UpFrame)]
      /\ \A k \in running : Claimed(k)
      /\ \A c \in Conns : AllClaimed(wire[c]) /\ AllClaimed(up[c]) /\ AllClaimed(batch[c])
  BY DEF SessionInv, SessionTypeOK, CommandInv, Reporting
<1>b. \A c \in Conns : up[c] \in Seq(UpFrame) /\ wire[c] \in Seq(UpFrame) /\ batch[c] \in Seq(UpFrame)
  BY <1>a, SMTT(30)
<1>1. \A k \in running' : Claimed(k)
  <2>1. CASE Connect
    BY <2>1 DEF Connect
  <2> QED
    BY <2>1, <1>a, TalkReports, Touches
<1>2. \A c \in Conns : AllClaimed(wire'[c])
  BY <1>a, TalkReports, Touches
<1>3. \A c \in Conns : AllClaimed(up'[c])
  <2>1. ASSUME NEW c \in Conns, RecordRegistration(c) \/ RecordHeartbeat(c) \/ collectDurableEventBatch(c)
        PROVE  \A d \in Conns : AllClaimed(up'[d])
    <3>1. up[c] # <<>> /\ up' = [up EXCEPT ![c] = Tail(up[c])]
      BY <2>1, <1>a, Receives DEF Receive
    <3>2. AllClaimed(Tail(up[c]))
      BY <3>1, <1>a, <1>b, PartsClaimed
    <3> QED
      BY <3>1, <3>2, <1>a
  <2>2. ASSUME NEW c \in Conns, Replay(c) PROVE \A d \in Conns : AllClaimed(up'[d])
    <3>1. PICK i \in 2..Len(wire[c]) : up' = [up EXCEPT ![c] = <<wire[c][i]>>]
      BY <2>2 DEF Replay
    <3>2. i \in 1..Len(wire[c])
      BY SMTT(30)
    <3>3. Claimed(wire[c][i].cmd)
      BY <3>2, <1>a DEF AllClaimed
    <3>4. Len(<<wire[c][i]>>) = 1 /\ <<wire[c][i]>>[1] = wire[c][i]
      BY SMTT(30)
    <3>5. AllClaimed(<<wire[c][i]>>)
      BY <3>3, <3>4, SMTT(30) DEF AllClaimed
    <3> QED
      BY <3>1, <3>5, <1>a
  <2> QED
    BY <2>1, <2>2, <1>a, TalkReports, Touches
<1>4. \A c \in Conns : AllClaimed(batch'[c])
  <2>1. ASSUME NEW c \in Conns, NEW s, AllClaimed(s), batch' = [batch EXCEPT ![c] = s]
        PROVE  \A d \in Conns : AllClaimed(batch'[d])
    BY <2>1, <1>a
  <2>2. ASSUME NEW c \in Conns, collectDurableEventBatch(c) PROVE \A d \in Conns : AllClaimed(batch'[d])
    <3>1. /\ up[c] # <<>>
          /\ batch' = batch \/ batch' = [batch EXCEPT ![c] = Append(@, Head(up[c]))]
      BY <2>2 DEF collectDurableEventBatch, Receive
    <3>2. Claimed(Head(up[c]).cmd)
      BY <3>1, <1>a, <1>b, PartsClaimed
    <3>3. batch[c] \in Seq(UpFrame)
      BY <1>b, SMTT(30)
    <3>4. /\ Len(Append(batch[c], Head(up[c]))) = Len(batch[c]) + 1 /\ Len(batch[c]) \in Nat
          /\ \A i \in 1..Len(batch[c]) : Append(batch[c], Head(up[c]))[i] = batch[c][i]
          /\ Append(batch[c], Head(up[c]))[Len(batch[c]) + 1] = Head(up[c])
      BY ONLY <3>3
    <3>5. \A i \in 1..Len(batch[c]) : Claimed(batch[c][i].cmd)
      BY <1>a DEF AllClaimed
    <3>6. AllClaimed(Append(batch[c], Head(up[c])))
      BY ONLY <3>2, <3>4, <3>5 DEF AllClaimed
    <3> QED
      BY <2>1, <3>1, <3>6, <1>a
  <2>3. ASSUME NEW c \in Conns, RecordEvents(c) \/ RecordEvent(c) \/ PersistFails(c) \/ Crash(c)
        PROVE  \A d \in Conns : AllClaimed(batch'[d])
    <3>1. \/ batch' = batch \/ batch' = [batch EXCEPT ![c] = <<>>]
          \/ batch[c] # <<>> /\ batch' = [batch EXCEPT ![c] = Tail(batch[c])]
      BY <2>3 DEF RecordEvents, RecordEvent, PersistFails, Crash
    <3>2. batch[c] # <<>> => AllClaimed(Tail(batch[c]))
      BY <1>a, <1>b, PartsClaimed
    <3> QED
      BY <2>1, <3>1, <3>2, <1>a, EmptyClaimed
  <2> QED
    BY <2>2, <2>3, <1>a, Touches
<1>5. \A k : Claimed(k) => Claimed(k)'
  BY ClaimedKept
<1>6. \A k \in running' : Claimed(k)'
  BY <1>1, <1>5
<1>7. ASSUME NEW s, AllClaimed(s) PROVE \A i \in 1..Len(s) : Claimed(s[i].cmd)'
  BY <1>5, <1>7 DEF AllClaimed
<1> QED
  BY <1>2, <1>3, <1>4, <1>6, <1>7 DEF Reporting, AllClaimed

(* Nothing is on the way before there is somebody to send it.              *)
LEMMA UnservedInv ==
  ASSUME SessionInv, CommandInv, [Next]_vars
  PROVE  Unserved'
<1>a. /\ SessionTypeOK /\ Dialled /\ phase \in [Conns -> Phases]
      /\ up \in [Conns -> Seq(UpFrame)]
      /\ \A c \in Conns : /\ phase[c] \in {"none", "greeted", "open"} => lastControl[c] = 0
                          /\ c > dialled => up[c] = <<>>
      /\ rphase = "hello" => /\ down[rconn] = <<Welcome>> /\ up[rconn] = <<>>
                             /\ accepted = {} /\ running = {}
                             /\ phase[rconn] # "registered" /\ lastControl[rconn] = 0
  BY DEF SessionInv, SessionTypeOK, CommandInv, Unserved
<1>b. /\ dialled \in 0..MaxConn /\ rconn \in 0..MaxConn /\ rconn <= dialled
      /\ \A c \in Conns : c > dialled => phase[c] = "none"
  BY DEF SessionInv, SessionTypeOK, Dialled
<1>c. ASSUME NEW e \in Conns, SendCommands(e) \/ SendFails(e)
      PROVE  /\ phase[e] = "registered" /\ UNCHANGED phase
             /\ \A c \in Conns : c # e => lastControl'[c] = lastControl[c]
             /\ \A c \in Conns : c # e => down'[c] = down[c]
  <2>1. PICK q \in Queues, n \in Nat : ClaimsFor(e, q, n)
    BY <1>c, <1>a, Claims
  <2>2. phase[e] = "registered" /\ \A c \in Conns : c # e => lastControl'[c] = lastControl[c]
    BY <2>1, ClaimedFirst DEF ClaimsFor
  <2>3. UNCHANGED phase
    BY <1>c, DeliveringFrames DEF Delivering
  <2>4. down \in [Conns -> Seq(DownFrame)]
    BY DEF SessionInv, SessionTypeOK
  <2>5. \A c \in Conns : c # e => down'[c] = down[c]
    BY <2>1, <2>4 DEF ClaimsFor
  <2> QED
    BY <2>2, <2>3, <2>5
<1>1. \A c \in Conns : phase'[c] \in {"none", "greeted", "open"} => lastControl'[c] = 0
  <2> SUFFICES ASSUME NEW c \in Conns, phase'[c] \in {"none", "greeted", "open"}
               PROVE  lastControl'[c] = 0
    BY SMTT(30)
  <2>1. ASSUME NEW e \in Conns, SendCommands(e) \/ SendFails(e) PROVE lastControl'[c] = 0
    <3>1. c # e
      BY <1>c, <2>1, SMTT(30)
    <3> QED
      BY <3>1, <1>a, <1>c, <2>1
  <2>2. CASE UNCHANGED phase /\ UNCHANGED lastControl
    BY <2>2, <1>a
  <2>3. CASE Connect /\ UNCHANGED lastControl
    <3>1. phase' = [phase EXCEPT ![dialled + 1] = "greeted"]
      BY <2>3 DEF Connect
    <3>2. dialled + 1 > dialled
      BY <1>b, SMTT(30)
    <3>3. phase[c] \in {"none", "greeted", "open"}
      BY <3>1, <3>2, <1>a, <1>b, SMTT(30)
    <3> QED
      BY <3>3, <2>3, <1>a
  <2>4. ASSUME NEW e \in Conns, OpenConnection(e), UNCHANGED lastControl PROVE lastControl'[c] = 0
    <3>1. phase[e] = "greeted" /\ phase' = [phase EXCEPT ![e] = "open"]
      BY <2>4 DEF OpenConnection
    <3>2. phase[c] \in {"none", "greeted", "open"}
      BY <3>1, <1>a, SMTT(30)
    <3> QED
      BY <3>2, <2>4, <1>a
  <2>5. ASSUME NEW e \in Conns, RecordRegistration(e) \/ CloseConnection(e) \/ GiveUp(e) \/ Crash(e),
               UNCHANGED lastControl
        PROVE  lastControl'[c] = 0
    <3>1. phase' = phase \/ phase' = [phase EXCEPT ![e] = "registered"]
          \/ phase' = [phase EXCEPT ![e] = "closed"]
      BY <2>5 DEF RecordRegistration, CloseConnection, GiveUp, Crash
    <3>2. phase[c] \in {"none", "greeted", "open"}
      BY <3>1, <1>a, SMTT(30)
    <3> QED
      BY <3>2, <2>5, <1>a
  <2> QED
    BY <2>1, <2>2, <2>3, <2>4, <2>5, Touches
<1>2. ASSUME NEW c \in Conns, up[c] = <<>>, phase[c] # "registered", ~(Talk /\ c = rconn)
      PROVE  up'[c] = <<>>
  <2>1. CASE Talk
    <3>1. CASE Sends
      BY <2>1, <3>1, <1>2, SendsEffect
    <3> QED
      BY <2>1, <3>1, <1>2, <1>a, TalkEffect DEF Leaves, Quiet
  <2>2. ASSUME NEW d \in Conns, RecordRegistration(d) \/ RecordHeartbeat(d) \/ collectDurableEventBatch(d)
        PROVE  up'[c] = <<>>
    <3>1. up[d] # <<>> /\ up' = [up EXCEPT ![d] = Tail(up[d])]
      BY <2>2, <1>a, Receives DEF Receive
    <3> QED
      BY <3>1, <1>2, <1>a
  <2>3. ASSUME NEW d \in Conns, Replay(d) PROVE up'[c] = <<>>
    <3>1. phase[d] = "registered" /\ \E s : up' = [up EXCEPT ![d] = s]
      BY <2>3 DEF Replay
    <3> QED
      BY <3>1, <1>2, <1>a
  <2> QED
    BY <2>1, <2>2, <2>3, <1>2, Touches
<1>3. \A c \in Conns : c > dialled' => up'[c] = <<>>
  <2> SUFFICES ASSUME NEW c \in Conns, c > dialled' PROVE up'[c] = <<>>
    BY SMTT(30)
  <2>1. c > dialled
    <3>1. UNCHANGED dialled \/ dialled' = dialled + 1
      BY Touches DEF Connect
    <3> QED
      BY <3>1, <1>b, SMTT(30) DEF Conns
  <2>2. c # rconn /\ phase[c] = "none" /\ up[c] = <<>>
    BY <2>1, <1>a, <1>b, SMTT(30) DEF Conns
  <2>3. phase[c] # "registered"
    BY <2>2, SMTT(30)
  <2> QED
    BY <2>2, <2>3, <1>2
<1>4. ASSUME rphase' = "hello"
      PROVE  /\ down'[rconn'] = <<Welcome>> /\ up'[rconn'] = <<>>
             /\ accepted' = {} /\ running' = {}
             /\ phase'[rconn'] # "registered" /\ lastControl'[rconn'] = 0
  <2>1. CASE Connect
    <3>1. /\ rconn' = dialled + 1 /\ dialled < MaxConn
          /\ phase' = [phase EXCEPT ![dialled + 1] = "greeted"]
          /\ down' = [down EXCEPT ![dialled + 1] = <<Welcome>>]
          /\ accepted' = {} /\ running' = {} /\ UNCHANGED <<up, lastControl>>
      BY <2>1 DEF Connect, rows
    <3>2. dialled + 1 \in Conns /\ dialled + 1 > dialled
      BY <3>1, <1>b, SessionAssumption, SMTT(30) DEF Conns
    <3>3. up[dialled + 1] = <<>> /\ phase[dialled + 1] = "none"
      BY <3>2, <1>a, <1>b
    <3>4. lastControl[dialled + 1] = 0
      BY <3>2, <3>3, <1>a
    <3>5. down'[dialled + 1] = <<Welcome>>
      <4>1. down \in [Conns -> Seq(DownFrame)]
        BY <1>a DEF SessionTypeOK
      <4> QED
        BY <4>1, <3>1, <3>2
    <3>6. phase'[dialled + 1] # "registered"
      BY <3>1, <3>2, <1>a, SMTT(30)
    <3> QED
      BY <3>1, <3>3, <3>4, <3>5, <3>6
  <2>2. CASE UNCHANGED <<rconn, rphase, running>> /\ ~Connect
    <3>1. rphase = "hello" /\ rconn \in Conns
      BY <2>2, <1>4, <1>a, Connected, SMTT(30)
    <3>2. ~Register /\ ~Serve
      BY <3>1, <2>2, <1>4, SMTT(30) DEF Register, Serve
    <3>3. UNCHANGED accepted
      BY <2>2, <3>2, Touches
    <3>4. down'[rconn] = down[rconn]
      <4>1. ASSUME NEW e \in Conns, SendCommands(e) \/ SendFails(e) PROVE down'[rconn] = down[rconn]
        BY <4>1, <3>1, <1>a, <1>c
      <4> QED
        BY <4>1, <2>2, <3>2, Touches
    <3>5. lastControl'[rconn] = 0
      <4>1. ASSUME NEW e \in Conns, SendCommands(e) \/ SendFails(e) PROVE lastControl'[rconn] = lastControl[rconn]
        BY <4>1, <3>1, <1>a, <1>c
      <4> QED
        BY <4>1, <3>1, <1>a, Touches
    <3>6. ~Talk
      <4>1. ~sendInstanceTerminal
        BY <3>1, SMTT(30) DEF sendInstanceTerminal
      <4>2. ~LoseSession /\ ~Restart
        <5>1. LoseSession \/ Restart => rphase' = "idle"
          BY Zenon DEF LoseSession, Restart, EndSession
        <5> QED
          BY <5>1, <1>4
      <4>3. \A k \in Commands : ~Finish(k)
        BY <3>1, <1>a, SMTT(30) DEF Finish
      <4> QED
        BY <3>2, <4>1, <4>2, <4>3 DEF Talk
    <3>7. up'[rconn] = <<>>
      BY <3>1, <3>6, <1>2, <1>a
    <3>8. phase'[rconn] # "registered"
      <4>1. CASE UNCHANGED phase
        BY <4>1, <3>1, <1>a
      <4>2. ASSUME NEW e \in Conns, OpenConnection(e) PROVE phase'[rconn] # "registered"
        <5>1. phase' = [phase EXCEPT ![e] = "open"]
          BY <4>2 DEF OpenConnection
        <5> QED
          BY <5>1, <3>1, <1>a, SMTT(30)
      <4>3. ASSUME NEW e \in Conns, CloseConnection(e) \/ GiveUp(e) \/ Crash(e)
            PROVE  phase'[rconn] # "registered"
        <5>1. phase' = [phase EXCEPT ![e] = "closed"]
          BY <4>3 DEF CloseConnection, GiveUp, Crash
        <5> QED
          BY <5>1, <3>1, <1>a, SMTT(30)
      <4>4. ASSUME NEW e \in Conns, RecordRegistration(e) PROVE phase'[rconn] # "registered"
        <5>1. up[e] # <<>> /\ (UNCHANGED phase \/ phase' = [phase EXCEPT ![e] = "registered"])
          BY <4>4 DEF RecordRegistration, Receive
        <5> QED
          BY <5>1, <3>1, <1>a
      <4> QED
        BY <4>1, <4>2, <4>3, <4>4, <2>2, Touches
    <3> QED
      BY <2>2, <3>1, <3>3, <3>4, <3>5, <3>7, <3>8, <1>a
  <2>3. CASE Talk /\ ~UNCHANGED <<rconn, rphase, running>>
    <3>1. CASE Register \/ LoseSession \/ Restart
      <4>1. rphase' = "serving" \/ rphase' = "idle"
        BY <3>1, Zenon DEF Register, LoseSession, Restart, EndSession
      <4> QED
        BY <4>1, <1>4
    <3>2. CASE Serve
      <4>1. rphase' = "idle" \/ (rphase = "serving" /\ rphase' = rphase)
        BY <3>2, Zenon DEF Serve, EndSession
      <4> QED
        BY <4>1, <1>4
    <3>3. ASSUME NEW k \in Commands, Finish(k) PROVE FALSE
      <4>1. k \in running /\ UNCHANGED rphase
        BY <3>3 DEF Finish
      <4> QED
        BY <4>1, <1>4, <1>a, SMTT(30)
    <3>4. CASE sendInstanceTerminal
      BY <3>4, <2>3 DEF sendInstanceTerminal
    <3> QED
      BY <3>1, <3>2, <3>3, <3>4, <2>3 DEF Talk
  <2> QED
    BY <2>1, <2>2, <2>3, Touches
<1> QED
  BY <1>1, <1>3, <1>4 DEF Unserved

(* A frame stays one of the connection that the Runner serves.             *)
LEMMA KnownKept ==
  ASSUME SessionInv, CommandInv, [Next]_vars, rconn \in Conns, UNCHANGED rconn, NEW f, Known(f)
  PROVE  /\ f.cmd \in Commands /\ f.seq \in 1..lastControl'[rconn]
         /\ f.seq = 1 <=> f.cmd = Reconcile(rconn)
         /\ \A c \in Conns : f.cmd = Reconcile(c) => c = rconn
         /\ cstate'[rconn] = "active" => cmdState'[f.cmd] \notin {"pending", "absent"}
<1>a. cstate \in [Conns -> States] /\ cmdState \in [Commands -> CmdStates]
  BY DEF SessionInv, SessionTypeOK, CommandInv, CommandTypeOK
<1>b. /\ f.cmd \in Commands /\ f.seq \in 1..lastControl[rconn]
      /\ f.seq = 1 <=> f.cmd = Reconcile(rconn)
      /\ \A c \in Conns : f.cmd = Reconcile(c) => c = rconn
      /\ cstate[rconn] = "active" => cmdState[f.cmd] \notin {"pending", "absent"}
  BY DEF Known
<1>1. f.seq \in 1..lastControl'[rconn]
  <2>1. lastControl[rconn] \in Nat /\ lastControl'[rconn] \in Nat /\ lastControl'[rconn] >= lastControl[rconn]
    BY ClaimedKept
  <2> QED
    BY <2>1, <1>b, SMTT(30)
<1>2. ASSUME cstate'[rconn] = "active" PROVE cmdState'[f.cmd] \notin {"pending", "absent"}
  <2>1. ASSUME NEW e \in Conns, OpenConnection(e) PROVE FALSE
    <3>1. /\ phase[e] = "greeted"
          /\ cstate' = [d \in Conns |-> IF d = e THEN "active"
                                        ELSE IF cstate[d] = "active" THEN "superseded" ELSE cstate[d]]
      BY <2>1, Opens
    <3>2. e = rconn
      BY <3>1, <1>2, SMTT(30)
    <3>3. lastControl[rconn] = 0
      BY <3>1, <3>2 DEF CommandInv, Unserved
    <3> QED
      BY <3>3, <1>b, SMTT(30)
  <2>2. cstate[rconn] = "active"
    <3>1. ASSUME NEW d \in Conns, CloseConnection(d) PROVE cstate[rconn] = "active"
      <4>1. cstate' = [cstate EXCEPT ![d] = IF @ = "active" THEN "disconnected" ELSE @]
        BY <3>1 DEF CloseConnection
      <4> QED
        BY <4>1, <1>2, <1>a, SMTT(30)
    <3> QED
      BY <2>1, <3>1, <1>2, Touches
  <2>3. CASE InsertCommand
    <3>1. f.cmd # <<"command", created + 1>>
      BY <2>2, <2>3, <1>b, Inserts, SMTT(30)
    <3>2. cmdState'[f.cmd] = cmdState[f.cmd]
      BY <2>3, <3>1, <1>a, <1>b, Inserts
    <3> QED
      BY <3>2, <2>2, <1>b
  <2>4. CASE ~InsertCommand
    <3>1. Progress(f.cmd)
      BY <2>1, <2>4, <1>b, Moves DEF Opening
    <3> QED
      BY <3>1, <2>2, <1>b DEF Progress
  <2> QED
    BY <2>3, <2>4
<1> QED
  BY <1>1, <1>2, <1>b

(* The frames of a claim for the connection that the Runner serves.        *)
LEMMA ClaimedFrames ==
  ASSUME SessionInv, CommandInv, rconn \in Conns, UNCHANGED <<rconn, cstate>>,
         NEW q \in Queues, NEW n \in Nat, ClaimsFor(rconn, q, n),
         NEW i \in 1..n, NEW f, f = Frames(rconn, q, n)[i]
  PROVE  /\ Known(f)' /\ \A g : Known(g) => Precedes(g, f)
         /\ \A j \in 1..n : j < i => Precedes(Frames(rconn, q, n)[j], f)
<1>a. /\ lastControl'[rconn] = lastControl[rconn] + Len(q) /\ lastControl[rconn] \in Nat
  BY ClaimedFirst
<1>b. /\ lastControl[rconn] = 0 => q[1] = Reconcile(rconn)
      /\ lastControl[rconn] # 0 => \A j \in 1..Len(q) : q[j] # Reconcile(rconn)
      /\ \A j \in 1..Len(q), d \in Conns : q[j] = Reconcile(d) => d = rconn
      /\ \A j, m \in 1..Len(q) : j < m => q[j] # q[m]
      /\ \A j \in 1..Len(q) : q[j] \in Commands /\ cmdState[q[j]] = "pending"
  BY FirstClaim DEF ClaimsFor
<1>c. Len(q) \in Nat /\ n <= Len(q) /\ cstate[rconn] = "active"
  BY QueueType DEF ClaimsFor
<1>1. \A j \in 1..n : /\ Frames(rconn, q, n)[j].seq = lastControl[rconn] + j
                      /\ Frames(rconn, q, n)[j].cmd = q[j]
  BY SMTT(30) DEF Frames
<1>2. f.seq = lastControl[rconn] + i /\ f.cmd = q[i] /\ i \in 1..Len(q) /\ 1 \in 1..Len(q)
  BY <1>1, <1>c, SMTT(30)
<1>3. f.seq \in 1..lastControl'[rconn]
  BY <1>2, <1>a, <1>c, SMTT(30)
<1>4. f.seq = 1 <=> f.cmd = Reconcile(rconn)
  <2>1. CASE lastControl[rconn] = 0
    <3>1. f.seq = 1 <=> i = 1
      BY <2>1, <1>2, SMTT(30)
    <3>2. i # 1 => 1 < i
      BY <1>2, SMTT(30)
    <3> QED
      BY <2>1, <3>1, <3>2, <1>2, <1>b
  <2>2. CASE lastControl[rconn] # 0
    <3>1. f.seq # 1
      BY <2>2, <1>2, <1>a, SMTT(30)
    <3> QED
      BY <2>2, <3>1, <1>2, <1>b
  <2> QED
    BY <2>1, <2>2, SMTT(30)
<1>5. cmdState'[f.cmd] \notin {"pending", "absent"}
  <2>1. q[i] \in Among(q, Len(q))
    BY <1>2 DEF Among
  <2>2. cmdState'[q[i]] \in {"delivering", "delivered"}
    BY <2>1, <1>2, <1>b DEF ClaimsFor
  <2> QED
    BY <2>2, <1>2, SMTT(30)
<1>6. Known(f)'
  <2>1. f.cmd \in Commands /\ \A d \in Conns : f.cmd = Reconcile(d) => d = rconn
    BY <1>2, <1>b
  <2> QED
    BY <2>1, <1>3, <1>4, <1>5 DEF Known, Reconcile
<1>7. ASSUME NEW g, Known(g) PROVE Precedes(g, f)
  <2>1. g.seq \in 1..lastControl[rconn] /\ cmdState[g.cmd] # "pending"
    BY <1>7, <1>c, SMTT(30) DEF Known
  <2>2. g.seq < f.seq
    BY <2>1, <1>2, <1>a, SMTT(30)
  <2>3. g.cmd # f.cmd
    BY <2>1, <1>2, <1>b
  <2> QED
    BY <2>2, <2>3 DEF Precedes
<1>8. ASSUME NEW j \in 1..n, j < i PROVE Precedes(Frames(rconn, q, n)[j], f)
  <2>1. j \in 1..Len(q) /\ lastControl[rconn] + j < lastControl[rconn] + i
    BY <1>8, <1>a, <1>c, SMTT(30)
  <2>2. q[j] # q[i]
    BY <2>1, <1>2, <1>8, <1>b
  <2> QED
    BY <2>1, <2>2, <1>1, <1>2 DEF Precedes
<1> QED
  BY <1>6, <1>7, <1>8

(* Frames that the Runner will accept stay ones that it will accept.       *)
Acceptable(s) ==
  /\ \A f \in accepted : Known(f)
  /\ \A i \in 1..Len(s) : Known(s[i]) /\ \A f \in accepted : Precedes(f, s[i])
  /\ \A i, j \in 1..Len(s) : i < j => Precedes(s[i], s[j])

LEMMA ServingKept ==
  ASSUME SessionInv, CommandInv, [Next]_vars, rconn \in Conns,
         UNCHANGED <<rconn, accepted>>, down'[rconn] = down[rconn], Acceptable(down[rconn])
  PROVE  Acceptable(down[rconn])'
<1>1. \A f : Known(f) => Known(f)'
  BY KnownKept DEF Known, Reconcile
<1> QED
  BY <1>1 DEF Acceptable

LEMMA ServingServe ==
  ASSUME SessionInv, CommandInv, [Next]_vars, rconn \in Conns, down[rconn] # <<>>, UNCHANGED rconn,
         accepted' = accepted \cup {Head(down[rconn])},
         down'[rconn] = Tail(down[rconn]), Acceptable(down[rconn])
  PROVE  Acceptable(down[rconn])'
<1> DEFINE s == down[rconn]
<1>1. s \in Seq(DownFrame)
  BY DEF SessionInv, SessionTypeOK
<1>2. /\ 1 \in 1..Len(s) /\ Head(s) = s[1] /\ Len(s) \in Nat /\ Len(Tail(s)) = Len(s) - 1
      /\ \A i \in 1..(Len(s) - 1) : Tail(s)[i] = s[i + 1] /\ i + 1 \in 1..Len(s) /\ 1 < i + 1
      /\ \A i, j \in 1..(Len(s) - 1) : i < j => i + 1 < j + 1
  BY <1>1, SMTT(30)
<1>3. /\ \A f \in accepted : Known(f)
      /\ \A i \in 1..Len(s) : Known(s[i]) /\ \A f \in accepted : Precedes(f, s[i])
      /\ \A i, j \in 1..Len(s) : i < j => Precedes(s[i], s[j])
  BY DEF Acceptable
<1>4. \A f : Known(f) => Known(f)'
  BY KnownKept DEF Known, Reconcile
<1> HIDE DEF s
<1>5. \A f \in accepted \cup {Head(s)} : Known(f)
  BY <1>2, <1>3
<1>6. \A i \in 1..Len(Tail(s)) : /\ Known(Tail(s)[i])
                                 /\ \A f \in accepted \cup {Head(s)} : Precedes(f, Tail(s)[i])
  BY <1>2, <1>3
<1>7. \A i, j \in 1..Len(Tail(s)) : i < j => Precedes(Tail(s)[i], Tail(s)[j])
  BY <1>2, <1>3
<1>8. accepted' = accepted \cup {Head(s)} /\ down'[rconn'] = Tail(s)
  BY SMTT(30) DEF s
<1> QED
  BY <1>4, <1>5, <1>6, <1>7, <1>8 DEF Acceptable

LEMMA ServingClaim ==
  ASSUME SessionInv, CommandInv, [Next]_vars, rconn \in Conns, UNCHANGED <<rconn, accepted, cstate>>,
         NEW q \in Queues, NEW n \in Nat, ClaimsFor(rconn, q, n),
         down'[rconn] = down[rconn] \o Frames(rconn, q, n), Acceptable(down[rconn])
  PROVE  Acceptable(down[rconn])'
<1> DEFINE s == down[rconn]
           t == Frames(rconn, q, n)
<1>1. s \in Seq(DownFrame) /\ t \in Seq(DownFrame) /\ Len(t) = n
  BY DEF SessionInv, SessionTypeOK, ClaimsFor
<1>2. \A j \in 1..n : \A f : f = t[j] =>
        /\ Known(f)' /\ \A g : Known(g) => Precedes(g, f)
        /\ \A i \in 1..n : i < j => Precedes(t[i], f)
  BY ClaimedFrames
<1>3. /\ \A f \in accepted : Known(f)
      /\ \A i \in 1..Len(s) : Known(s[i]) /\ \A f \in accepted : Precedes(f, s[i])
      /\ \A i, j \in 1..Len(s) : i < j => Precedes(s[i], s[j])
  BY DEF Acceptable
<1>4. \A f : Known(f) => Known(f)'
  BY KnownKept DEF Known, Reconcile
<1>5. accepted' = accepted /\ down'[rconn'] = s \o t /\ rconn' = rconn
  BY SMTT(30) DEF s, t
<1> HIDE DEF s, t
<1>6. /\ Len(s \o t) = Len(s) + Len(t) /\ Len(s) \in Nat /\ Len(t) \in Nat
      /\ \A i \in 1..Len(s) : (s \o t)[i] = s[i]
      /\ \A i \in 1..Len(t) : (s \o t)[Len(s) + i] = t[i]
  <2>1. s \in Seq(DownFrame) /\ t \in Seq(DownFrame)
    BY <1>1, SMTT(30)
  <2> QED
    BY ONLY <2>1, Concat
<1>7. \A i \in 1..Len(s \o t) : \/ i \in 1..Len(s)
                                \/ \E j \in 1..n : i = Len(s) + j
  <2> SUFFICES ASSUME NEW i \in 1..Len(s \o t), i \notin 1..Len(s)
               PROVE  \E j \in 1..n : i = Len(s) + j
    OBVIOUS
  <2>1. i - Len(s) \in 1..n /\ i = Len(s) + (i - Len(s))
    BY <1>1, <1>6, SMTT(30)
  <2> QED
    BY <2>1
<1>8. ASSUME NEW i \in 1..Len(s \o t), NEW f, f = (s \o t)[i]
      PROVE  Known(f)' /\ \A g \in accepted : Precedes(g, f)
  <2>1. CASE i \in 1..Len(s)
    BY <2>1, <1>3, <1>4, <1>6, <1>8
  <2>2. ASSUME NEW j \in 1..n, i = Len(s) + j
        PROVE  Known(f)' /\ \A g \in accepted : Precedes(g, f)
    <3>1. f = t[j]
      BY <2>2, <1>1, <1>6, <1>8
    <3> QED
      BY <3>1, <1>2, <1>3
  <2> QED
    BY <2>1, <2>2, <1>7
<1>9. ASSUME NEW i \in 1..Len(s \o t), NEW j \in 1..Len(s \o t), i < j
      PROVE  Precedes((s \o t)[i], (s \o t)[j])
  <2>1. CASE j \in 1..Len(s)
    <3>1. i \in 1..Len(s)
      BY <2>1, <1>6, <1>9, SMTT(30)
    <3> QED
      BY <2>1, <3>1, <1>3, <1>6, <1>9
  <2>2. ASSUME NEW m \in 1..n, j = Len(s) + m PROVE Precedes((s \o t)[i], (s \o t)[j])
    <3>1. (s \o t)[j] = t[m]
      BY <2>2, <1>1, <1>6
    <3>2. CASE i \in 1..Len(s)
      BY <3>1, <3>2, <1>2, <1>3, <1>6
    <3>3. ASSUME NEW l \in 1..n, i = Len(s) + l PROVE Precedes((s \o t)[i], (s \o t)[j])
      <4>1. l < m
        BY <2>2, <3>3, <1>6, <1>9, SMTT(30)
      <4>2. (s \o t)[i] = t[l]
        BY <3>3, <1>1, <1>6
      <4> QED
        BY <4>1, <4>2, <3>1, <1>2
    <3> QED
      BY <3>2, <3>3, <1>7
  <2> QED
    BY <2>1, <2>2, <1>7
<1>10. \A f \in accepted : Known(f)'
  BY <1>3, <1>4
<1> QED
  BY <1>5, <1>8, <1>9, <1>10 DEF Acceptable

LEMMA ServingInv ==
  ASSUME SessionInv, CommandInv, [Next]_vars
  PROVE  Serving'
<1>a. /\ SessionTypeOK /\ Dialled /\ down \in [Conns -> Seq(DownFrame)]
      /\ rphase = "serving" => Acceptable(down[rconn])
      /\ rphase = "hello" => down[rconn] = <<Welcome>> /\ accepted = {}
  BY DEF SessionInv, SessionTypeOK, CommandInv, Serving, Acceptable, Unserved
<1> SUFFICES ASSUME rphase' = "serving" PROVE Acceptable(down[rconn])'
  BY DEF Serving, Acceptable
<1>1. CASE Register
  <2>1. /\ rphase = "hello" /\ UNCHANGED <<rconn, accepted>>
        /\ down' = [down EXCEPT ![rconn] = Tail(@)]
    BY <1>1 DEF Register
  <2>2. rconn \in Conns
    BY <2>1, <1>a, Connected, SMTT(30)
  <2>3. accepted' = {} /\ down'[rconn'] = <<>>
    BY <2>1, <2>2, <1>a, SMTT(30)
  <2> QED
    BY <2>3, SMTT(30) DEF Acceptable
<1>2. CASE Serve
  <2>1. /\ rphase = "serving" /\ down[rconn] # <<>>
        /\ \/ EndSession
           \/ /\ UNCHANGED rconn /\ accepted' = accepted \cup {Head(down[rconn])}
              /\ down' = [down EXCEPT ![rconn] = Tail(@)]
    BY <1>2 DEF Serve
  <2>2. ~EndSession
    BY SMTT(30) DEF EndSession
  <2>3. rconn \in Conns
    BY <2>1, <1>a, Connected, SMTT(30)
  <2>4. down'[rconn] = Tail(down[rconn])
    BY <2>1, <2>2, <2>3, <1>a
  <2> QED
    BY <2>1, <2>2, <2>3, <2>4, <1>a, ServingServe
<1>3. ~Connect
  BY SMTT(30) DEF Connect
<1>4. CASE ~Register /\ ~Serve
  <2>1. UNCHANGED <<rconn, rphase>>
    <3>1. CASE LoseSession \/ Restart
      BY <3>1, SMTT(30) DEF LoseSession, Restart, EndSession
    <3>2. CASE sendInstanceTerminal
      BY <3>2 DEF sendInstanceTerminal
    <3>3. ASSUME NEW k \in Commands, Finish(k) PROVE UNCHANGED <<rconn, rphase>>
      BY <3>3 DEF Finish
    <3> QED
      BY <1>3, <1>4, <3>1, <3>2, <3>3, Touches DEF Talk
  <2>2. UNCHANGED accepted
    BY <1>3, <1>4, Touches
  <2>3. rphase = "serving" /\ rconn \in Conns
    BY <2>1, <1>a, Connected, SMTT(30)
  <2>4. CASE UNCHANGED down
    BY <2>1, <2>2, <2>3, <2>4, <1>a, ServingKept
  <2>5. ASSUME NEW e \in Conns, SendCommands(e) \/ SendFails(e) PROVE Acceptable(down[rconn])'
    <3>1. PICK q \in Queues, n \in Nat : ClaimsFor(e, q, n)
      BY <2>5, <1>a, Claims
    <3>2. down' = down \/ down' = [down EXCEPT ![e] = down[e] \o Frames(e, q, n)]
      BY <3>1, <1>a DEF ClaimsFor
    <3>3. UNCHANGED cstate
      BY <2>5, DeliveringFrames DEF Delivering
    <3>4. CASE down'[rconn] = down[rconn]
      BY <2>1, <2>2, <2>3, <3>4, <1>a, ServingKept
    <3>5. CASE e = rconn /\ down'[rconn] = down[rconn] \o Frames(rconn, q, n)
      BY <2>1, <2>2, <2>3, <3>1, <3>3, <3>5, <1>a, ServingClaim
    <3>6. \/ down'[rconn] = down[rconn]
          \/ e = rconn /\ down'[rconn] = down[rconn] \o Frames(rconn, q, n)
      BY <2>3, <3>2, <1>a
    <3> QED
      BY <3>4, <3>5, <3>6
  <2> QED
    BY <1>3, <1>4, <2>4, <2>5, Touches
<1> QED
  BY <1>1, <1>2, <1>4

-----------------------------------------------------------------------------
LEMMA CommandInit == Init => CommandInv
<1> SUFFICES ASSUME Init PROVE CommandInv
  BY SMTT(30)
<1>1. /\ rphase = "idle" /\ accepted = {} /\ running = {}
      /\ up = [c \in Conns |-> <<>>] /\ wire = [c \in Conns |-> <<>>]
      /\ window = [c \in Conns |-> <<>>] /\ batch = [c \in Conns |-> <<>>]
      /\ pump = [c \in Conns |-> <<>>]
      /\ cstate = [c \in Conns |-> "none"] /\ lastControl = [c \in Conns |-> 0]
      /\ cmdState = [k \in Commands |-> "absent"] /\ cmdTarget = [k \in Commands |-> 0]
      /\ created = 0 /\ \E s \in Scenarios : kinds = s.kinds
  BY DEF Init
<1>2. Len(kinds) \in Nat /\ Len(kinds) <= MaxCommands
  BY <1>1, SessionAssumption, SMTT(30)
<1>3. CommandTypeOK
  <2>1. accepted \in SUBSET DownFrame /\ running \in SUBSET Commands /\ created \in Nat
    BY <1>1, SMTT(30)
  <2>2. cmdState \in [Commands -> CmdStates]
    BY <1>1, SMTT(30) DEF CmdStates
  <2>3. cmdTarget \in [Commands -> 0..MaxConn]
    BY <1>1, SessionAssumption, SMTT(30)
  <2> QED
    BY <2>1, <2>2, <2>3, <1>2 DEF CommandTypeOK
<1>4. Bounded
  BY <1>1, SessionAssumption, SMTT(30) DEF Bounded
<1>5. Unserved
  BY <1>1, SMTT(30) DEF Unserved
<1>6. Uninserted
  BY <1>1, CommandNames DEF Uninserted
<1>7. Reconciling /\ Serving
  BY <1>1, SMTT(30) DEF Reconciling, Serving
<1>8. Reporting
  BY <1>1, EmptyClaimed DEF Reporting
<1> QED
  BY <1>3, <1>4, <1>5, <1>6, <1>7, <1>8 DEF CommandInv

LEMMA CommandNext ==
  ASSUME SessionInv, CommandInv, [Next]_vars
  PROVE  CommandInv'
<1>1. CommandTypeOK'
  BY CmdStateInv, AcceptedInv DEF CommandTypeOK, CmdStates, DownFrame
<1>2. Bounded'
  BY WindowInv, BatchBound, PumpInv DEF Bounded
<1>3. Uninserted'
  BY CmdStateInv
<1> QED
  BY <1>1, <1>2, <1>3, UnservedInv, ReconcilingInv, ReportingInv, ServingInv DEF CommandInv

LEMMA CommandInvariance == Spec => [](SessionInv /\ CommandInv)
  BY SessionInvariance, CommandInit, CommandNext, PTL DEF Spec

(* Types and bounds: whatever handlers, faults and repeated frames do, the *)
(* window of a Session, its batch of events and its pump's queue stay      *)
(* within their sizes, a command is in one of the states of                *)
(* runner_commands, and PostgreSQL has one active connection at most.      *)
THEOREM SessionTypes == Spec => []TypeOK
<1>1. SessionInv /\ CommandInv => TypeOK
  <2> SUFFICES ASSUME SessionInv, CommandInv PROVE TypeOK
    BY SMTT(30)
  <2>1. /\ dialled \in 0..MaxConn /\ rconn \in 0..MaxConn
        /\ rphase \in {"idle", "hello", "serving"} /\ sequence \in Nat
        /\ up \in [Conns -> Seq(UpFrame)] /\ down \in [Conns -> Seq(DownFrame)]
        /\ \A c, d \in Conns : Active(c) /\ Active(d) => c = d
    BY DEF SessionInv, SessionTypeOK, OpenedOnce
  <2>2. /\ running \in SUBSET Commands /\ cmdTarget \in [Commands -> 0..MaxConn]
        /\ cmdState \in [Commands -> Live \cup {"absent", "acknowledged", "expired"}]
        /\ \A c \in Conns : /\ Len(window[c]) <= Window /\ Len(batch[c]) <= EventBatchSize
                            /\ Len(pump[c]) <= CommandBatchSize
    BY DEF CommandInv, CommandTypeOK, Bounded, CmdStates
  <2>3. \A c \in Conns : up[c] \in Seq([seq : Nat,
                                       kind : {"registration", "heartbeat", "result", "terminal"},
                                       cmd : Commands \cup {NoCommand}])
    BY <2>1 DEF UpFrame
  <2>4. \A c \in Conns : down[c] \in Seq([seq : Nat, cmd : Commands \cup {NoCommand}])
    BY <2>1 DEF DownFrame
  <2> QED
    BY <2>1, <2>2, <2>3, <2>4 DEF TypeOK
<1> QED
  BY <1>1, CommandInvariance, PTL

(* The command frames that ClaimCommands numbers for a connection pass the *)
(* Runner's controlCommandState.accept, whatever other connections claim,  *)
(* acknowledge and take back meanwhile: numbers go up, no command comes    *)
(* twice, and the connection's reconciliation is the first.                *)
THEOREM Acceptance == Spec => []CommandsAcceptable
<1>1. SessionInv /\ CommandInv => CommandsAcceptable
  <2> SUFFICES ASSUME SessionInv, CommandInv, rphase = "serving"
               PROVE  /\ \A i \in 1..Len(down[rconn]) :
                           /\ ~Reordered(down[rconn][i])
                           /\ \A j \in 1..(i - 1) : /\ down[rconn][j].seq < down[rconn][i].seq
                                                    /\ down[rconn][j].cmd # down[rconn][i].cmd
                      /\ \A f \in accepted \cup {down[rconn][i] : i \in 1..Len(down[rconn])} :
                           f.seq = 1 <=> f.cmd = <<"reconcile", rconn>>
    BY DEF CommandsAcceptable
  <2>1. /\ \A f \in accepted : Known(f)
        /\ \A i \in 1..Len(down[rconn]) : /\ Known(down[rconn][i])
                                          /\ \A f \in accepted : Precedes(f, down[rconn][i])
        /\ \A i, j \in 1..Len(down[rconn]) : i < j => Precedes(down[rconn][i], down[rconn][j])
    BY DEF CommandInv, Serving
  <2>2. rconn \in Conns /\ lastControl[rconn] \in Nat /\ Len(down[rconn]) \in Nat
    <3>1. rconn \in Conns
      BY Connected, SMTT(30) DEF SessionInv
    <3>2. lastControl[rconn] \in Nat /\ down[rconn] \in Seq(DownFrame)
      BY <3>1 DEF SessionInv, SessionTypeOK
    <3> QED
      BY <3>1, <3>2, SMTT(30)
  <2>3. \A f \in accepted \cup {down[rconn][i] : i \in 1..Len(down[rconn])} :
          f.seq = 1 <=> f.cmd = <<"reconcile", rconn>>
    BY <2>1 DEF Known, Reconcile
  <2>4. ASSUME NEW i \in 1..Len(down[rconn]) PROVE ~Reordered(down[rconn][i])
    <3>1. down[rconn][i].seq \in Nat
      <4>1. down[rconn][i].seq \in 1..lastControl[rconn]
        BY <2>1 DEF Known
      <4> QED
        BY <4>1, <2>2, SMTT(30)
    <3>2. ASSUME NEW g \in accepted PROVE ~(g.cmd = down[rconn][i].cmd \/ down[rconn][i].seq <= g.seq)
      <4>1. g.seq \in Nat
        <5>1. g.seq \in 1..lastControl[rconn]
          BY <2>1 DEF Known
        <5> QED
          BY <5>1, <2>2, SMTT(30)
      <4>2. g.seq < down[rconn][i].seq /\ g.cmd # down[rconn][i].cmd
        BY <2>1 DEF Precedes
      <4> QED
        BY <4>1, <4>2, <3>1, SMTT(30)
    <3> QED
      BY <3>2 DEF Reordered
  <2>5. ASSUME NEW i \in 1..Len(down[rconn]), NEW j \in 1..(i - 1)
        PROVE  /\ down[rconn][j].seq < down[rconn][i].seq
               /\ down[rconn][j].cmd # down[rconn][i].cmd
    <3>1. j \in 1..Len(down[rconn]) /\ j < i
      BY <2>2, SMTT(30)
    <3> QED
      BY <3>1, <2>1 DEF Precedes
  <2> QED
    BY <2>3, <2>4, <2>5
<1> QED
  BY <1>1, CommandInvariance, PTL
=============================================================================
