--------------------------- MODULE EventLogProofs ---------------------------
(***************************************************************************)
(* What a log of sessions promises, for any set of connections.            *)
(***************************************************************************)
EXTENDS EventLog, TLAPS

LogTypeOK ==
  /\ sent \in [Conns -> Nat]
  /\ last \in [Conns -> Nat]
  /\ opened \in SUBSET Conns
  /\ current \in SUBSET opened
  /\ \A c, d \in current : c = d
  /\ log \in Seq(Entry)

(* Messages come from sessions, and up to the last one of theirs.          *)
Bounded == \A i \in 1..Len(log) : /\ log[i].conn \in opened
                                  /\ log[i].seq <= last[log[i].conn]

(* A session with a later message of another one is over.                  *)
Over == \A i, j \in 1..Len(log) :
          i < j /\ log[i].conn # log[j].conn => log[i].conn \notin current

LogInv == LogTypeOK /\ Bounded /\ Over /\ RecordedInOrder /\ SessionsContiguous

(* A step that adds no message, and makes current again no session that    *)
(* was over.                                                               *)
LEMMA OtherSteps ==
  ASSUME LogInv, UNCHANGED <<last, log>>, sent' \in [Conns -> Nat],
         opened' \in SUBSET Conns, opened \subseteq opened',
         current' \in SUBSET opened', \A c, d \in current' : c = d,
         current' \cap opened \subseteq current
  PROVE  LogInv'
<1>1. LogTypeOK'
  BY Zenon DEF LogInv, LogTypeOK
<1>2. Bounded'
  BY Zenon DEF LogInv, Bounded
<1>3. Over'
  <2>1. \A i \in 1..Len(log) : log[i].conn \in opened
    BY Zenon DEF LogInv, Bounded
  <2>2. \A i, j \in 1..Len(log) : i < j /\ log[i].conn # log[j].conn => log[i].conn \notin current
    BY Zenon DEF LogInv, Over
  <2>3. \A i, j \in 1..Len(log) : i < j /\ log[i].conn # log[j].conn => log[i].conn \notin current'
    BY <2>1, <2>2
  <2> QED
    BY <2>3, Zenon DEF Over
<1>4. RecordedInOrder'
  BY Zenon DEF LogInv, RecordedInOrder
<1>5. SessionsContiguous'
  <2>1. SessionsContiguous /\ log' = log
    BY Zenon DEF LogInv
  <2> QED
    BY <2>1, SMT DEF SessionsContiguous
<1> QED
  BY <1>1, <1>2, <1>3, <1>4, <1>5, Zenon DEF LogInv

(* A batch leaves the log with the old messages in front of the new ones.  *)
LEMMA RecordPreserves ==
  ASSUME LogInv, NEW c \in Conns, Record(c)
  PROVE  LogInv'
<1> DEFINE N == Len(log)
           M == Len(log')
<1>a. /\ last \in [Conns -> Nat] /\ current \in SUBSET opened /\ opened \in SUBSET Conns
      /\ log \in Seq(Entry) /\ \A d, e \in current : d = e
  BY Zenon DEF LogInv, LogTypeOK
<1>1. /\ N \in Nat /\ M \in Nat /\ N < M
      /\ log \in Seq(Entry) /\ log' \in Seq(Entry)
  BY <1>a DEF Record
<1>2. /\ \A i \in 1..N : log[i] \in Entry
      /\ \A i \in 1..M : log'[i] \in Entry
  BY <1>1
<1>3. \A i \in 1..N : log'[i] = log[i]
  BY DEF Record
<1>4. \A i \in (N + 1)..M : log'[i].conn = c /\ log'[i].seq > last[c]
  BY DEF Record
<1>5. \A i, j \in (N + 1)..M : j < i => log'[j].seq < log'[i].seq
  <2> SUFFICES ASSUME NEW i \in (N + 1)..M, NEW j \in (N + 1)..M, j < i
               PROVE  log'[j].seq < log'[i].seq
    OBVIOUS
  <2>1. j \in (N + 1)..(i - 1)
    BY <1>1
  <2> QED
    BY <2>1 DEF Record
<1>6. last' = [last EXCEPT ![c] = log'[M].seq]
  BY DEF Record
<1>7. log'[M].seq \in Nat /\ log'[M].seq > last[c]
  <2>1. M \in 1..M /\ M \in (N + 1)..M
    BY <1>1
  <2> QED
    BY <2>1, <1>2, <1>4 DEF Entry
<1>8. UNCHANGED <<sent, opened, current>> /\ c \in current
  BY DEF Record
<1> HIDE DEF N, M
<1>9. LogTypeOK'
  BY <1>1, <1>6, <1>7, <1>8 DEF LogInv, LogTypeOK
<1>10. Bounded'
  <2> SUFFICES ASSUME NEW i \in 1..M
               PROVE  log'[i].conn \in opened /\ log'[i].seq <= last'[log'[i].conn]
    BY <1>8 DEF Bounded, M
  <2>1. CASE i \in 1..N
    <3>1. log'[i] = log[i] /\ log[i].conn \in opened /\ log[i].seq <= last[log[i].conn]
      BY <2>1, <1>3 DEF LogInv, Bounded, N
    <3>2. log[i].conn \in Conns /\ log[i].seq \in Nat /\ last[c] \in Nat
      BY <2>1, <1>2, <1>a DEF Entry
    <3> QED
      BY <3>1, <3>2, <1>6, <1>7, <1>a
  <2>2. CASE i \in (N + 1)..M
    <3>1. log'[i].conn = c /\ log'[i].seq \in Nat
      BY <2>2, <1>2, <1>4 DEF Entry
    <3>2. i = M \/ log'[i].seq < log'[M].seq
      BY <2>2, <1>1, <1>5
    <3> QED
      BY <3>1, <3>2, <1>6, <1>7, <1>8, <1>a
  <2> QED
    BY <1>1, <2>1, <2>2
<1>11. Over'
  <2> SUFFICES ASSUME NEW i \in 1..M, NEW j \in 1..M, i < j, log'[i].conn # log'[j].conn
               PROVE  log'[i].conn \notin current
    BY <1>8 DEF Over, M
  <2>1. CASE j \in 1..N
    <3>1. i \in 1..N
      BY <2>1, <1>1
    <3> QED
      BY <2>1, <3>1, <1>3, Zenon DEF LogInv, Over, N
  <2>2. CASE i \in 1..N /\ j \in (N + 1)..M
    BY <2>2, <1>3, <1>4, <1>8, <1>a DEF N
  <2>3. CASE i \in (N + 1)..M /\ j \in (N + 1)..M
    BY <2>3, <1>4
  <2> QED
    BY <1>1, <2>1, <2>2, <2>3
<1>12. RecordedInOrder'
  <2> SUFFICES ASSUME NEW i \in 1..M, NEW j \in 1..M, i < j, log'[i].conn = log'[j].conn
               PROVE  log'[i].seq < log'[j].seq
    BY DEF RecordedInOrder, M
  <2>1. CASE j \in 1..N
    <3>1. i \in 1..N
      BY <2>1, <1>1
    <3>2. log[i].conn = log[j].conn => log[i].seq < log[j].seq
      BY <2>1, <3>1, Zenon DEF LogInv, RecordedInOrder, N
    <3> QED
      BY <2>1, <3>1, <3>2, <1>3, Zenon
  <2>2. CASE i \in 1..N /\ j \in (N + 1)..M
    <3>1. log[i].conn = c /\ log[i].seq <= last[c]
      BY <2>2, <1>3, <1>4 DEF LogInv, Bounded, N
    <3>2. log[i].seq \in Nat /\ last[c] \in Nat /\ log'[j].seq \in Nat /\ log'[j].seq > last[c]
      BY <2>2, <1>2, <1>4, <1>a DEF Entry
    <3> QED
      BY <2>2, <3>1, <3>2, <1>3
  <2>3. CASE i \in (N + 1)..M /\ j \in (N + 1)..M
    BY <2>3, <1>5
  <2> QED
    BY <1>1, <2>1, <2>2, <2>3
<1>13. SessionsContiguous'
  <2> SUFFICES ASSUME NEW i \in 1..M, NEW j \in 1..M, NEW k \in 1..M,
                      i < j, j < k, log'[i].conn = log'[k].conn
               PROVE  log'[j].conn = log'[i].conn
    BY DEF SessionsContiguous, M
  <2>1. CASE k \in 1..N
    <3>1. i \in 1..N /\ j \in 1..N
      BY <2>1, <1>1
    <3> QED
      BY <3>1, <2>1, <1>3 DEF LogInv, SessionsContiguous, N
  <2>2. CASE k \in (N + 1)..M
    <3>1. log'[i].conn = c
      BY <2>2, <1>4
    <3>2. CASE j \in (N + 1)..M
      BY <3>1, <3>2, <1>4
    <3>3. CASE j \in 1..N
      <4>1. i \in 1..N /\ log[i].conn = c
        BY <3>3, <3>1, <1>1, <1>3
      <4> QED
        BY <4>1, <3>1, <3>3, <1>3, <1>8 DEF LogInv, Over, N
    <3> QED
      BY <3>2, <3>3, <1>1
  <2> QED
    BY <1>1, <2>1, <2>2
<1> QED
  BY <1>9, <1>10, <1>11, <1>12, <1>13 DEF LogInv

(* Each connection's messages are recorded in the order of their sending   *)
(* and at most once, and those of one connection before or after those of  *)
(* another: what Record's guard checks of a batch holds of the whole log.  *)
THEOREM LogInOrder == Spec => [](RecordedInOrder /\ SessionsContiguous)
<1>1. Init => LogInv
  BY DEF Init, LogInv, LogTypeOK, Bounded, Over, RecordedInOrder, SessionsContiguous
<1>2. LogInv /\ [Next]_logVars => LogInv'
  <2> SUFFICES ASSUME LogInv, [Next]_logVars
               PROVE  LogInv'
    OBVIOUS
  <2>a. LogTypeOK
    BY Zenon DEF LogInv
  <2>1. CASE Close
    <3>1. current' = {} /\ UNCHANGED <<sent, opened, last, log>>
      BY <2>1, Zenon DEF Close
    <3> QED
      BY <2>a, <3>1, OtherSteps DEF LogTypeOK
  <2>2. ASSUME NEW c \in Conns, Send(c)
        PROVE  LogInv'
    <3>1. PICK n \in Nat : sent' = [sent EXCEPT ![c] = n]
      BY <2>2 DEF Send
    <3>2. sent' \in [Conns -> Nat]
      BY <2>a, <3>1 DEF LogTypeOK
    <3>3. UNCHANGED <<opened, current, last, log>>
      BY <2>2, Zenon DEF Send
    <3> QED
      BY <2>a, <3>2, <3>3, OtherSteps DEF LogTypeOK
  <2>3. ASSUME NEW c \in Conns, Open(c)
        PROVE  LogInv'
    <3>1. c \notin opened /\ opened' = opened \cup {c} /\ current' = {c} /\ UNCHANGED <<sent, last, log>>
      BY <2>3, Zenon DEF Open
    <3> QED
      BY <2>a, <3>1, OtherSteps DEF LogTypeOK
  <2>4. ASSUME NEW c \in Conns, Record(c)
        PROVE  LogInv'
    BY <2>4, RecordPreserves
  <2>5. CASE UNCHANGED logVars
    <3>1. UNCHANGED <<sent, opened, current, last, log>>
      BY <2>5, Zenon DEF logVars
    <3> QED
      BY <2>a, <3>1, OtherSteps DEF LogTypeOK
  <2> QED
    BY <2>1, <2>2, <2>3, <2>4, <2>5 DEF Next
<1>3. LogInv => RecordedInOrder /\ SessionsContiguous
  BY DEF LogInv
<1> QED
  BY <1>1, <1>2, <1>3, PTL DEF Spec
=============================================================================
