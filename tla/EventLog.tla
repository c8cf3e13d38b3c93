------------------------------ MODULE EventLog ------------------------------
(***************************************************************************)
(* What the Runner protocol promises about the messages a Runner sends:    *)
(* PostgreSQL holds a log of them made of sessions.  A session is one      *)
(* connection; opening one ends the one before it for ever, and while it   *)
(* is current the messages sent on it are recorded in the order in which   *)
(* they were sent, each at most once.  A message may be skipped (it was    *)
(* lost with the connection), never recorded late or twice.                *)
(***************************************************************************)
EXTENDS Naturals, Sequences

CONSTANT Conns      \* connections

VARIABLES
  sent,      \* sent[c]: the number of the last message sent on c
  opened,    \* connections that were ever current
  current,   \* the current connection, as a set of at most one
  last,      \* last[c]: the number of the last message of c recorded
  log        \* the messages recorded, oldest first

logVars == <<sent, opened, current, last, log>>

Entry == [conn : Conns, seq : Nat]

Init ==
  /\ sent = [c \in Conns |-> 0]
  /\ opened = {}
  /\ current = {}
  /\ last = [c \in Conns |-> 0]
  /\ log = <<>>

Send(c) ==
  /\ sent'[c] \in Nat /\ sent'[c] > sent[c]
  /\ sent' = [sent EXCEPT ![c] = sent'[c]]
  /\ UNCHANGED <<opened, current, last, log>>

Open(c) ==
  /\ c \notin opened
  /\ opened' = opened \cup {c}
  /\ current' = {c}
  /\ UNCHANGED <<sent, last, log>>

Close ==
  /\ current' = {}
  /\ UNCHANGED <<sent, opened, last, log>>

(* A batch of messages of the current session, after all recorded of it.   *)
Record(c) ==
  /\ c \in current
  /\ log' \in Seq(Entry) /\ Len(log') > Len(log)
  /\ \A i \in 1..Len(log) : log'[i] = log[i]
  /\ \A i \in (Len(log) + 1)..Len(log') :
       /\ log'[i].conn = c /\ log'[i].seq > last[c]
       /\ \A j \in (Len(log) + 1)..(i - 1) : log'[j].seq < log'[i].seq
  /\ last' = [last EXCEPT ![c] = log'[Len(log')].seq]
  /\ last'[c] <= sent[c]
  /\ UNCHANGED <<sent, opened, current>>

Next == Close \/ \E c \in Conns : Send(c) \/ Open(c) \/ Record(c)

Spec == Init /\ [][Next]_logVars

(* Each message is recorded at most once, and in the order it was sent.    *)
RecordedInOrder ==
  \A i, j \in 1..Len(log) :
    i < j /\ log[i].conn = log[j].conn => log[i].seq < log[j].seq

(* A session that another one followed records nothing more.               *)
SessionsContiguous ==
  \A i, j, k \in 1..Len(log) :
    i < j /\ j < k /\ log[i].conn = log[k].conn => log[j].conn = log[i].conn

=============================================================================
