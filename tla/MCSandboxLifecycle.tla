------------------------- MODULE MCSandboxLifecycle -------------------------
(* The lifecycle of one Sandbox for TLC.  Workers are interchangeable: no *)
(* definition chooses between them.                                       *)
EXTENDS SandboxLifecycle, TLC

WorkerSymmetry == Permutations(Workers)

Busy == { w \in Workers : work[w].pc # "idle" }

(* Three intents with one fault or two intents with two, and two workers   *)
(* at once on the short histories.                                         *)
ShortHistories ==
  /\ sb.issued + faults <= 4
  /\ Cardinality(Busy) <= 1 \/ (sb.issued <= 2 /\ (sb.gen = 1 \/ (sb.gen = 2 /\ ~sb.inst)))
====
