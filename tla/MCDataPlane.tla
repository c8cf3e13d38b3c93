---------------------------- MODULE MCDataPlane ----------------------------
(* Instances of DataPlane for TLC: one operation of each kind and          *)
(* transport, two requests for it, and the faults a behaviour may hold.    *)
EXTENDS DataPlane, TLC

CONSTANTS s1, r1, r2

Budget(faults) == [b \in Bounds |-> IF b \in DOMAIN faults THEN faults[b] ELSE 0]
Scenario(kind, direct, idle, faults) ==
  [kind |-> s1 :> kind, direct |-> direct, of |-> [r \in Requests |-> s1], idle |-> idle, later |-> {r2}, budget |-> Budget(faults)]
Shapes == {<<"exec", {}>>, <<"stream", {}>>, <<"file", {}>>, <<"stream", {s1}>>, <<"file", {s1}>>}

Alone(c, faults) == Scenario(c[1], c[2], {r2}, faults)
Twice(kind, faults) == Scenario(kind, {}, {}, faults)

MCScenarios ==
  {Alone(c, f) : c \in Shapes, f \in {[break |-> 1], [stop |-> 1], [lease |-> 1, gone |-> 1]}}
  \union {Alone(<<"stream", d>>, [cancel |-> 1, input |-> 1]) : d \in {{}, {s1}}}
  \union {Twice(k, f) : k \in {"exec", "file"}, f \in {[gone |-> 1], [crash |-> 1]}}
  \union {Twice("exec", [break |-> 1])}
  \union {Twice("stream", f) : f \in {[gone |-> 1], [crash |-> 1, input |-> 1]}}

(* A second attachment to a streaming command after the control plane was  *)
(* restarted.                                                              *)
ReattachScenarios == {Twice("stream", [crash |-> 1, input |-> 1])}
=============================================================================
