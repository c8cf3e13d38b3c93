--------------------------- MODULE MCRunnerSession ---------------------------
(***************************************************************************)
(* RunnerSession for a Runner that dials a few connections.                *)
(***************************************************************************)
EXTENDS RunnerSession

Scenario(ks, terminals, replays, expiries, faults) ==
  [kinds |-> ks,
   budget |-> [terminal |-> terminals, replay |-> replays, expiry |-> expiries, fault |-> faults]]

MCScenarios ==
  { Scenario(<<"assignment">>, 0, 0, 0, 1),
    Scenario(<<>>, 2, 1, 0, 0),
    Scenario(<<"create", "assignment">>, 0, 0, 1, 0),
    Scenario(<<"assignment", "fence">>, 0, 0, 0, 0) }
=============================================================================
