---------------------------- MODULE MCRelocation ----------------------------
(***************************************************************************)
(* Relocation between two Runners.                                         *)
(***************************************************************************)
EXTENDS Relocation

Scenario(relocations, breaks, crashes, torn, failures, lates) ==
  [relocate |-> relocations, break |-> breaks, crash |-> crashes, torn |-> torn,
   fail |-> failures, late |-> lates]

MCSafety ==
  { Scenario(1, 1, 0, 0, 0, 1), Scenario(1, 1, 0, 0, 1, 0), Scenario(1, 1, 0, 1, 0, 0),
    Scenario(2, 0, 0, 0, 1, 0), Scenario(1, 0, 0, 0, 2, 0) }
MCReturn == { Scenario(2, 2, 0, 0, 0, 0) }
MCLiveness ==
  { Scenario(1, 1, 0, 0, 0, 0), Scenario(1, 0, 1, 0, 1, 0), Scenario(1, 0, 0, 1, 1, 0),
    Scenario(1, 0, 0, 0, 2, 0) }
=============================================================================
