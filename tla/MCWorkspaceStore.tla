------------------------- MODULE MCWorkspaceStore ---------------------------
(* Instances of WorkspaceStore for TLC.  Operation identities are           *)
(* interchangeable, so their permutations are a symmetry.                   *)
EXTENDS WorkspaceStore, TLC

CONSTANTS o1, o2, o3, o4, s1, blank, dirty, absent, base, noop

Asked == { request[o].kind : o \in Ops } \ {"none"}
Idle == { o \in Ops : request[o].kind = "none" }

Once == \A o, p \in Ops \ Idle : request[o].kind = request[p].kind => o = p

(* A Workspace that stays on this Runner: three operations, four of         *)
(* different kinds, or two restores at its first change of generation.  Or  *)
(* one that moves: three operations of different kinds.                     *)
OneFamily ==
  \/ /\ Asked \cap {"clone", "relocate_out", "relocate_in"} = {}
     /\ Idle # {} \/ Once \/ manifest.generation <= 2
  \/ Asked \subseteq {"clone", "stop", "delete", "relocate_out", "relocate_in"} /\ Idle # {} /\ Once

OpSymmetry == Permutations(Ops)
=============================================================================
