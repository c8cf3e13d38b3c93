-------------------------- MODULE MCSnapshotControl --------------------------
(***************************************************************************)
(* SnapshotControl on a Workspace with four operations behind it (h1 to   *)
(* h4: create, stop, snapshot, stop) and up to three new ones.             *)
(***************************************************************************)
EXTENDS SnapshotControl

CONSTANTS h1, h2, h3, h4, o1, o2, o3, s1, s2, blank, dirty, absent, base, noop

MCPast == <<h1, h2, h3, h4>>

OpSymmetry == Permutations({o1, o2, o3})
=============================================================================
