---------------------------- MODULE MCWorkspaces ----------------------------
(***************************************************************************)
(* Workspaces on a small instance: two windows, and workspaces that may be *)
(* created, removed and renumbered until the ids run out.                  *)
(***************************************************************************)
EXTENDS Workspaces, TLC

Symmetry == Permutations(Windows)
=============================================================================
