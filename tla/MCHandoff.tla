----------------------------- MODULE MCHandoff -----------------------------
(* The handoff for TLC, on a few pids and two ports. *)
EXTENDS Handoff, TLC

Symmetry == Permutations(Pids)
=============================================================================
