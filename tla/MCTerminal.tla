----------------------------- MODULE MCTerminal -----------------------------
(* The terminal for TLC: two browsers and the tickets they use one after the   *)
(* other.                                                                      *)
EXTENDS Terminal
=============================================================================
