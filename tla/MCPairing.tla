----------------------------- MODULE MCPairing -----------------------------
(* Small instances of TrustServer: who may race whom over codes and tokens. *)
EXTENDS TrustServer, TLC

Symmetry == Permutations(Threads) \cup Permutations(Browsers)
=============================================================================
