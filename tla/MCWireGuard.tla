----------------------------- MODULE MCWireGuard -----------------------------
(* WireGuard on a small instance: a subnet with the server's address and a   *)
(* few others.                                                               *)
EXTENDS WireGuard, TLC

(* Neither keys nor tasks are told apart. *)
MCSymmetry == Permutations(Keys) \cup Permutations(Tasks)
=============================================================================
