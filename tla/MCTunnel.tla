------------------------------ MODULE MCTunnel ------------------------------
(* Tunnel with numbers for its bounds; nothing is replaced. *)
EXTENDS Tunnel
=============================================================================
