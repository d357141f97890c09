------------------------------ MODULE MCTunnel ------------------------------
(* A small instance of Tunnel for TLC: three friends and two ports, so that  *)
(* there are not ports enough even if no other program takes any.            *)
EXTENDS Tunnel
=============================================================================
