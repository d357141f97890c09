------------------------------ MODULE MCSwarm ------------------------------
(* A small instance of Swarm for TLC. *)
EXTENDS Swarm

CONSTANTS a, b

\* Two processes that are friends of each other.
Pair == {{a, b}}
=============================================================================
