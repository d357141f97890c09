-------------------------- MODULE MCFriendNumbers --------------------------
(* A small instance of FriendNumbers for TLC. *)
EXTENDS FriendNumbers, TLC

Symmetry == Permutations(Keys)
=============================================================================
