---------------------------- MODULE MCToxClient ----------------------------
(* Small instances of ToxClient for TLC. *)
EXTENDS ToxClient
=============================================================================
