------------------------- MODULE MCAnnouncePackage -------------------------
(* A small instance of AnnouncePackage for TLC. *)
EXTENDS AnnouncePackage

\* v1 hashes of one byte and v2 hashes of two
Sizes == [type \in Types |-> type + 1]
=============================================================================
