----------------------------- MODULE MCAnnounce -----------------------------
(* Small instances of Announce for TLC, of one friend: torrents are added    *)
(* between its visits, but never between those to two friends.  The theorems *)
(* of Announce_proofs have any number of friends.                            *)
EXTENDS Announce
=============================================================================
