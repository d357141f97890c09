---------------------------- MODULE MCTransport ----------------------------
(* Small instances of Transport for TLC. *)
EXTENDS Transport, TLC

CONSTANTS small, two, three, oversized

\* With SingleMax = 2, FragMax = 2 and ReadMax = 6: one datagram for a lossy
\* packet, one of two and one of three fragments, one that is too large.
Sizes == [d \in Datagrams |-> CASE d = small -> 1
                                [] d = two -> 3
                                [] d = three -> 5
                                [] d = oversized -> 6]
=============================================================================
