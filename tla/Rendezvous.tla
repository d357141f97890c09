----------------------------- MODULE Rendezvous -----------------------------
(***************************************************************************)
(* What announcing promises, seen from above: a node knows that another    *)
(* one shares a torrent only from that one itself.  Nothing is relayed,    *)
(* ("no relay, so no gossip", ext_announce.cpp), and all a restart does is *)
(* forget.  Module Swarm implements it.                                    *)
(***************************************************************************)
CONSTANTS Nodes, Torrents

VARIABLES
    shared, \* shared[n]: torrents the torrent client of n ever announced to n
    known   \* known[n]: pairs <<f, t>>, n knows that f shares t

vars == <<shared, known>>

Init ==
    /\ shared = [n \in Nodes |-> {}]
    /\ known = [n \in Nodes |-> {}]

\* The torrent client of n announces t.
Share(n, t) ==
    /\ shared' = [shared EXCEPT ![n] = @ \cup {t}]
    /\ UNCHANGED known

\* n is told by f of some torrents f shares.
Learn(n, f, ts) ==
    /\ ts \subseteq shared[f]
    /\ known' = [known EXCEPT ![n] = @ \cup ({f} \X ts)]
    /\ UNCHANGED shared

Forget(n) ==
    /\ known' = [known EXCEPT ![n] = {}]
    /\ UNCHANGED shared

Next ==
    \E n \in Nodes :
        \/ \E t \in Torrents : Share(n, t)
        \/ \E f \in Nodes \ {n}, ts \in SUBSET Torrents : Learn(n, f, ts)
        \/ Forget(n)

Spec == Init /\ [][Next]_vars
=============================================================================
