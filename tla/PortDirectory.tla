--------------------------- MODULE PortDirectory ---------------------------
(***************************************************************************)
(* What the tunnel extension promises to the tracker and to the operating  *)
(* system, without its loops, its locks or its bookkeeping.                *)
(*                                                                         *)
(* A friend holds at most one local UDP port.  The directory the tracker   *)
(* answers torrent clients from names, for a friend, the port that friend  *)
(* holds or nothing.  A port is published only after it is held and is     *)
(* given back only after it is retracted, so a torrent client is never     *)
(* told of a port nobody, or somebody else, is listening on.               *)
(***************************************************************************)
CONSTANTS
    Friends,    \* the tox friend numbers
    Ports,      \* the local UDP ports
    NoPort,     \* nothing is published for a friend
    Nobody      \* no friend holds the port

VARIABLES
    holder,     \* holder[p]: the friend port p is held for, or Nobody
    published   \* published[f]: the port the tracker hands out for f, or NoPort

vars == <<holder, published>>

Init ==
    /\ holder = [p \in Ports |-> Nobody]
    /\ published = [f \in Friends |-> NoPort]

\* A port nobody holds is taken for a friend that holds none.
Bind(f, p) ==
    /\ holder[p] = Nobody
    /\ \A q \in Ports : holder[q] # f
    /\ holder' = [holder EXCEPT ![p] = f]
    /\ UNCHANGED published

\* The tracker may hand out p for f from now on.
Publish(f, p) ==
    /\ holder[p] = f
    /\ published' = [published EXCEPT ![f] = p]
    /\ UNCHANGED holder

\* The tracker must not hand out f's port any more.
Retract(f) ==
    /\ published' = [published EXCEPT ![f] = NoPort]
    /\ UNCHANGED holder

\* A port that is not handed out any more is given back.
Release(f, p) ==
    /\ holder[p] = f
    /\ published[f] = NoPort
    /\ holder' = [holder EXCEPT ![p] = Nobody]
    /\ UNCHANGED published

Next ==
    \E f \in Friends :
        \/ Retract(f)
        \/ \E p \in Ports : Bind(f, p) \/ Publish(f, p) \/ Release(f, p)

Spec == Init /\ [][Next]_vars

=============================================================================
