---------------------------- MODULE HttpTracker ----------------------------
(***************************************************************************)
(* What the http side of the tracker (http_fn and http_handle_announce,    *)
(* tracker.cpp) answers to one torrent client, and what the torrent client *)
(* makes of it while tunnels come and go: it uses the ports it was told of *)
(* until the next answer.                                                  *)
(*                                                                         *)
(* The ports are those of PortDirectory, which module Tunnel implements.   *)
(* A handler runs under torrent_db_mutex and is one step; all requests are *)
(* handled by the one tracker thread, those of a connection in order.      *)
(*                                                                         *)
(* A query stands for the values of its pieces "info_hash=value", in their *)
(* order: a torrent is one of 20 or 32 bytes, Bonkers one of another size, *)
(* and Garbled one with a % that is not followed by two hex digits.  All   *)
(* other pieces, those with no or several "=" included, are skipped or     *)
(* never looked at.                                                        *)
(***************************************************************************)
EXTENDS Naturals, Sequences, SequencesExt

CONSTANTS
    Friends,    \* friend numbers
    Ports,      \* local UDP ports
    NoPort,     \* no port is advertised for a friend
    Nobody,     \* no tunnel has the port
    Torrents,   \* info hashes
    Bonkers, Garbled, NoQuery,
    Queries,    \* the queries of announces
    Reuse,      \* the client sends the next request over the same connection
    MaxHashless \* bound: entries without info hash

\* The requests: an announce with some query, /list, and any other path.
Requests == [uri : {"announce"}, query : Queries]
                \cup [uri : {"list", "other"}, query : {NoQuery}]
None == [uri |-> "none", query |-> NoQuery]

ASSUME HttpTrackerAssumption ==
    /\ Queries \subseteq Seq(Torrents \cup {Bonkers, Garbled}) \cup {NoQuery}
    /\ NoQuery \notin Seq(Torrents \cup {Bonkers, Garbled})
    /\ Bonkers \notin Torrents /\ Garbled \notin Torrents \cup {Bonkers}
    /\ NoPort \notin Ports /\ Nobody \notin Friends
    /\ Reuse \in BOOLEAN
    /\ MaxHashless \in Nat

VARIABLES
    holder,     \* the friend each port is held for
    published,  \* torrent_db.peers
    holders,    \* holders[t]: the friends of torrents[t]
    self,       \* torrents with self set
    hashless,   \* entries of torrents without info hash
    up,         \* the tracker thread runs
    requests,   \* on the connection, to the tracker
    replies,    \* on the connection, to the client
    awaiting,   \* the request the client waits with, or None
    known,      \* known[t]: the peers the client was told of last
    possible    \* every answer to awaiting that was right since it was sent

directory == <<holder, published>>
torrents == <<holders, self, hashless>>
connection == <<requests, replies>>
vars == <<directory, torrents, up, connection, awaiting, known, possible>>

PD == INSTANCE PortDirectory

Init ==
    /\ PD!Init
    /\ holders = [t \in Torrents |-> {}]
    /\ self = {}
    /\ hashless = 0
    /\ up = TRUE
    /\ requests = << >> /\ replies = << >>
    /\ awaiting = None
    /\ known = [t \in Torrents |-> {}]
    /\ possible = {}

-----------------------------------------------------------------------------
(* The tox client thread *)

\* ToxExtTunnelUDP2::tick
Tunnels ==
    /\ PD!Next
    /\ UNCHANGED <<torrents, up, connection, awaiting, known>>

\* announce_recv_callback
FriendAnnounces(f, t) ==
    /\ holders' = [holders EXCEPT ![t] = @ \cup {f}]
    /\ UNCHANGED <<directory, self, hashless, up, connection, awaiting, known>>

-----------------------------------------------------------------------------
(* http_handle_announce *)

\* url_decode has a result for every info_hash of the request.
Decodable(r) ==
    r.uri = "announce" /\ r.query # NoQuery =>
        \A i \in DOMAIN r.query : r.query[i] # Garbled

\* query_map["info_hash"]: of several the last one counts, and none is "".
InfoHash(query) == IF query = << >> THEN Bonkers ELSE Last(query)

\* mutant: a friend counts whose port is not known
PeersWithoutTunnel(t) == {<<f, published[f]>> : f \in holders[t]}

\* mutant: the loop ends at the first friend without
PeersUntilMissing(t) ==
    IF \E f \in holders[t] : published[f] = NoPort THEN {}
    ELSE {<<f, published[f]>> : f \in holders[t]}

Peers(t) == {<<f, published[f]>> : f \in {g \in holders[t] : published[g] # NoPort}}

Error == [kind |-> "error", peers |-> {}]

\* The errors that come before the answer do not end the handler.
Errors(query) ==
    (IF query = << >> THEN <<Error>> ELSE << >>)
        \o (IF InfoHash(query) = Bonkers THEN <<Error>> ELSE << >>)

\* A new entry, of a torrent that has no friends yet, has no peers.
Answer(query) ==
    [kind |-> "peers",
     peers |-> IF InfoHash(query) = Bonkers THEN {} ELSE Peers(InfoHash(query))]

AnnounceReplies(query) ==
    IF query = NoQuery THEN <<Error>> ELSE Append(Errors(query), Answer(query))

\* mutant: "huh?" is written first
RepliesHuhFirst(r) ==
    CASE r.uri = "announce" -> <<Error>> \o AnnounceReplies(r.query)
      [] r.uri = "list" -> <<[kind |-> "list", peers |-> {}]>>
      [] OTHER -> <<Error>>

\* All that http_fn writes in answer to a request: after the replies to an
\* announce comes a 404, "huh?".
Replies(r) ==
    CASE r.uri = "announce" -> Append(AnnounceReplies(r.query), Error)
      [] r.uri = "list" -> <<[kind |-> "list", peers |-> {}]>>
      [] OTHER -> <<Error>>

\* An announce of t the handler finds nothing wrong with
Announces(r, t) ==
    /\ r.uri = "announce" /\ r.query # NoQuery /\ Decodable(r)
    /\ InfoHash(r.query) = t

AddsEntries(r) ==
    r.uri = "announce" /\ r.query # NoQuery /\ InfoHash(r.query) = Bonkers

\* An entry without info hash equals none, not even itself: the handler looks
\* it up twice, and makes two.
Store(r) ==
    IF r.uri # "announce" \/ r.query = NoQuery
    THEN UNCHANGED <<self, hashless>>
    ELSE IF AddsEntries(r)
    THEN hashless' = hashless + 2 /\ UNCHANGED self
    ELSE self' = self \cup {InfoHash(r.query)} /\ UNCHANGED hashless

\* mutant: the client gets again what it was told before
HandleFromCache ==
    /\ requests # << >> /\ Decodable(Head(requests))
    /\ requests' = Tail(requests)
    /\ replies' = replies \o
        [i \in DOMAIN Replies(Head(requests)) |->
            LET reply == Replies(Head(requests))[i]
                told == {t \in Torrents : Announces(Head(requests), t) /\ known[t] # {}}
            IN  IF told # {} /\ reply.kind = "peers"
                THEN [reply EXCEPT !.peers = UNION {known[t] : t \in told}]
                ELSE reply]
    /\ Store(Head(requests))
    /\ UNCHANGED <<directory, holders, up, awaiting, known>>

Handle ==
    /\ requests # << >> /\ Decodable(Head(requests))
    /\ requests' = Tail(requests)
    /\ replies' = replies \o Replies(Head(requests))
    /\ Store(Head(requests))
    /\ UNCHANGED <<directory, holders, up, awaiting, known>>

\* Where mg_url_decode fails, with -1, url_decode makes that the size of its
\* buffer.  Nobody catches what resize throws: the process ends, without any
\* reply, and is started again, the tox client before the tracker.
ProcessEnds ==
    /\ requests # << >> /\ ~Decodable(Head(requests))
    /\ holder' = [p \in Ports |-> Nobody]
    /\ published' = [f \in Friends |-> NoPort]
    /\ holders' = [t \in Torrents |-> {}]
    /\ self' = {} /\ hashless' = 0
    /\ up' = FALSE
    /\ requests' = << >> /\ replies' = << >>
    /\ awaiting' = None
    /\ UNCHANGED known

\* http_tracker_thread_fn ends, and with mg_mgr_free all connections, and is
\* started again.
ThreadEnds ==
    /\ up
    /\ up' = FALSE
    /\ requests' = << >> /\ replies' = << >>
    /\ awaiting' = None
    /\ UNCHANGED <<directory, torrents, known>>

ThreadStarts ==
    /\ ~up
    /\ up' = TRUE
    /\ UNCHANGED <<directory, torrents, connection, awaiting, known>>

-----------------------------------------------------------------------------
(* The torrent client, or a browser *)

Ask(r) ==
    /\ up /\ awaiting = None
    /\ AddsEntries(r) => hashless + 2 * (1 + Len(requests)) <= MaxHashless
    /\ awaiting' = r
    /\ requests' = Append(requests, r)
    /\ UNCHANGED <<directory, torrents, up, replies, known>>

\* The first reply is taken for the answer; without Reuse the connection is
\* closed then.
Take ==
    /\ awaiting # None
    /\ replies # << >>
    /\ awaiting' = None
    /\ known' = IF awaiting.uri = "announce" /\ Head(replies).kind = "peers"
                THEN [known EXCEPT ![InfoHash(awaiting.query)] = Head(replies).peers]
                ELSE known
    /\ replies' = IF Reuse THEN Tail(replies) ELSE << >>
    /\ requests' = IF Reuse THEN requests ELSE << >>
    /\ UNCHANGED <<directory, torrents, up>>

-----------------------------------------------------------------------------
RightNow(r) == {Peers(t) : t \in {u \in Torrents : Announces(r, u)}}

Watch ==
    possible' = IF awaiting' = None THEN {} ELSE possible \cup RightNow(awaiting')

Next ==
    /\ \/ Tunnels
       \/ \E f \in Friends, t \in Torrents : FriendAnnounces(f, t)
       \/ Handle \/ ProcessEnds
       \/ ThreadEnds \/ ThreadStarts
       \/ \E r \in Requests : Ask(r)
       \/ Take
    /\ Watch

\* The tracker thread handles what comes, and the torrent client reads what it
\* is sent and announces again and again, as the interval of 60 seconds in the
\* answers tells it to.
Fairness ==
    /\ WF_vars((Handle \/ ProcessEnds) /\ Watch)
    /\ WF_vars(Take /\ Watch)
    /\ \A t \in Torrents :
        SF_vars(\E r \in Requests : Announces(r, t) /\ Ask(r) /\ Watch)

Spec == Init /\ [][Next]_vars /\ Fairness

-----------------------------------------------------------------------------
(* Properties. *)

PeerLists == SUBSET (Friends \X Ports)
ReplyKinds == [kind : {"peers", "list", "error"}, peers : PeerLists]

TypeOK ==
    /\ holder \in [Ports -> Friends \cup {Nobody}]
    /\ published \in [Friends -> Ports \cup {NoPort}]
    /\ holders \in [Torrents -> SUBSET Friends]
    /\ self \subseteq Torrents
    /\ hashless \in Nat
    /\ up \in BOOLEAN
    /\ requests \in Seq(Requests)
    /\ replies \in Seq(ReplyKinds)
    /\ awaiting \in Requests \cup {None}
    /\ known \in [Torrents -> PeerLists]
    /\ possible \subseteq PeerLists

\* What a request is answered with first is an answer to that request, and
\* tells a proper announce from one that is not: this is what a client goes by
\* that reads one reply and closes the connection.
Fits(r, reply) ==
    reply.kind = CASE r.uri = "list" -> "list"
                   [] \E t \in Torrents : Announces(r, t) -> "peers"
                   [] OTHER -> "error"

FirstReplyFits == awaiting # None /\ replies # << >> => Fits(awaiting, Head(replies))

\* The peers a torrent client is told of were all there, and were all there
\* was, at some time after it asked: no answer is older than its request,
\* whatever tunnels, friends and restarts did meanwhile.
AnswersAreFresh ==
    \A t \in Torrents :
        Announces(awaiting, t) /\ replies # << >> => Head(replies).peers \in possible

\* A client that keeps announcing ends up with the port of each friend that
\* has its torrent and keeps its tunnel, and with no other port for it, not
\* even one that was right when it was answered.
AnswersSettle ==
    \A f \in Friends, t \in Torrents : \A p \in Ports \cup {NoPort} :
        <>[](up /\ f \in holders[t] /\ published[f] = p)
            => <>[](\A q \in Ports : <<f, q>> \in known[t] <=> q = p)

=============================================================================
