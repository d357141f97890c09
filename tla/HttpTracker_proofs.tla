------------------------- MODULE HttpTracker_proofs -------------------------
(***************************************************************************)
(* What the tracker promises a client that opens a connection for each     *)
(* request, for any friends, ports, torrents and queries.                  *)
(***************************************************************************)
EXTENDS HttpTracker, TLAPS

USE DEF None

\* A query that decodes is NoQuery, has a proper info_hash, or has none.
LEMMA QueryHash ==
    ASSUME NEW query \in Queries, query # NoQuery,
           \A i \in DOMAIN query : query[i] # Garbled
    PROVE  InfoHash(query) \in Torrents \cup {Bonkers}
<1>1. query \in Seq(Torrents \cup {Bonkers, Garbled})
  BY HttpTrackerAssumption
<1>2. CASE query = << >>
  BY <1>2 DEF InfoHash
<1>3. CASE query # << >>
  <2>1. Len(query) \in DOMAIN query /\ query[Len(query)] \in Torrents \cup {Bonkers, Garbled}
    BY <1>1, <1>3
  <2>2. query[Len(query)] # Garbled
    BY <2>1
  <2> QED
    BY <1>3, <2>1, <2>2 DEF InfoHash, Last
<1> QED
  BY <1>2, <1>3

\* A port the tracker tells of is one of a tunnel.
LEMMA PeersAreTunnels ==
    ASSUME TypeOK, NEW t \in Torrents
    PROVE  Peers(t) \in PeerLists
BY DEF TypeOK, Peers, PeerLists

LEMMA AnswerType ==
    ASSUME TypeOK, NEW query \in Queries, query # NoQuery,
           \A i \in DOMAIN query : query[i] # Garbled
    PROVE  Answer(query) \in ReplyKinds
BY QueryHash, PeersAreTunnels DEF Answer, ReplyKinds, PeerLists

LEMMA RepliesType ==
    ASSUME TypeOK, NEW r \in Requests, Decodable(r)
    PROVE  Replies(r) \in Seq(ReplyKinds)
<1>1. Error \in ReplyKinds
  BY DEF Error, ReplyKinds, PeerLists
<1>2. [kind |-> "list", peers |-> {}] \in ReplyKinds
  BY DEF ReplyKinds, PeerLists
<1>3. CASE r.uri # "announce"
  BY <1>1, <1>2, <1>3 DEF Replies
<1>4. CASE r.uri = "announce"
  <2>1. r.query \in Queries
    BY <1>4 DEF Requests
  <2>2. CASE r.query = NoQuery
    BY <1>1, <1>4, <2>2 DEF Replies, AnnounceReplies
  <2>3. CASE r.query # NoQuery
    <3>1. Errors(r.query) \in Seq(ReplyKinds)
      BY <1>1 DEF Errors
    <3>2. Answer(r.query) \in ReplyKinds
      BY <1>4, <2>1, <2>3, AnswerType DEF Decodable
    <3> QED
      BY <1>1, <1>4, <2>3, <3>1, <3>2 DEF Replies, AnnounceReplies
  <2> QED
    BY <2>2, <2>3
<1> QED
  BY <1>3, <1>4

\* The first reply is an answer, and tells what is true when it is given.
LEMMA FirstReply ==
    ASSUME TypeOK, NEW r \in Requests, Decodable(r)
    PROVE  /\ Replies(r) # << >>
           /\ Fits(r, Head(Replies(r)))
           /\ \A t \in Torrents : Announces(r, t) => Head(Replies(r)).peers = Peers(t)
<1>1. CASE r.uri # "announce"
  BY <1>1 DEF Requests, Replies, Fits, Announces, Error
<1>2. CASE r.uri = "announce" /\ r.query = NoQuery
  BY <1>2 DEF Replies, AnnounceReplies, Fits, Announces, Error
<1>3. CASE r.uri = "announce" /\ r.query # NoQuery
  <2>1. r.query \in Queries
    BY <1>3 DEF Requests
  <2>2. CASE r.query = << >>
    <3>1. Head(Replies(r)) = Error /\ Replies(r) # << >>
      BY <1>3, <2>2 DEF Replies, AnnounceReplies, Errors
    <3>2. \A t \in Torrents : ~Announces(r, t)
      BY <2>2, HttpTrackerAssumption DEF Announces, InfoHash
    <3> QED
      BY <1>3, <3>1, <3>2 DEF Fits, Error
  <2>3. CASE r.query # << >> /\ InfoHash(r.query) = Bonkers
    <3>1. Head(Replies(r)) = Error /\ Replies(r) # << >>
      BY <1>3, <2>3 DEF Replies, AnnounceReplies, Errors
    <3>2. \A t \in Torrents : ~Announces(r, t)
      BY <2>3, HttpTrackerAssumption DEF Announces
    <3> QED
      BY <1>3, <3>1, <3>2 DEF Fits, Error
  <2>4. CASE r.query # << >> /\ InfoHash(r.query) # Bonkers
    <3>1. Head(Replies(r)) = Answer(r.query) /\ Replies(r) # << >>
      BY <1>3, <2>4 DEF Replies, AnnounceReplies, Errors
    <3>2. InfoHash(r.query) \in Torrents
      BY <1>3, <2>1, <2>4, QueryHash DEF Decodable
    <3>3. \A t \in Torrents : Announces(r, t) => t = InfoHash(r.query)
      BY DEF Announces
    <3>4. Announces(r, InfoHash(r.query))
      BY <1>3 DEF Announces
    <3>5. Answer(r.query).kind = "peers"
      BY DEF Answer
    <3>6. Answer(r.query).peers = Peers(InfoHash(r.query))
      BY <2>4 DEF Answer
    <3> QED
      BY <1>3, <3>1, <3>2, <3>3, <3>4, <3>5, <3>6 DEF Fits
  <2> QED
    BY <2>2, <2>3, <2>4
<1> QED
  BY <1>1, <1>2, <1>3

-----------------------------------------------------------------------------
LEMMA TypeInit == Init => TypeOK
BY HttpTrackerAssumption
   DEF Init, PD!Init, TypeOK, Requests, PeerLists

LEMMA RightNowType ==
    ASSUME TypeOK, NEW r
    PROVE  RightNow(r) \subseteq PeerLists
BY PeersAreTunnels DEF RightNow

LEMMA TypeStep == TypeOK /\ [Next]_vars => TypeOK'
<1> SUFFICES ASSUME TypeOK, [Next]_vars PROVE TypeOK'
  OBVIOUS
<1> USE DEF TypeOK
<1>1. CASE UNCHANGED vars
  BY <1>1 DEF vars, directory, torrents, connection
<1>2. CASE Next
  <2>1. possible' \subseteq PeerLists
    BY <1>2, RightNowType DEF Next, Watch
  <2>2. CASE Tunnels
    <3>1. holder' \in [Ports -> Friends \cup {Nobody}]
      BY <2>2 DEF Tunnels, PD!Next, PD!Bind, PD!Publish, PD!Retract, PD!Release
    <3>2. published' \in [Friends -> Ports \cup {NoPort}]
      BY <2>2 DEF Tunnels, PD!Next, PD!Bind, PD!Publish, PD!Retract, PD!Release
    <3> QED
      BY <2>1, <2>2, <3>1, <3>2 DEF Tunnels, torrents, connection
  <2>3. CASE \E f \in Friends, t \in Torrents : FriendAnnounces(f, t)
    BY <2>1, <2>3 DEF FriendAnnounces, directory, connection
  <2>4. CASE Handle
    <3>1. /\ Head(requests) \in Requests /\ requests' \in Seq(Requests)
          /\ Decodable(Head(requests))
      BY <2>4 DEF Handle
    <3>2. replies' \in Seq(ReplyKinds)
      BY <2>4, <3>1, RepliesType DEF Handle
    <3>3. self' \subseteq Torrents /\ hashless' \in Nat
      <4>1. Store(Head(requests))
        BY <2>4 DEF Handle
      <4>2. Head(requests).uri = "announce" => Head(requests).query \in Queries
        BY <3>1 DEF Requests
      <4> QED
        BY <3>1, <4>1, <4>2, QueryHash DEF Store, AddsEntries, Decodable
    <3> QED
      BY <2>1, <2>4, <3>1, <3>2, <3>3 DEF Handle, directory
  <2>5. CASE ThreadEnds \/ ThreadStarts
    <3>1. CASE ThreadEnds
      <4>1. /\ requests' \in Seq(Requests) /\ replies' \in Seq(ReplyKinds)
            /\ awaiting' \in Requests \cup {None}
        BY <3>1 DEF ThreadEnds
      <4>2. up' \in BOOLEAN
        BY <3>1 DEF ThreadEnds
      <4>3. UNCHANGED <<holder, published, holders, self, hashless, known>>
        BY <3>1 DEF ThreadEnds, directory, torrents
      <4> QED
        BY <2>1, <4>1, <4>2, <4>3
    <3>2. CASE ThreadStarts
      BY <2>1, <3>2 DEF ThreadStarts, directory, torrents, connection
    <3> QED
      BY <2>5, <3>1, <3>2
  <2>6. CASE \E r \in Requests : Ask(r)
    BY <2>1, <2>6 DEF Ask, directory, torrents
  <2>7. CASE Take
    <3>1. replies' \in Seq(ReplyKinds) /\ requests' \in Seq(Requests)
      BY <2>7 DEF Take
    <3>2. Head(replies).peers \in PeerLists
      <4>1. Head(replies) \in ReplyKinds
        BY <2>7 DEF Take
      <4> QED
        BY <4>1 DEF ReplyKinds
    <3>3. known' \in [Torrents -> PeerLists]
      BY <2>7, <3>2 DEF Take
    <3> QED
      BY <2>1, <2>7, <3>1, <3>3 DEF Take, directory, torrents
  <2>8. CASE ProcessEnds
    <3>1. /\ holder' \in [Ports -> Friends \cup {Nobody}]
          /\ published' \in [Friends -> Ports \cup {NoPort}]
          /\ holders' \in [Torrents -> SUBSET Friends]
          /\ self' \subseteq Torrents /\ hashless' \in Nat
      BY <2>8 DEF ProcessEnds
    <3>2. /\ requests' \in Seq(Requests) /\ replies' \in Seq(ReplyKinds)
          /\ awaiting' \in Requests \cup {None}
      BY <2>8 DEF ProcessEnds
    <3>3. up' \in BOOLEAN /\ known' = known
      BY <2>8 DEF ProcessEnds
    <3> QED
      BY <2>1, <3>1, <3>2, <3>3
  <2> QED
    BY <1>2, <2>2, <2>3, <2>4, <2>5, <2>6, <2>7, <2>8 DEF Next
<1> QED
  BY <1>1, <1>2

\* All the state is of its type, for any friends, ports, torrents and queries.
THEOREM TypeCorrect == Spec => []TypeOK
BY TypeInit, TypeStep, PTL DEF Spec

-----------------------------------------------------------------------------
\* A connection carries the request the client waits with, or its replies.
Carries ==
    IF awaiting = None THEN requests = << >> /\ replies = << >>
    ELSE \/ requests = <<awaiting>> /\ replies = << >>
         \/ /\ requests = << >> /\ replies # << >>
            /\ Fits(awaiting, Head(replies))
            /\ \A t \in Torrents :
                Announces(awaiting, t) => Head(replies).peers \in possible

LEMMA CarriesStep ==
    ASSUME Reuse = FALSE
    PROVE  TypeOK /\ Carries /\ [Next]_vars => Carries'
<1> SUFFICES ASSUME TypeOK, Carries, [Next]_vars PROVE Carries'
  OBVIOUS
<1> USE DEF Carries
<1>1. CASE UNCHANGED vars
  BY <1>1 DEF vars, connection, Fits, Announces
<1>2. CASE Next
  <2>0. awaiting' # None => possible' = possible \cup RightNow(awaiting')
    BY <1>2 DEF Next, Watch
  <2>1. CASE Tunnels \/ \E f \in Friends, t \in Torrents : FriendAnnounces(f, t)
    <3>1. UNCHANGED <<requests, replies, awaiting>>
      BY <2>1 DEF Tunnels, FriendAnnounces, connection
    <3> QED
      BY <2>0, <3>1 DEF Fits, Announces
  <2>2. CASE Handle
    <3>1. /\ awaiting # None
          /\ requests = <<awaiting>> /\ replies = << >>
          /\ awaiting \in Requests /\ Decodable(awaiting)
      BY <2>2 DEF Handle, TypeOK
    <3>2. requests' = << >> /\ replies' = Replies(awaiting) /\ awaiting' = awaiting
      <4>1. Replies(awaiting) \in Seq(ReplyKinds)
        BY <3>1, RepliesType
      <4> QED
        BY <2>2, <3>1, <4>1 DEF Handle
    <3>3. \A t \in Torrents : Announces(awaiting, t) => Peers(t) \in possible'
      BY <2>0, <3>1, <3>2 DEF RightNow
    <3>4. Replies(awaiting) # << >> /\ Fits(awaiting, Head(Replies(awaiting)))
      BY <3>1, FirstReply
    <3>5. \A t \in Torrents :
            Announces(awaiting, t) => Head(Replies(awaiting)).peers \in possible'
      BY <3>1, <3>3, FirstReply
    <3> QED
      BY <3>1, <3>2, <3>4, <3>5 DEF Fits, Announces, InfoHash, Last
  <2>3. CASE ThreadEnds \/ ThreadStarts
    <3>1. CASE ThreadEnds
      BY <3>1 DEF ThreadEnds
    <3>2. CASE ThreadStarts
      BY <2>0, <3>2 DEF ThreadStarts, connection, Fits, Announces
    <3> QED
      BY <2>3, <3>1, <3>2
  <2>4. CASE \E r \in Requests : Ask(r)
    BY <2>4 DEF Ask, TypeOK, Requests
  <2>5. CASE Take
    BY <2>5 DEF Take
  <2>6. CASE ProcessEnds
    BY <2>6 DEF ProcessEnds
  <2> QED
    BY <1>2, <2>1, <2>2, <2>3, <2>4, <2>5, <2>6 DEF Next
<1> QED
  BY <1>1, <1>2

\* A client that opens a connection for each request never takes an error for
\* the answer to a proper announce, or an answer for an error.
THEOREM FirstReplyAlwaysFits ==
    ASSUME Reuse = FALSE
    PROVE  Spec => []FirstReplyFits
<1>1. Init => Carries
  BY DEF Init, Carries
<1>2. TypeOK /\ Carries /\ [Next]_vars => Carries'
  BY CarriesStep
<1>3. Carries => FirstReplyFits
  BY DEF Carries, FirstReplyFits
<1> QED
  BY <1>1, <1>2, <1>3, TypeCorrect, PTL DEF Spec

\* No such client is told of peers that were not the peers at any time after
\* it asked.
THEOREM AnswersAreAlwaysFresh ==
    ASSUME Reuse = FALSE
    PROVE  Spec => []AnswersAreFresh
<1>1. Init => Carries
  BY DEF Init, Carries
<1>2. TypeOK /\ Carries /\ [Next]_vars => Carries'
  BY CarriesStep
<1>3. Carries => AnswersAreFresh
  BY DEF Carries, AnswersAreFresh, Announces
<1> QED
  BY <1>1, <1>2, <1>3, TypeCorrect, PTL DEF Spec

=============================================================================
