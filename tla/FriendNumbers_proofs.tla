------------------------ MODULE FriendNumbers_proofs ------------------------
(***************************************************************************)
(* What ToxFriends' operators do, and the properties of FriendNumbers, for *)
(* any finite set of keys and any bound on the friends; then those of      *)
(* ToxClient, which has the same friends, for any save interval.           *)
(***************************************************************************)
EXTENDS FriendNumbers, ToxClient, FiniteSetTheorems, TLAPS

-----------------------------------------------------------------------------
(* tox's friends *)

LEMMA NumbersCounted ==
    /\ IsFiniteSet(Numbers) /\ Cardinality(Numbers) = Cardinality(Keys)
    /\ Cardinality(Keys) \in Nat
<1>1. Cardinality(Keys) \in Nat
  BY KeysAssumption, FS_CardinalityType
<1> QED
  BY <1>1, FS_Interval DEF Numbers

\* Different numbers have different ranks.
LEMMA RanksDiffer ==
    ASSUME NEW fs, DOMAIN fs \in SUBSET Numbers, NEW a \in DOMAIN fs, NEW b \in DOMAIN fs, a < b
    PROVE  Rank(fs, a) < Rank(fs, b)
<1> DEFINE A == {m \in DOMAIN fs : m < a}
           B == {m \in DOMAIN fs : m < b}
<1>1. DOMAIN fs \in SUBSET Numbers /\ IsFiniteSet(DOMAIN fs)
  BY NumbersCounted, FS_Subset
<1>2. DOMAIN fs \in SUBSET Int
  BY <1>1, NumbersCounted DEF Numbers
<1>3. IsFiniteSet(A) /\ IsFiniteSet(B)
  BY <1>1, FS_Subset
<1>4. A \cup {a} \in SUBSET B /\ a \notin A
  BY <1>2
<1>5. Cardinality(A \cup {a}) = Cardinality(A) + 1 /\ Cardinality(A) \in Nat
  BY <1>3, <1>4, FS_AddElement, FS_CardinalityType
<1>6. Cardinality(A \cup {a}) <= Cardinality(B) /\ Cardinality(B) \in Nat
  BY <1>3, <1>4, FS_Subset, FS_CardinalityType
<1>7. Rank(fs, a) = Cardinality(A) /\ Rank(fs, b) = Cardinality(B)
  BY DEF Rank
<1> QED
  BY <1>5, <1>6, <1>7

\* A friend of each rank: the ranks are a bijection to 0 .. the number of
\* friends - 1.
LEMMA RanksFill ==
    ASSUME NEW fs, DOMAIN fs \in SUBSET Numbers
    PROVE  /\ Cardinality(DOMAIN fs) \in Nat
           /\ Cardinality(DOMAIN fs) <= Cardinality(Keys)
           /\ \A n \in DOMAIN fs : Rank(fs, n) \in 0 .. Cardinality(DOMAIN fs) - 1
           /\ \A i \in 0 .. Cardinality(DOMAIN fs) - 1 :
                \E n \in DOMAIN fs : Rank(fs, n) = i
<1> DEFINE D == DOMAIN fs
           c == Cardinality(D)
           r == [n \in D |-> Rank(fs, n)]
<1>1. D \in SUBSET Numbers /\ IsFiniteSet(D) /\ c \in Nat
  BY NumbersCounted, FS_Subset, FS_CardinalityType
<1>2. D \in SUBSET Int
  BY <1>1, NumbersCounted DEF Numbers
<1>3. ASSUME NEW n \in D PROVE Rank(fs, n) \in 0 .. c - 1
  <2>1. {m \in D : m < n} \in SUBSET (D \ {n})
    BY <1>2
  <2>2. IsFiniteSet(D \ {n}) /\ Cardinality(D \ {n}) = c - 1
    BY <1>1, FS_RemoveElement
  <2>3. /\ Cardinality({m \in D : m < n}) \in Nat
        /\ Cardinality({m \in D : m < n}) <= c - 1
    BY <2>1, <2>2, FS_Subset, FS_CardinalityType
  <2> QED
    BY <1>1, <2>3 DEF Rank
<1>4. r \in Injection(D, 0 .. c - 1)
  <2>1. r \in [D -> 0 .. c - 1]
    BY <1>3
  <2>2. ASSUME NEW a \in D, NEW b \in D, r[a] = r[b] PROVE a = b
    <3>1. ~ (a < b) /\ ~ (b < a)
      BY <1>1, <1>3, <2>2, RanksDiffer
    <3> QED
      BY <1>2, <3>1
  <2> QED
    BY <2>1, <2>2 DEF Injection, IsInjective
<1>5. IsFiniteSet(0 .. c - 1) /\ Cardinality(0 .. c - 1) = c
  BY <1>1, FS_Interval
<1>6. r \in Surjection(D, 0 .. c - 1)
  BY <1>4, <1>5, FS_Injection
<1>7. c <= Cardinality(Keys)
  BY <1>1, NumbersCounted, FS_Subset
<1> QED
  BY <1>1, <1>3, <1>6, <1>7 DEF Surjection

\* As long as there are fewer friends than keys, a number is free.
LEMMA FreeNumber ==
    ASSUME NEW ns \in SUBSET Numbers, Cardinality(ns) < Cardinality(Keys)
    PROVE  Lowest(Numbers \ ns) \in Numbers \ ns
<1> DEFINE S == Numbers \ ns
           fs == [n \in S |-> n]
<1>1. S # {} /\ DOMAIN fs = S /\ S \in SUBSET Numbers
  BY NumbersCounted
<1>2. Cardinality(S) # 0
  BY <1>1, NumbersCounted, FS_Subset, FS_EmptySet
<1>3. PICK n \in S : Rank(fs, n) = 0
  <2>1. Cardinality(S) \in Nat /\ 0 \in 0 .. Cardinality(S) - 1
    BY <1>1, <1>2, NumbersCounted, FS_Subset, FS_CardinalityType
  <2> QED
    BY <1>1, <2>1, RanksFill
<1>4. {m \in S : m < n} = {}
  <2>1. IsFiniteSet({m \in S : m < n})
    BY <1>1, NumbersCounted, FS_Subset
  <2> QED
    BY <1>1, <1>3, <2>1, FS_EmptySet DEF Rank
<1>5. \A m \in S : n <= m
  BY <1>1, <1>4, NumbersCounted DEF Numbers
<1> QED
  BY <1>3, <1>5 DEF Lowest

\* A map of friend numbers to different keys
IsFriends(fs) == fs \in MapsToKeys /\ IsInjective(fs)

LEMMA IsMap ==
    ASSUME NEW ns \in SUBSET Numbers, NEW f \in [ns -> Keys]
    PROVE  f \in MapsToKeys
BY DEF MapsToKeys

LEMMA MapIs ==
    ASSUME NEW f \in MapsToKeys
    PROVE  DOMAIN f \in SUBSET Numbers /\ f \in [DOMAIN f -> Keys]
BY DEF MapsToKeys

LEMMA PutMaps ==
    ASSUME NEW f \in MapsToKeys, NEW n \in Numbers, NEW k \in Keys
    PROVE  Put(f, n, k) \in MapsToKeys
<1>1. Put(f, n, k) \in [DOMAIN f \cup {n} -> Keys]
  BY MapIs DEF Put
<1> QED
  BY <1>1, MapIs, IsMap

\* Whoever is no friend leaves a number to be had.
LEMMA FriendsLeave ==
    ASSUME NEW fs, IsFriends(fs), NEW k \in Keys \ Range(fs)
    PROVE  Cardinality(DOMAIN fs) < Cardinality(Keys)
<1> DEFINE others == Keys \ {k}
<1>1. IsFiniteSet(others) /\ Cardinality(others) = Cardinality(Keys) - 1
      /\ Cardinality(Keys) \in Nat
  BY KeysAssumption, FS_RemoveElement, FS_CardinalityType
<1>2. fs \in [DOMAIN fs -> others]
  BY MapIs DEF IsFriends, Range
<1> HIDE DEF others
<1>3. fs \in Injection(DOMAIN fs, others)
  BY <1>2 DEF IsFriends, IsInjective, Injection
<1>4. IsFiniteSet(DOMAIN fs) /\ Cardinality(DOMAIN fs) <= Cardinality(others)
  BY <1>1, <1>3, FS_Injection
<1>5. Cardinality(DOMAIN fs) \in Nat
  BY <1>4, FS_CardinalityType
<1> QED
  BY <1>1, <1>4, <1>5

LEMMA BefriendFriends ==
    ASSUME NEW fs, IsFriends(fs), NEW k \in Keys \ Range(fs)
    PROVE  \E m \in Numbers \ DOMAIN fs :
            /\ AddFriend(fs, k) = Put(fs, m, k)
            /\ IsFriends(AddFriend(fs, k))
            /\ Range(AddFriend(fs, k)) = Range(fs) \cup {k}
<1>1. DOMAIN fs \in SUBSET Numbers
  BY DEF IsFriends, MapsToKeys
<1> DEFINE m == Lowest(Numbers \ DOMAIN fs)
<1>2. m \in Numbers \ DOMAIN fs
  <2>1. Cardinality(DOMAIN fs) < Cardinality(Keys)
    BY FriendsLeave
  <2> QED
    BY <1>1, <2>1, FreeNumber
<1>3. AddFriend(fs, k) = Put(fs, m, k)
  BY DEF AddFriend
<1> HIDE DEF m
<1>4. IsFriends(Put(fs, m, k))
  <2>1. Put(fs, m, k) \in MapsToKeys
    BY <1>2, PutMaps DEF IsFriends
  <2>2. IsInjective(Put(fs, m, k))
    <3>1. \A a, b \in DOMAIN fs : fs[a] = fs[b] => a = b
      BY DEF IsFriends, IsInjective
    <3>2. \A a \in DOMAIN fs : fs[a] # k
      BY DEF Range
    <3> QED
      BY <1>2, <3>1, <3>2 DEF Put, IsInjective
  <2> QED
    BY <2>1, <2>2 DEF IsFriends
<1>5. Range(Put(fs, m, k)) = Range(fs) \cup {k}
  BY <1>2 DEF Put, Range
<1> QED
  BY <1>2, <1>3, <1>4, <1>5

LEMMA RemoveFriends ==
    ASSUME NEW fs, IsFriends(fs), NEW k
    PROVE  /\ IsFriends(RemoveFriend(fs, k))
           /\ Range(RemoveFriend(fs, k)) = Range(fs) \ {k}
           /\ DOMAIN RemoveFriend(fs, k) = DOMAIN fs \ {n \in DOMAIN fs : fs[n] = k}
           /\ \A n \in DOMAIN RemoveFriend(fs, k) : RemoveFriend(fs, k)[n] = fs[n]
<1>1. RemoveFriend(fs, k) \in MapsToKeys
  <2> DEFINE ns == DOMAIN fs \ {n \in DOMAIN fs : fs[n] = k}
  <2>1. RemoveFriend(fs, k) \in [ns -> Keys] /\ ns \in SUBSET Numbers
    BY MapIs DEF IsFriends, RemoveFriend, Without
  <2> QED
    BY <2>1, IsMap
<1>2. IsInjective(RemoveFriend(fs, k))
  BY DEF IsFriends, RemoveFriend, Without, IsInjective
<1>3. /\ DOMAIN RemoveFriend(fs, k) = DOMAIN fs \ {n \in DOMAIN fs : fs[n] = k}
      /\ \A n \in DOMAIN RemoveFriend(fs, k) : RemoveFriend(fs, k)[n] = fs[n]
  BY DEF RemoveFriend, Without
<1>4. Range(RemoveFriend(fs, k)) = Range(fs) \ {k}
  BY <1>3 DEF Range
<1> QED
  BY <1>1, <1>2, <1>3, <1>4 DEF IsFriends

\* A save has every friend, once.
LEMMA SavedFriends ==
    ASSUME NEW fs, IsFriends(fs)
    PROVE  /\ InOrder(fs) \in Seq(Keys) /\ IsInjective(InOrder(fs))
           /\ Range(InOrder(fs)) = Range(fs)
<1> DEFINE D == DOMAIN fs
           c == Cardinality(D)
           of(i) == CHOOSE n \in D : Rank(fs, n) = i - 1
           s == InOrder(fs)
<1>0. D \in SUBSET Numbers
  BY MapIs DEF IsFriends
<1>1. c \in Nat
  BY <1>0, RanksFill
<1>2. ASSUME NEW i \in 1 .. c PROVE of(i) \in D /\ Rank(fs, of(i)) = i - 1
  <2>1. i - 1 \in 0 .. c - 1
    BY <1>1
  <2> QED
    BY <1>0, <2>1, RanksFill
<1>3. s = [i \in 1 .. c |-> fs[of(i)]]
  BY DEF InOrder
<1> HIDE DEF of, s
<1>4. ASSUME NEW n \in D
      PROVE  Rank(fs, n) + 1 \in 1 .. c /\ of(Rank(fs, n) + 1) = n
  <2>1. Rank(fs, n) \in 0 .. c - 1
    BY <1>0, RanksFill
  <2>2. D \in SUBSET Int
    BY <1>0, NumbersCounted DEF Numbers
  <2>3. Rank(fs, n) + 1 \in 1 .. c
    BY <1>1, <2>1
  <2> DEFINE j == Rank(fs, n) + 1
             o == of(j)
  <2>4. o \in D /\ Rank(fs, o) = Rank(fs, n)
    <3>1. j - 1 = Rank(fs, n)
      BY <2>1
    <3>2. j \in 1 .. c
      BY <2>3
    <3> HIDE DEF j
    <3>3. of(j) \in D /\ Rank(fs, of(j)) = j - 1
      BY <1>2, <3>2
    <3> QED
      BY <3>1, <3>3
  <2> HIDE DEF o
  <2>5. ~ (o < n) /\ ~ (n < o)
    BY <1>0, <1>1, <2>1, <2>4, RanksDiffer
  <2>6. o = n
    BY <2>2, <2>4, <2>5
  <2> QED
    BY <2>3, <2>6 DEF o
<1>5. \A n \in D : fs[n] \in Keys
  BY MapIs DEF IsFriends
<1>6. s \in Seq(Keys)
  <2>1. \A i \in 1 .. c : s[i] \in Keys
    BY <1>2, <1>3, <1>5
  <2> QED
    BY <1>1, <1>3, <2>1
<1>7. IsInjective(s)
  <2> SUFFICES ASSUME NEW i \in 1 .. c, NEW j \in 1 .. c, s[i] = s[j] PROVE i = j
    BY <1>3 DEF IsInjective
  <2>1. of(i) = of(j)
    BY <1>2, <1>3 DEF IsFriends, IsInjective
  <2>2. i - 1 = j - 1
    BY <1>2, <2>1
  <2> QED
    BY <2>2
<1>8. Range(s) = Range(fs)
  BY <1>2, <1>3, <1>4 DEF Range
<1> QED
  BY <1>6, <1>7, <1>8 DEF s

\* All the keys of a save become friends.
LEMMA LoadedFriends ==
    ASSUME NEW keys \in Seq(Keys), IsInjective(keys)
    PROVE  IsFriends(Numbered(keys)) /\ Range(Numbered(keys)) = Range(keys)
<1> DEFINE c == Len(keys)
           g == Numbered(keys)
<1>1. c \in Nat /\ keys \in [1 .. c -> Keys]
  OBVIOUS
<1>2. c <= Cardinality(Keys)
  <2>1. keys \in Injection(1 .. c, Keys)
    BY <1>1 DEF IsInjective, Injection
  <2>2. Cardinality(1 .. c) <= Cardinality(Keys)
    BY <2>1, KeysAssumption, FS_Injection
  <2>3. Cardinality(1 .. c) = IF 1 > c THEN 0 ELSE c - 1 + 1
    BY <1>1, FS_Interval
  <2> QED
    BY <1>1, <2>2, <2>3, NumbersCounted
<1>3. g = [n \in 0 .. c - 1 |-> keys[n + 1]]
  BY DEF Numbered
<1>4. \A n \in 0 .. c - 1 : n + 1 \in 1 .. c
  BY <1>1
<1> HIDE DEF g
<1>5. g \in MapsToKeys
  <2>1. 0 .. c - 1 \in SUBSET Numbers
    BY <1>1, <1>2, NumbersCounted DEF Numbers
  <2>2. g \in [0 .. c - 1 -> Keys]
    BY <1>1, <1>3, <1>4
  <2> QED
    BY <2>1, <2>2, IsMap
<1>6. IsInjective(g)
  <2> SUFFICES ASSUME NEW a \in 0 .. c - 1, NEW b \in 0 .. c - 1, g[a] = g[b]
               PROVE  a = b
    BY <1>3 DEF IsInjective
  <2>1. a + 1 = b + 1
    BY <1>1, <1>3, <1>4 DEF IsInjective
  <2> QED
    BY <2>1
<1>7. Range(g) = Range(keys)
  <2>1. \A i \in 1 .. c : i - 1 \in 0 .. c - 1 /\ (i - 1) + 1 = i
    BY <1>1
  <2> QED
    BY <1>1, <1>3, <1>4, <2>1 DEF Range
<1> QED
  BY <1>5, <1>6, <1>7 DEF IsFriends, g

\* A restart keeps the friends, whatever numbers they had.
LEMMA RestartKeepsFriends ==
    ASSUME NEW fs, IsFriends(fs)
    PROVE  /\ IsFriends(Numbered(InOrder(fs)))
           /\ Range(Numbered(InOrder(fs))) = Range(fs)
BY SavedFriends, LoadedFriends

-----------------------------------------------------------------------------
(* Types *)

LEMMA NoFriendsIsMap == NoFriends \in MapsToKeys /\ IsInjective(NoFriends)
<1>1. NoFriends \in [{} -> Keys] /\ {} \in SUBSET Numbers
  BY DEF NoFriends
<1>2. IsInjective(NoFriends)
  BY DEF NoFriends, IsInjective
<1> QED
  BY <1>1, <1>2, IsMap

LEMMA TypeInit == Init => TypeOK
BY NoFriendsIsMap DEF Init, TypeOK

LEMMA TypeTick == TypeOK /\ Tick => TypeOK'
<1> SUFFICES ASSUME TypeOK, Tick PROVE TypeOK'
  OBVIOUS
<1>1. PICK opened \in SUBSET {n \in compatible \ DOMAIN tunnels : IsOnline(n)} :
        tunnels' = [n \in (DOMAIN tunnels \ Gone) \cup opened |->
                    IF n \in opened THEN friends[n] ELSE tunnels[n]]
  BY DEF Tick
<1>2. /\ \A n \in DOMAIN tunnels : tunnels[n] \in Keys
      /\ \A n \in DOMAIN friends : friends[n] \in Keys
      /\ DOMAIN tunnels \in SUBSET Numbers
  BY MapIs DEF TypeOK
<1>3. (DOMAIN tunnels \ Gone) \cup opened \in SUBSET Numbers
  BY <1>2 DEF TypeOK
<1>4. tunnels' \in [(DOMAIN tunnels \ Gone) \cup opened -> Keys]
  BY <1>1, <1>2 DEF IsOnline
<1>5. tunnels' \in MapsToKeys
  BY <1>3, <1>4, IsMap
<1>6. compatible' \subseteq Numbers
  BY DEF Tick, TypeOK
<1> QED
  BY <1>5, <1>6 DEF Tick, TypeOK, ghosts

LEMMA TypeStep == TypeOK /\ [Next]_vars => TypeOK'
<1> SUFFICES ASSUME TypeOK, [Next]_vars PROVE TypeOK'
  OBVIOUS
<1> USE DEF TypeOK
<1>0. IsFriends(friends) /\ \A n \in DOMAIN friends : friends[n] \in Keys /\ n \in Numbers
  BY MapIs DEF IsFriends
<1>1. CASE Iterate
  BY <1>1 DEF Iterate, kept, ghosts
<1>2. ASSUME NEW k \in Keys, Befriend(k) PROVE TypeOK'
  <2>1. k \notin Range(friends)
    BY <1>2 DEF Befriend
  <2>2. IsFriends(friends') /\ Range(friends') = Range(friends) \cup {k}
    BY <1>0, <1>2, <2>1, BefriendFriends DEF Befriend
  <2> QED
    BY <1>2, <2>1, <2>2 DEF Befriend, IsFriends, kept, ghosts
<1>3. ASSUME NEW k \in Keys, Delete(k) PROVE TypeOK'
  <2>1. IsFriends(friends') /\ Range(friends') = Range(friends) \ {k}
    BY <1>0, <1>3, RemoveFriends DEF Delete
  <2>2. freed' \subseteq Numbers
    BY <1>0, <1>3 DEF Delete
  <2> QED
    BY <1>3, <2>1, <2>2 DEF Delete, IsFriends, kept
<1>4. ASSUME NEW k \in Keys, Online(k) \/ Offline(k) PROVE TypeOK'
  BY <1>4 DEF Online, Offline, kept, ghosts
<1>5. ASSUME NEW n \in Numbers, NegotiateAnnounce(n) PROVE TypeOK'
  <2>1. entries' \in MapsToKeys
    BY <1>0, <1>5, PutMaps DEF NegotiateAnnounce, From
  <2> QED
    BY <1>5, <2>1 DEF NegotiateAnnounce, ghosts
<1>6. ASSUME NEW n \in Numbers, ReceiveAnnounce(n) PROVE TypeOK'
  <2>1. friends[n] \in Range(friends)
    BY <1>6 DEF ReceiveAnnounce, From, Range
  <2> QED
    BY <1>6, <2>1 DEF ReceiveAnnounce
<1>7. ASSUME NEW n \in Numbers, NEW comp \in BOOLEAN, NegotiateTunnel(n, comp) PROVE TypeOK'
  <2>1. compatible' \subseteq Numbers
    BY <1>7 DEF NegotiateTunnel
  <2> QED
    BY <1>7, <2>1 DEF NegotiateTunnel, ghosts
<1>8. CASE Tick
  BY <1>8, TypeTick
<1>9. CASE Restart
  <2>1. IsFriends(friends')
    BY <1>0, <1>9, RestartKeepsFriends DEF Restart
  <2> QED
    BY <1>9, <2>1, NoFriendsIsMap DEF Restart, IsFriends
<1>10. CASE UNCHANGED vars
  BY <1>10 DEF vars, kept, ghosts
<1> QED
  BY <1>1, <1>2, <1>3, <1>4, <1>5, <1>6, <1>7, <1>8, <1>9, <1>10 DEF Next

\* All the state is of its type; no two numbers are one friend's, and nobody is
\* online who is no friend or was added in this iteration.
THEOREM TypeCorrect == Spec => []TypeOK
BY TypeInit, TypeStep, PTL DEF Spec

\* Nobody's number changes when another friend is removed.
LEMMA DeleteKeeps ==
    ASSUME TypeOK, NEW k \in Keys, Delete(k)
    PROVE  /\ DOMAIN friends' = DOMAIN friends \ {n \in DOMAIN friends : friends[n] = k}
           /\ \A n \in DOMAIN friends' : friends'[n] = friends[n]
<1>1. IsFriends(friends)
  BY DEF IsFriends, TypeOK
<1>2. friends' = RemoveFriend(friends, k)
  BY DEF Delete
<1> QED
  BY <1>1, <1>2, RemoveFriends

-----------------------------------------------------------------------------
(* Tunnels *)

\* The friends of this iteration have no tunnel of their own yet, but there
\* may be one of whoever had the number before: the tick destroys it before
\* they can be online.
TunnelsMade ==
    \A n \in DOMAIN tunnels :
        /\ n \in DOMAIN friends /\ friends[n] \notin fresh => tunnels[n] = friends[n]
        /\ phase = "asleep" => IsOnline(n)

LEMMA TunnelsStep == TypeOK /\ TunnelsMade /\ [Next]_vars => TunnelsMade'
<1> SUFFICES ASSUME TypeOK, TunnelsMade, [Next]_vars PROVE TunnelsMade'
  OBVIOUS
<1> USE DEF TunnelsMade, IsOnline
<1>0. IsFriends(friends)
  BY DEF IsFriends, TypeOK
<1>a. up \cap fresh = {}
  BY DEF TypeOK
<1>1. CASE Iterate
  BY <1>a, <1>1 DEF Iterate, kept
<1>2. ASSUME NEW k \in Keys, Befriend(k) PROVE TunnelsMade'
  <2>1. k \notin Range(friends)
    BY <1>2 DEF Befriend
  <2>2. PICK m \in Numbers \ DOMAIN friends : friends' = Put(friends, m, k)
    BY <1>0, <1>2, <2>1, BefriendFriends DEF Befriend
  <2> QED
    BY <1>2, <2>2 DEF Befriend, kept, Put
<1>3. ASSUME NEW k \in Keys, Delete(k) PROVE TunnelsMade'
  <2>1. /\ DOMAIN friends' = DOMAIN friends \ {n \in DOMAIN friends : friends[n] = k}
        /\ \A n \in DOMAIN friends' : friends'[n] = friends[n]
    BY <1>3, DeleteKeeps
  <2> QED
    BY <1>3, <2>1 DEF Delete, kept
<1>4. ASSUME NEW k \in Keys, Online(k) \/ Offline(k) PROVE TunnelsMade'
  BY <1>4 DEF Online, Offline, kept
<1>5. ASSUME NEW n \in Numbers,
             NegotiateAnnounce(n) \/ ReceiveAnnounce(n)
                \/ \E comp \in BOOLEAN : NegotiateTunnel(n, comp)
      PROVE  TunnelsMade'
  BY <1>5 DEF NegotiateAnnounce, ReceiveAnnounce, NegotiateTunnel, From
<1>6. CASE Tick
  <2>1. PICK opened \in SUBSET {n \in compatible \ DOMAIN tunnels : IsOnline(n)} :
          tunnels' = [n \in (DOMAIN tunnels \ Gone) \cup opened |->
                      IF n \in opened THEN friends[n] ELSE tunnels[n]]
    BY <1>6 DEF Tick
  <2>2. UNCHANGED <<friends, fresh, up>>
    BY <1>6 DEF Tick
  <2>3. ASSUME NEW n \in DOMAIN tunnels' PROVE IsOnline(n) /\ tunnels'[n] = friends[n]
    BY <1>a, <2>1 DEF Gone
  <2> QED
    BY <2>2, <2>3
<1>7. CASE Restart
  BY <1>7 DEF Restart, NoFriends
<1>8. CASE UNCHANGED vars
  BY <1>8 DEF vars, kept
<1> QED
  BY <1>1, <1>2, <1>3, <1>4, <1>5, <1>6, <1>7, <1>8 DEF Next

\* No friend is ever online under a number whose tunnel was made for another,
\* and between two iterations each tunnel is of a friend that is online.
THEOREM TunnelsAlwaysOfTheirFriends == Spec => []TunnelsOfTheirFriends
<1>1. Init => TunnelsMade
  BY DEF Init, TunnelsMade, NoFriends
<1>2. TypeOK /\ TunnelsMade => TunnelsOfTheirFriends
  BY DEF TypeOK, TunnelsMade, TunnelsOfTheirFriends, IsOnline
<1> QED
  BY <1>1, <1>2, TunnelsStep, TypeCorrect, PTL DEF Spec

-----------------------------------------------------------------------------
(* What else is kept by numbers *)

\* Nothing is kept by a number nobody had.
KeptOfFriends ==
    \A n \in Numbers \ freed :
        /\ n \in DOMAIN friends =>
            /\ n \in DOMAIN entries => entries[n] = friends[n]
            /\ n \in holders <=> friends[n] \in told
        /\ n \notin DOMAIN friends => n \notin DOMAIN entries /\ n \notin holders

LEMMA KeptStep == TypeOK /\ KeptOfFriends /\ [Next]_vars => KeptOfFriends'
<1> SUFFICES ASSUME TypeOK, KeptOfFriends, [Next]_vars PROVE KeptOfFriends'
  OBVIOUS
<1> USE DEF KeptOfFriends
<1>0. /\ IsFriends(friends) /\ told \subseteq Range(friends)
      /\ \A a, b \in DOMAIN friends : friends[a] = friends[b] => a = b
  BY DEF IsFriends, TypeOK, IsInjective
<1>1. CASE Iterate
  BY <1>1 DEF Iterate, kept, ghosts
<1>2. ASSUME NEW k \in Keys, Befriend(k) PROVE KeptOfFriends'
  <2>1. k \notin Range(friends)
    BY <1>2 DEF Befriend
  <2>2. PICK m \in Numbers \ DOMAIN friends : friends' = Put(friends, m, k)
    BY <1>0, <1>2, <2>1, BefriendFriends DEF Befriend
  <2> QED
    BY <1>0, <1>2, <2>1, <2>2 DEF Befriend, kept, ghosts, Put
<1>3. ASSUME NEW k \in Keys, Delete(k) PROVE KeptOfFriends'
  <2>1. /\ DOMAIN friends' = DOMAIN friends \ {n \in DOMAIN friends : friends[n] = k}
        /\ \A n \in DOMAIN friends' : friends'[n] = friends[n]
    BY <1>3, DeleteKeeps
  <2> QED
    BY <1>3, <2>1 DEF Delete, kept
<1>4. ASSUME NEW k \in Keys, Online(k) \/ Offline(k) PROVE KeptOfFriends'
  BY <1>4 DEF Online, Offline, kept, ghosts
<1>5. ASSUME NEW n \in Numbers, NegotiateAnnounce(n) PROVE KeptOfFriends'
  BY <1>5 DEF NegotiateAnnounce, From, ghosts, Put
<1>6. ASSUME NEW n \in Numbers, ReceiveAnnounce(n) PROVE KeptOfFriends'
  BY <1>0, <1>6 DEF ReceiveAnnounce, From
<1>7. ASSUME NEW n \in Numbers, NEW comp \in BOOLEAN, NegotiateTunnel(n, comp)
      PROVE  KeptOfFriends'
  BY <1>7 DEF NegotiateTunnel, ghosts
<1>8. CASE Tick
  BY <1>8 DEF Tick, ghosts
<1>9. CASE Restart
  BY <1>9 DEF Restart, NoFriends
<1>10. CASE UNCHANGED vars
  BY <1>10 DEF vars, kept, ghosts
<1> QED
  BY <1>1, <1>2, <1>3, <1>4, <1>5, <1>6, <1>7, <1>8, <1>9, <1>10 DEF Next

\* A friend is mistaken for another only where it has the number of one that
\* was removed.
THEOREM MistakenOnlyByReuse == Spec => []MistakenByReuseOnly
<1>1. Init => KeptOfFriends
  BY DEF Init, KeptOfFriends, NoFriends
<1>2. TypeOK /\ KeptOfFriends => MistakenByReuseOnly
  BY MapIs DEF TypeOK, KeptOfFriends, MistakenByReuseOnly
<1> QED
  BY <1>1, <1>2, KeptStep, TypeCorrect, PTL DEF Spec

-----------------------------------------------------------------------------
(* The process that has these friends: ToxClient, with an identity, a save  *)
(* file, crashes and restarts, for any save interval.                       *)

\* The numbered friends of a process, and the save they are loaded from
FriendsOK == IsFriends(friends) /\ accepted \subseteq Range(friends)

FileOK ==
    /\ file \in [kind : {"absent", "empty", "partial", "whole"},
                 identity : {"none", "first", "other"}, keys : Seq(Keys)]
    /\ IsInjective(file.keys)

\* After a save the timer was set back, so no iteration finds it past its end.
LoopOK ==
    /\ process \in {"down", "iterating", "saving", "writing", "asleep"}
    /\ identity \in {"none", "first", "other"}
    /\ dirty \in BOOLEAN /\ born \in BOOLEAN /\ torn \in BOOLEAN
    /\ timer \in 0 .. SaveTicks
    /\ process \in {"saving", "writing", "asleep"} => timer < SaveTicks

PermsOK == perms \in [Numbers -> Levels]

ClientTypes == FriendsOK /\ FileOK /\ LoopOK /\ PermsOK

LEMMA ClientTypesMean == ClientTypes => ClientTypeOK
<1> SUFFICES ASSUME ClientTypes PROVE ClientTypeOK
  OBVIOUS
<1>1. /\ DOMAIN friends \subseteq Numbers /\ friends \in [DOMAIN friends -> Keys]
      /\ IsInjective(friends) /\ accepted \subseteq Range(friends)
  BY MapIs DEF ClientTypes, FriendsOK, IsFriends
<1> QED
  BY <1>1 DEF ClientTypeOK, ClientTypes, FileOK, LoopOK, PermsOK

LEMMA ClientTypesInit == ClientInit => ClientTypes
<1> SUFFICES ASSUME ClientInit PROVE ClientTypes
  OBVIOUS
<1>1. FriendsOK
  BY NoFriendsIsMap DEF FriendsOK, IsFriends, ClientInit
<1>2. FileOK
  <2>1. << >> \in Seq(Keys) /\ IsInjective(<< >>)
    BY DEF IsInjective
  <2> QED
    BY <2>1 DEF FileOK, ClientInit, Absent
<1>3. LoopOK
  <2>1. /\ process = "down" /\ identity = "none" /\ timer = 0
        /\ dirty = FALSE /\ born = FALSE /\ torn = FALSE
    BY DEF ClientInit
  <2>2. 0 \in 0 .. SaveTicks
    BY ToxClientAssumption
  <2> QED
    BY <2>1, <2>2 DEF LoopOK
<1>4. PermsOK
  BY DEF PermsOK, ClientInit, FirstIsAdmin, Levels, NONE, USER, ADMIN
<1> QED
  BY <1>1, <1>2, <1>3, <1>4 DEF ClientTypes

\* A start takes its friends from a save, or has none.
LEMMA StartsFrom ==
    ASSUME FileOK, StartFresh \/ StartFromSave \/ StartFromPart
    PROVE  \E id \in {"none", "first", "other"}, keys \in Seq(Keys) :
            Start(id, keys) /\ IsInjective(keys)
<1>1. << >> \in Seq(Keys) /\ IsInjective(<< >>)
  BY DEF IsInjective
<1>2. file.identity \in {"none", "first", "other"} /\ file.keys \in Seq(Keys)
  BY DEF FileOK
<1>3. CASE StartFresh
  BY <1>1, <1>3 DEF StartFresh
<1>4. CASE StartFromSave
  BY <1>2, <1>4 DEF StartFromSave, FileOK
<1>5. CASE StartFromPart
  BY <1>1, <1>2, <1>5 DEF StartFromPart
<1> QED
  BY <1>3, <1>4, <1>5

LEMMA FriendsOKStep ==
    ASSUME FriendsOK, FileOK, [ClientNext]_clientVars
    PROVE  FriendsOK'
<1> USE DEF FriendsOK
<1>1. CASE StartFresh \/ StartFromSave \/ StartFromPart
  <2>1. PICK id \in {"none", "first", "other"}, keys \in Seq(Keys) :
          Start(id, keys) /\ IsInjective(keys)
    BY <1>1, StartsFrom
  <2>2. friends' = Numbered(keys) /\ accepted' = {}
    BY <2>1 DEF Start
  <2> QED
    BY <2>1, <2>2, LoadedFriends
<1>2. CASE Stop \/ Crash
  <2>1. friends' = NoFriends /\ accepted' = {}
    BY <1>2 DEF Stop, Crash, End
  <2> QED
    BY <2>1, NoFriendsIsMap DEF IsFriends
<1>3. ASSUME NEW k \in Keys,
             friends' = AddFriend(friends, k), accepted' \in SUBSET (accepted \cup {k})
      PROVE  FriendsOK'
  <2>1. CASE k \in Range(friends)
    BY <1>3, <2>1 DEF AddFriend
  <2>2. CASE k \notin Range(friends)
    BY <1>3, <2>2, BefriendFriends
  <2> QED
    BY <2>1, <2>2
<1>4. ASSUME NEW k \in Keys, FriendRequest(k) PROVE FriendsOK'
  BY <1>3, <1>4 DEF FriendRequest
<1>5. ASSUME NEW n \in Numbers, NEW k \in Keys, CommandAdd(n, k)
      PROVE  FriendsOK'
  BY <1>3, <1>5 DEF CommandAdd
<1>6. ASSUME NEW n \in Numbers, NEW k \in Keys, CommandRemove(n, k)
      PROVE  FriendsOK'
  <2>1. friends' = RemoveFriend(friends, k) /\ accepted' = accepted \ {k}
    BY <1>6 DEF CommandRemove
  <2> QED
    BY <2>1, RemoveFriends
<1>7. ASSUME UNCHANGED <<friends, accepted>> PROVE FriendsOK'
  BY <1>7
<1>8. ASSUME NEW n \in Numbers, NEW m \in Numbers, NEW level \in Levels,
             CommandPermission(n, m, level)
      PROVE  FriendsOK'
  BY <1>7, <1>8 DEF CommandPermission
<1>9. CASE ConnectionStatus \/ Loop
  BY <1>7, <1>9
     DEF ConnectionStatus, Loop, NoSave, BeginSave, Truncate, WritePart, CloseFile, Sleep,
         ram
<1>10. CASE UNCHANGED clientVars
  BY <1>7, <1>10 DEF clientVars, ram
<1> QED
  BY <1>1, <1>2, <1>4, <1>5, <1>6, <1>8, <1>9, <1>10 DEF ClientNext, Callback

LEMMA FileOKStep ==
    ASSUME FriendsOK, FileOK, LoopOK, [ClientNext]_clientVars
    PROVE  FileOK'
<1> USE DEF FileOK
<1>1. << >> \in Seq(Keys) /\ IsInjective(<< >>)
  BY DEF IsInjective
<1>2. CASE Truncate
  <2>1. file' = [kind |-> "empty", identity |-> "none", keys |-> << >>]
    BY <1>2 DEF Truncate, Absent
  <2> QED
    BY <1>1, <2>1
<1>3. CASE WritePart
  <2>1. file' = [kind |-> "partial", identity |-> identity, keys |-> << >>]
    BY <1>3 DEF WritePart, Savedata
  <2> QED
    BY <1>1, <2>1 DEF LoopOK
<1>4. CASE CloseFile
  <2>1. file' = [kind |-> "whole", identity |-> identity, keys |-> InOrder(friends)]
    BY <1>4 DEF CloseFile, Savedata
  <2>2. InOrder(friends) \in Seq(Keys) /\ IsInjective(InOrder(friends))
    BY SavedFriends DEF FriendsOK
  <2> QED
    BY <2>1, <2>2 DEF LoopOK
<1>5. ASSUME UNCHANGED file PROVE FileOK'
  BY <1>5
<1>6. CASE StartFresh \/ StartFromSave \/ StartFromPart
  BY <1>5, <1>6 DEF StartFresh, StartFromSave, StartFromPart, Start
<1>7. CASE Stop \/ Crash
  BY <1>5, <1>7 DEF Stop, Crash, End
<1>8. CASE Callback
  BY <1>5, <1>8
     DEF Callback, ConnectionStatus, FriendRequest, CommandAdd, CommandRemove,
         CommandPermission
<1>9. CASE NoSave \/ BeginSave \/ Sleep
  BY <1>5, <1>9 DEF NoSave, BeginSave, Sleep
<1>10. CASE UNCHANGED clientVars
  BY <1>5, <1>10 DEF clientVars
<1> QED
  BY <1>2, <1>3, <1>4, <1>6, <1>7, <1>8, <1>9, <1>10 DEF ClientNext, Loop

LEMMA LoopOKStep ==
    ASSUME FileOK, LoopOK, [ClientNext]_clientVars
    PROVE  LoopOK'
<1> USE DEF LoopOK
<1>1. CASE StartFresh \/ StartFromSave \/ StartFromPart
  <2>1. PICK id \in {"none", "first", "other"}, keys \in Seq(Keys) : Start(id, keys)
    BY <1>1, StartsFrom
  <2>2. timer' = SaveTicks \div 2 /\ SaveTicks \div 2 \in 0 .. SaveTicks
        /\ SaveTicks \div 2 < SaveTicks
    BY <2>1, ToxClientAssumption DEF Start
  <2> QED
    BY <2>1, <2>2 DEF Start
<1>2. CASE Stop \/ Crash
  <2>1. timer' = 0 /\ 0 \in 0 .. SaveTicks
    BY <1>2, ToxClientAssumption DEF Stop, Crash, End
  <2> QED
    BY <1>2, <2>1 DEF Stop, Crash, End
<1>3. CASE Callback
  <2>1. process = "iterating" /\ dirty' \in BOOLEAN
        /\ UNCHANGED <<process, identity, timer, born, torn>>
    BY <1>3
       DEF Callback, ConnectionStatus, FriendRequest, CommandAdd, CommandRemove,
           CommandPermission, history
  <2> QED
    BY <2>1
<1>4. CASE NoSave
  <2>1. process = "iterating" /\ timer < SaveTicks /\ process' = "asleep"
        /\ UNCHANGED <<identity, dirty, timer, born, torn>>
    BY <1>4 DEF NoSave, ram, history
  <2> QED
    BY <2>1
<1>5. CASE BeginSave
  <2>1. 0 \in 0 .. SaveTicks /\ 0 < SaveTicks
    BY ToxClientAssumption
  <2> QED
    BY <1>5, <2>1 DEF BeginSave, history
<1>6. CASE Truncate \/ WritePart \/ CloseFile
  <2>1. process \in {"saving", "writing"} /\ process' \in {"writing", "asleep"}
        /\ UNCHANGED <<identity, dirty, timer, born, torn>>
    BY <1>6 DEF Truncate, WritePart, CloseFile, ram, history
  <2> QED
    BY <2>1
<1>7. CASE Sleep
  <2>1. timer' \in 0 .. SaveTicks
    BY <1>7, ToxClientAssumption DEF Sleep
  <2> QED
    BY <1>7, <2>1 DEF Sleep, history
<1>8. CASE UNCHANGED clientVars
  BY <1>8 DEF clientVars, ram, history
<1> QED
  BY <1>1, <1>2, <1>3, <1>4, <1>5, <1>6, <1>7, <1>8 DEF ClientNext, Loop

LEMMA PermsOKStep == PermsOK /\ [ClientNext]_clientVars => PermsOK'
<1> SUFFICES ASSUME PermsOK, [ClientNext]_clientVars PROVE PermsOK'
  OBVIOUS
<1> USE DEF PermsOK
<1>1. FirstIsAdmin \in [Numbers -> Levels]
  BY DEF FirstIsAdmin, Levels, NONE, USER, ADMIN
<1>2. CASE StartFresh \/ StartFromSave \/ StartFromPart
           \/ Stop \/ Crash
  BY <1>1, <1>2 DEF StartFresh, StartFromSave, StartFromPart, Start, Stop, Crash, End
<1>3. CASE Callback
  BY <1>3
     DEF Callback, ConnectionStatus, FriendRequest, CommandAdd, CommandRemove,
         CommandPermission
<1>4. CASE Loop
  BY <1>4 DEF Loop, NoSave, BeginSave, Truncate, WritePart, CloseFile, Sleep, ram
<1>5. CASE UNCHANGED clientVars
  BY <1>5 DEF clientVars, ram
<1> QED
  BY <1>2, <1>3, <1>4, <1>5 DEF ClientNext

\* The tox client's state is of its type, whatever friends are added and
\* removed, crashes included: the friends of a save that is loaded are different
\* ones, and the save timer never runs past its end.
THEOREM ClientTypeCorrect == ClientSpec => []ClientTypeOK
<1>1. ClientInit => ClientTypes
  BY ClientTypesInit
<1>2. ClientTypes /\ [ClientNext]_clientVars => ClientTypes'
  BY FriendsOKStep, FileOKStep, LoopOKStep, PermsOKStep DEF ClientTypes
<1> QED
  BY <1>1, <1>2, ClientTypesMean, PTL DEF ClientSpec

-----------------------------------------------------------------------------
(* What a crash does not take *)

\* While the callbacks run and between two iterations the save file is whole,
\* and but for what makes it dirty it has everybody who was accepted.
Kept ==
    /\ process \in {"iterating", "asleep"} =>
        /\ file.kind = "whole" /\ file.identity = identity
        /\ ~dirty => accepted \subseteq Range(file.keys)
    /\ process \in {"saving", "writing", "asleep"} => ~dirty

LEMMA KeptClientStep ==
    ASSUME FriendsOK, FileOK, Kept, [ClientNext]_clientVars
    PROVE  Kept'
<1> USE DEF Kept
<1>1. CASE StartFresh \/ StartFromSave \/ StartFromPart
  BY <1>1 DEF StartFresh, StartFromSave, StartFromPart, Start
<1>2. CASE Stop \/ Crash
  BY <1>2 DEF Stop, Crash, End
<1>3. CASE Callback
  <2>1. /\ process = "iterating" /\ UNCHANGED <<process, identity, file>>
        /\ \/ accepted' \subseteq accepted /\ dirty' = dirty
           \/ dirty' = TRUE
    BY <1>3
       DEF Callback, ConnectionStatus, FriendRequest, CommandAdd, CommandRemove,
           CommandPermission
  <2> QED
    BY <2>1
<1>4. CASE NoSave
  BY <1>4 DEF NoSave, ram
<1>5. CASE BeginSave
  BY <1>5 DEF BeginSave
<1>6. CASE Truncate \/ WritePart
  BY <1>6 DEF Truncate, WritePart, ram
<1>7. CASE CloseFile
  <2>1. file' = [kind |-> "whole", identity |-> identity, keys |-> InOrder(friends)]
    BY <1>7 DEF CloseFile, Savedata
  <2>2. accepted \subseteq Range(InOrder(friends))
    BY SavedFriends DEF FriendsOK
  <2> QED
    BY <1>7, <2>1, <2>2 DEF CloseFile, ram
<1>8. CASE Sleep
  BY <1>8 DEF Sleep
<1>9. CASE UNCHANGED clientVars
  BY <1>9 DEF clientVars, ram
<1> QED
  BY <1>1, <1>2, <1>3, <1>4, <1>5, <1>6, <1>7, <1>8, <1>9 DEF ClientNext, Loop

\* Unless a crash tore a save, both the process and the file have the identity
\* that was made first, and after any end there is a file that has it.
Lasts ==
    /\ process # "down" => born
    /\ ~torn =>
        /\ identity \in {"none", "first"} /\ file.identity \in {"none", "first"}
        /\ process = "down" /\ born => file.kind = "whole"

LEMMA LastsStep ==
    ASSUME FileOK, LoopOK, Kept, Lasts, [ClientNext]_clientVars
    PROVE  Lasts'
<1> USE DEF Lasts
<1>1. CASE StartFresh
  BY <1>1 DEF StartFresh, Start
<1>2. CASE StartFromSave \/ StartFromPart
  BY <1>2 DEF StartFromSave, StartFromPart, Start
<1>3. CASE Stop
  BY <1>3 DEF Stop, End, Kept
<1>4. CASE Crash
  <2>1. ~torn' => file.kind = "whole"
    BY <1>4 DEF Crash, Kept, LoopOK
  <2> QED
    BY <1>4, <2>1 DEF Crash, End
<1>5. CASE Callback
  <2>1. process = "iterating" /\ UNCHANGED <<process, identity, file, born, torn>>
    BY <1>5
       DEF Callback, ConnectionStatus, FriendRequest, CommandAdd, CommandRemove,
           CommandPermission, history
  <2> QED
    BY <2>1
<1>6. CASE NoSave \/ BeginSave \/ Sleep
  BY <1>6 DEF NoSave, BeginSave, Sleep, ram, history
<1>7. CASE Truncate \/ WritePart \/ CloseFile
  <2>1. /\ process \in {"saving", "writing"} /\ process' # "down"
        /\ UNCHANGED <<identity, born, torn>>
    BY <1>7 DEF Truncate, WritePart, CloseFile, ram, history
  <2>2. file'.identity \in {"none", identity}
    <3>1. CASE Truncate
      <4>1. file' = [kind |-> "empty", identity |-> "none", keys |-> << >>]
        BY <3>1 DEF Truncate, Absent
      <4> QED
        BY <4>1
    <3>2. CASE WritePart
      <4>1. file' = [kind |-> "partial", identity |-> identity, keys |-> << >>]
        BY <3>2 DEF WritePart, Savedata
      <4> QED
        BY <4>1
    <3>3. CASE CloseFile
      BY <3>3 DEF CloseFile, Savedata
    <3> QED
      BY <1>7, <3>1, <3>2, <3>3
  <2> QED
    BY <2>1, <2>2
<1>8. CASE UNCHANGED clientVars
  BY <1>8 DEF clientVars, ram, history
<1> QED
  BY <1>1, <1>2, <1>3, <1>4, <1>5, <1>6, <1>7, <1>8 DEF ClientNext, Loop

LEMMA ClientKeeps == ClientSpec => [](ClientTypes /\ Kept /\ Lasts)
<1>1. ClientInit => ClientTypes
  BY ClientTypesInit
<1>2. ClientInit => Kept /\ Lasts
  BY DEF ClientInit, Absent, Kept, Lasts
<1>3. ClientTypes /\ Kept /\ Lasts /\ [ClientNext]_clientVars
        => (ClientTypes /\ Kept /\ Lasts)'
  BY FriendsOKStep, FileOKStep, LoopOKStep, PermsOKStep, KeptClientStep, LastsStep
     DEF ClientTypes
<1> QED
  BY <1>1, <1>2, <1>3, PTL DEF ClientSpec

\* A process runs under the identity its friends know over every crash and
\* restart, as long as no crash comes upon a save.
THEOREM ClientIdentityLasts == ClientSpec => []IdentityLasts
<1>1. Lasts => IdentityLasts
  BY DEF Lasts, IdentityLasts
<1> QED
  BY <1>1, ClientKeeps, PTL

\* No accepted friend request is lost by a crash between two iterations.
THEOREM ClientRequestsPersist == ClientSpec => []RequestsPersist
<1>1. Kept => RequestsPersist
  BY DEF Kept, RequestsPersist
<1> QED
  BY <1>1, ClientKeeps, PTL

-----------------------------------------------------------------------------
(* Permissions *)

\* Without a process there are no friends, and their permissions are those of
\* a new one: a start gives and takes none.
DownIsNew ==
    process = "down" => friends = NoFriends /\ perms = FirstIsAdmin

LEMMA DownIsNewStep == DownIsNew /\ [ClientNext]_clientVars => DownIsNew'
<1> SUFFICES ASSUME DownIsNew, [ClientNext]_clientVars PROVE DownIsNew'
  OBVIOUS
<1> USE DEF DownIsNew
<1>1. CASE Stop \/ Crash
  BY <1>1 DEF Stop, Crash, End, FirstIsAdmin, ADMIN, USER
<1>2. CASE StartFresh \/ StartFromSave \/ StartFromPart
  BY <1>2 DEF StartFresh, StartFromSave, StartFromPart, Start
<1>3. CASE Callback
  BY <1>3
     DEF Callback, ConnectionStatus, FriendRequest, CommandAdd, CommandRemove,
         CommandPermission
<1>4. CASE Loop
  BY <1>4 DEF Loop, NoSave, BeginSave, Truncate, WritePart, CloseFile, Sleep
<1>5. CASE UNCHANGED clientVars
  BY <1>5 DEF clientVars, ram
<1> QED
  BY <1>1, <1>2, <1>3, <1>4, <1>5 DEF ClientNext

\* What a step of AdminsOnly may do
Harmless ==
    \/ process' = "down"
    \/ perms' = perms /\ Range(friends) \subseteq Range(friends')

LEMMA OnlyAdminsHarm ==
    ASSUME FriendsOK, PermsOK, FileOK, DownIsNew, ClientNext,
           ~ \E n \in DOMAIN friends : perms[n] = ADMIN
    PROVE  Harmless
<1> USE DEF Harmless
<1>1. CASE StartFresh \/ StartFromSave \/ StartFromPart
  <2>1. Range(NoFriends) = {}
    BY DEF NoFriends, Range
  <2> QED
    BY <1>1, <2>1 DEF StartFresh, StartFromSave, StartFromPart, Start, DownIsNew
<1>2. CASE Stop \/ Crash
  BY <1>2 DEF Stop, Crash, End
<1>3. \A n : ~ May(n)
  <2> SUFFICES ASSUME NEW n \in DOMAIN friends PROVE ~ (perms[n] >= ADMIN)
    BY DEF May
  <2>1. n \in Numbers
    BY MapIs DEF FriendsOK, IsFriends
  <2>2. perms[n] \in Levels
    BY <2>1 DEF PermsOK
  <2> QED
    BY <2>2 DEF Levels, NONE, ADMIN
<1>4. ASSUME NEW n, NEW k,
             CommandAdd(n, k) \/ CommandRemove(n, k)
                \/ \E level : CommandPermission(n, k, level)
      PROVE  FALSE
  BY <1>3, <1>4 DEF CommandAdd, CommandRemove, CommandPermission
<1>5. ASSUME NEW k \in Keys, FriendRequest(k) PROVE Harmless
  <2>1. friends' = AddFriend(friends, k) /\ perms' = perms
    BY <1>5 DEF FriendRequest
  <2>2. Range(friends) \subseteq Range(friends')
    <3>1. CASE k \in Range(friends)
      BY <2>1, <3>1 DEF AddFriend
    <3>2. CASE k \notin Range(friends)
      BY <2>1, <3>2, BefriendFriends DEF FriendsOK
    <3> QED
      BY <3>1, <3>2
  <2> QED
    BY <2>1, <2>2
<1>6. CASE ConnectionStatus \/ Loop
  BY <1>6
     DEF ConnectionStatus, Loop, NoSave, BeginSave, Truncate, WritePart, CloseFile, Sleep,
         ram
<1> QED
  BY <1>1, <1>2, <1>4, <1>5, <1>6 DEF ClientNext, Callback

\* While none of the friends is an admin, no step of the process removes a
\* friend or changes a permission.
THEOREM ClientAdminsOnly == ClientSpec => AdminsOnly
<1>1. ClientInit => ClientTypes
  BY ClientTypesInit
<1>2. ClientInit => DownIsNew
  BY DEF ClientInit, DownIsNew
<1>3. ClientTypes /\ DownIsNew /\ [ClientNext]_clientVars => (ClientTypes /\ DownIsNew)'
  BY FriendsOKStep, FileOKStep, LoopOKStep, PermsOKStep, DownIsNewStep DEF ClientTypes
<1>4. ClientTypes /\ DownIsNew /\ ClientNext
        => ((~ \E n \in DOMAIN friends : perms[n] = ADMIN)
            => process' = "down"
               \/ (perms' = perms /\ Range(friends) \subseteq Range(friends')))
  BY OnlyAdminsHarm DEF ClientTypes, Harmless
<1> QED
  BY <1>1, <1>2, <1>3, <1>4, PTL DEF ClientSpec, AdminsOnly

=============================================================================
