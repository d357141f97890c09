--------------------------- MODULE Announce_proofs ---------------------------
(***************************************************************************)
(* The rotation of the torrents, for any number of friends and torrents.   *)
(*                                                                         *)
(* Whoever is passed over by a package keeps behind it, in time, the ones  *)
(* that were in it and all that were behind it before: Batch more with     *)
(* every package.  So it is passed over no more often than the timers of   *)
(* its friend can be divided into packages.                                *)
(***************************************************************************)
EXTENDS Announce, FiniteSetTheorems, TLAPS

\* The timers that are behind that of e
Behind(tm, e) == {u \in DOMAIN tm : tm[u] < tm[e]}

\* passed over k times, as far as the timers tell
PassedOver(tm, t, k) ==
    IF t \in DOMAIN tm THEN Batch * k <= Cardinality(Behind(tm, t)) ELSE k = 0

BehindPassed ==
    \A f \in Friends, t \in Torrents : PassedOver(times[f], t, passed[f][t])

\* Timers of torrents without hash come from announces without one.
NoSlots == hashless = 0 => \A f \in Friends : DOMAIN times[f] \cap Slots = {}

IInv == TypeOK /\ BehindPassed /\ NoSlots

-----------------------------------------------------------------------------
(* Arithmetic and finite sets *)

LEMMA PrioPositive == Prio \in Nat \ {0}
<1>1. Cardinality(Torrents) \in Nat
  BY AnnounceAssumption, FS_CardinalityType
<1>2. Batch * 0 = 0
  BY AnnounceAssumption
<1> QED
  BY <1>1, <1>2, AnnounceAssumption

LEMMA TimersFinite ==
    ASSUME TypeOK, NEW f \in Friends
    PROVE  IsFiniteSet(DOMAIN times[f]) /\ Cardinality(DOMAIN times[f]) \in Nat
<1>1. IsFiniteSet(Torrents) /\ IsFiniteSet(Slots)
  BY AnnounceAssumption, FS_Interval DEF Slots
<1>2. IsFiniteSet(Torrents \cup Slots)
  BY <1>1, FS_Union
<1>3. DOMAIN times[f] \in SUBSET (Torrents \cup Slots)
  BY DEF TypeOK
<1> QED
  BY <1>2, <1>3, FS_Subset, FS_CardinalityType

\* One more is passed over than is behind.
LEMMA BehindIsLess ==
    ASSUME NEW D, IsFiniteSet(D), NEW tm \in [D -> Nat], NEW e \in D
    PROVE  Cardinality(Behind(tm, e)) < Cardinality(D)
<1>1. Behind(tm, e) \in SUBSET D /\ e \notin Behind(tm, e)
  BY DEF Behind
<1>2. Behind(tm, e) # D
  BY <1>1
<1>3. Cardinality(Behind(tm, e)) <= Cardinality(D)
      /\ Cardinality(Behind(tm, e)) # Cardinality(D)
  BY <1>1, <1>2, FS_Subset
<1>4. Cardinality(Behind(tm, e)) \in Nat /\ Cardinality(D) \in Nat
  BY <1>1, FS_Subset, FS_CardinalityType
<1> QED
  BY <1>3, <1>4

\* What a package does to the timers: all of them advance, new ones come, and
\* the S that are in the package go back to 0.
Advanced(tm, up, S, next) ==
    /\ tm \in [DOMAIN tm -> Nat] /\ DOMAIN tm \subseteq DOMAIN up
    /\ up \in [DOMAIN up -> Nat \ {0}] /\ IsFiniteSet(DOMAIN up)
    /\ \A e \in DOMAIN tm : up[e] = tm[e] + 1
    /\ S \in Highest(up)
    /\ DOMAIN next = DOMAIN up /\ next \in [DOMAIN up -> Nat]
    /\ \A e \in DOMAIN up : next[e] = IF e \in S THEN 0 ELSE up[e]

LEMMA Rotated ==
    ASSUME NEW tm, NEW up, NEW S, NEW next, Advanced(tm, up, S, next),
           NEW t \in DOMAIN up \ S, NEW k \in Nat, PassedOver(tm, t, k)
    PROVE  PassedOver(next, t, k + 1)
<1> DEFINE D == DOMAIN tm
           E == DOMAIN up
<1> USE DEF Advanced, PassedOver
<1> DEFINE old == IF t \in D THEN Behind(tm, t) ELSE {}
<1>1. /\ S \in SUBSET E /\ Cardinality(S) = BatchSize(up)
      /\ \A e \in S, u \in E \ S : up[e] >= up[u]
  BY DEF Highest
<1>2. IsFiniteSet(S) /\ Cardinality(S) \in Nat /\ Cardinality(E) \in Nat
  BY <1>1, FS_Subset, FS_CardinalityType
<1>3. Cardinality(S) = Batch
  <2>1. S # E
    OBVIOUS
  <2>2. Cardinality(S) # Cardinality(E)
    BY <1>1, <2>1, FS_Subset
  <2> QED
    BY <1>1, <2>2 DEF BatchSize
<1>4. old \in SUBSET D /\ old \in SUBSET E
  BY DEF Behind
<1>5. IsFiniteSet(old) /\ Cardinality(old) \in Nat
  BY <1>4, FS_Subset, FS_CardinalityType
<1>6. Batch * k <= Cardinality(old)
  <2>1. CASE t \in D
    BY <2>1
  <2>2. CASE t \notin D
    BY <2>2, FS_EmptySet, AnnounceAssumption
  <2> QED
    BY <2>1, <2>2
<1>7. ASSUME NEW u \in old PROVE u \in D /\ t \in D /\ up[u] < up[t]
  <2>1. u \in D /\ t \in D /\ tm[u] < tm[t]
    BY <1>7 DEF Behind
  <2> QED
    BY <2>1
<1>8. old \cap S = {}
  <2> SUFFICES ASSUME NEW u \in old, u \in S PROVE FALSE
    OBVIOUS
  <2>1. up[u] < up[t] /\ up[u] >= up[t] /\ up[u] \in Nat /\ up[t] \in Nat
    BY <1>1, <1>7
  <2> QED
    BY <2>1
<1>9. old \cup S \in SUBSET Behind(next, t)
  <2>1. next[t] = up[t] /\ up[t] \in Nat \ {0}
    OBVIOUS
  <2>2. ASSUME NEW u \in S PROVE next[u] < next[t]
    BY <1>1, <2>1
  <2>3. ASSUME NEW u \in old PROVE next[u] < next[t]
    <3>1. u \in E /\ next[u] = up[u] /\ up[u] < up[t]
      BY <1>4, <1>7, <1>8
    <3> QED
      BY <2>1, <3>1
  <2> HIDE DEF old
  <2> QED
    BY <1>1, <1>4, <2>2, <2>3 DEF Behind
<1> HIDE DEF old
<1>10. Cardinality(old \cup S) = Cardinality(old) + Batch
  <2>1. Cardinality(old \cup S) =
          Cardinality(old) + Cardinality(S) - Cardinality(old \cap S)
    BY <1>2, <1>5, FS_Union
  <2>2. Cardinality(old \cap S) = 0
    BY <1>8, FS_EmptySet
  <2> QED
    BY <1>2, <1>3, <1>5, <2>1, <2>2
<1>11. IsFiniteSet(Behind(next, t)) /\ Cardinality(Behind(next, t)) \in Nat
       /\ Cardinality(old \cup S) <= Cardinality(Behind(next, t))
  <2>1. Behind(next, t) \in SUBSET E
    BY DEF Behind
  <2>2. IsFiniteSet(Behind(next, t))
    BY <2>1, FS_Subset
  <2> QED
    BY <1>9, <2>2, FS_Subset, FS_CardinalityType
<1>12. Batch * (k + 1) = Batch * k + Batch
  BY AnnounceAssumption
<1> QED
  BY <1>5, <1>6, <1>10, <1>11, <1>12, AnnounceAssumption

-----------------------------------------------------------------------------
(* The step that does it *)

LEMMA UpdatedIs ==
    ASSUME TypeOK, NEW f \in Friends, NewSlots(f) \subseteq Slots
    PROVE  /\ DOMAIN Updated(f) = DOMAIN times[f] \cup self \cup NewSlots(f)
           /\ DOMAIN Updated(f) \subseteq self \cup Slots
           /\ IsFiniteSet(DOMAIN Updated(f))
           /\ times[f] \in [DOMAIN times[f] -> Nat]
           /\ Updated(f) \in [DOMAIN Updated(f) -> Nat \ {0}]
           /\ \A e \in DOMAIN times[f] : Updated(f)[e] = times[f][e] + 1
           /\ \A e \in DOMAIN Updated(f) \ DOMAIN times[f] : Updated(f)[e] = Prio
<1> DEFINE E == DOMAIN times[f] \cup self \cup NewSlots(f)
<1>1. times[f] \in [DOMAIN times[f] -> Nat] /\ DOMAIN times[f] \subseteq self \cup Slots
  BY DEF TypeOK
<1>2. E \subseteq self \cup Slots
  BY <1>1
<1>3. IsFiniteSet(E)
  <2>1. IsFiniteSet(Torrents) /\ IsFiniteSet(Slots)
    BY AnnounceAssumption, FS_Interval DEF Slots
  <2>2. IsFiniteSet(Torrents \cup Slots)
    BY <2>1, FS_Union
  <2>3. E \in SUBSET (Torrents \cup Slots)
    BY <1>2 DEF TypeOK
  <2> QED
    BY <2>2, <2>3, FS_Subset
<1>4. Updated(f) = [e \in E |-> IF e \in DOMAIN times[f] THEN times[f][e] + 1 ELSE Prio]
  BY DEF Updated
<1> HIDE DEF E
<1>5. DOMAIN times[f] \subseteq E
  BY DEF E
<1>6. \A e \in E : Updated(f)[e] \in Nat \ {0}
  BY <1>1, <1>4, PrioPositive
<1>7. DOMAIN Updated(f) = E /\ Updated(f) \in [E -> Nat \ {0}]
  BY <1>4, <1>6
<1> QED
  BY <1>1, <1>2, <1>3, <1>4, <1>5, <1>7 DEF E

\* Everything AnnounceTo(f, sent) does to the timers of f
Announced(f, S) ==
    /\ S \in Highest(Updated(f))
    /\ times' = [times EXCEPT ![f] =
            [e \in DOMAIN Updated(f) |-> IF e \in S THEN 0 ELSE Updated(f)[e]]]
    /\ passed' = [passed EXCEPT ![f] =
            [t \in Torrents |-> IF t \in self \ S THEN passed[f][t] + 1 ELSE 0]]
    /\ UNCHANGED <<self, hashless>>
    /\ NewSlots(f) \subseteq Slots

LEMMA AnnounceToIs ==
    ASSUME NEW f \in Friends, NEW sent \in BOOLEAN, TypeOK, AnnounceTo(f, sent)
    PROVE  /\ \E S \in SUBSET DOMAIN Updated(f) : Announced(f, S)
           /\ UNCHANGED <<conn, compatible, self, hashless>>
           /\ timer' = [timer EXCEPT ![f] = 0] /\ todo' = todo \ {f}
           /\ learned' \in [Friends -> SUBSET Torrents]
<1>1. PICK S \in Highest(Updated(f)) :
         /\ times' = [times EXCEPT ![f] =
                [e \in DOMAIN Updated(f) |-> IF e \in S THEN 0 ELSE Updated(f)[e]]]
         /\ passed' = [passed EXCEPT ![f] =
                [t \in Torrents |-> IF t \in self \ S THEN @[t] + 1 ELSE 0]]
         /\ learned' = IF sent
                       THEN [learned EXCEPT ![f] = @ \cup (S \cap Torrents)]
                       ELSE learned
  BY DEF AnnounceTo
<1>2. S \in SUBSET DOMAIN Updated(f)
  BY DEF Highest
<1>3. learned' \in [Friends -> SUBSET Torrents]
  BY <1>1 DEF TypeOK
<1> QED
  BY <1>1, <1>2, <1>3 DEF AnnounceTo, Announced, Due

LEMMA AfterAnnounce ==
    ASSUME TypeOK, NEW f \in Friends, NEW S \in SUBSET DOMAIN Updated(f), Announced(f, S)
    PROVE  /\ DOMAIN times' = Friends /\ DOMAIN times'[f] = DOMAIN Updated(f)
           /\ times'[f] \in [DOMAIN Updated(f) -> Nat]
           /\ \A e \in DOMAIN Updated(f) :
                times'[f][e] = IF e \in S THEN 0 ELSE Updated(f)[e]
           /\ passed' \in [Friends -> [Torrents -> Nat]]
           /\ \A t \in Torrents :
                passed'[f][t] = IF t \in self \ S THEN passed[f][t] + 1 ELSE 0
           /\ \A g \in Friends \ {f} : times'[g] = times[g] /\ passed'[g] = passed[g]
<1> DEFINE E == DOMAIN Updated(f)
           next == [e \in E |-> IF e \in S THEN 0 ELSE Updated(f)[e]]
           more == [t \in Torrents |-> IF t \in self \ S THEN passed[f][t] + 1 ELSE 0]
<1>1. /\ times' = [times EXCEPT ![f] = next] /\ passed' = [passed EXCEPT ![f] = more]
      /\ NewSlots(f) \subseteq Slots
  BY DEF Announced
<1>2. /\ DOMAIN times = Friends
      /\ passed \in [Friends -> [Torrents -> Nat]]
  BY DEF TypeOK
<1>3. Updated(f) \in [E -> Nat \ {0}]
  BY <1>1, UpdatedIs
<1>4. next \in [E -> Nat]
  BY <1>3
<1>5. more \in [Torrents -> Nat]
  BY <1>2
<1>6. /\ DOMAIN next = E /\ \A e \in E : next[e] = IF e \in S THEN 0 ELSE Updated(f)[e]
      /\ \A t \in Torrents : more[t] = IF t \in self \ S THEN passed[f][t] + 1 ELSE 0
  OBVIOUS
<1> HIDE DEF next, more
<1>7. times'[f] = next /\ passed'[f] = more /\ DOMAIN times' = Friends
      /\ \A g \in Friends \ {f} : times'[g] = times[g] /\ passed'[g] = passed[g]
  BY <1>1, <1>2
<1>8. passed' \in [Friends -> [Torrents -> Nat]]
  BY <1>1, <1>2, <1>5
<1> QED
  BY <1>4, <1>6, <1>7, <1>8

-----------------------------------------------------------------------------
(* The invariant *)

LEMMA TypeInit == Init => TypeOK
<1> SUFFICES ASSUME Init PROVE TypeOK
  OBVIOUS
<1>1. timer \in [Friends -> 0 .. Interval - 1] /\ hashless \in 0 .. MaxHashless
  BY AnnounceAssumption DEF Init
<1>2. \A f \in Friends : DOMAIN times[f] = {} /\ times[f] \in [DOMAIN times[f] -> Nat]
  BY DEF Init
<1>3. DOMAIN times = Friends /\ passed \in [Friends -> [Torrents -> Nat]]
      /\ learned \in [Friends -> SUBSET Torrents]
  BY DEF Init
<1> QED
  BY <1>1, <1>2, <1>3 DEF Init, TypeOK

LEMMA TypeStep == TypeOK /\ [Next]_vars => TypeOK'
<1> SUFFICES ASSUME TypeOK, [Next]_vars PROVE TypeOK'
  OBVIOUS
<1> USE DEF TypeOK, Eligible
<1>1. ASSUME NEW f \in Friends, FriendOnline(f) PROVE TypeOK'
  BY <1>1 DEF FriendOnline
<1>2. ASSUME NEW f \in Friends, FriendOffline(f) PROVE TypeOK'
  BY <1>2 DEF FriendOffline
<1>3. ASSUME NEW f \in Friends, NEW comp \in {"no", "yes"}, NegotiateAnswer(f, comp)
      PROVE  TypeOK'
  BY <1>3 DEF NegotiateAnswer
<1>4. ASSUME NEW f \in Friends, Count(f) PROVE TypeOK'
  <2>1. timer' \in [Friends -> 0 .. Interval - 1]
    BY <1>4, AnnounceAssumption DEF Count
  <2> QED
    BY <1>4, <2>1 DEF Count
<1>5. ASSUME NEW f \in Friends, NothingToAnnounce(f) PROVE TypeOK'
  <2>1. timer' \in [Friends -> 0 .. Interval - 1]
    BY <1>5, AnnounceAssumption DEF NothingToAnnounce, Due
  <2> QED
    BY <1>5, <2>1 DEF NothingToAnnounce, Due
<1>6. ASSUME NEW f \in Friends, NEW sent \in BOOLEAN, AnnounceTo(f, sent) PROVE TypeOK'
  <2>1. /\ UNCHANGED <<conn, compatible, self, hashless>>
        /\ timer' = [timer EXCEPT ![f] = 0] /\ todo' = todo \ {f}
        /\ learned' \in [Friends -> SUBSET Torrents]
    BY <1>6, AnnounceToIs
  <2>2. timer' \in [Friends -> 0 .. Interval - 1]
    BY <2>1, AnnounceAssumption
  <2>3. PICK S \in SUBSET DOMAIN Updated(f) : Announced(f, S)
    BY <1>6, AnnounceToIs
  <2>4. /\ DOMAIN times' = Friends
        /\ times'[f] \in [DOMAIN Updated(f) -> Nat] /\ DOMAIN times'[f] = DOMAIN Updated(f)
        /\ passed' \in [Friends -> [Torrents -> Nat]]
        /\ \A g \in Friends \ {f} : times'[g] = times[g]
    BY <2>3, AfterAnnounce
  <2>5. DOMAIN Updated(f) \subseteq self \cup Slots
    BY <2>3, UpdatedIs DEF Announced
  <2>6. \A g \in Friends : /\ DOMAIN times'[g] \subseteq self' \cup Slots
                           /\ times'[g] \in [DOMAIN times'[g] -> Nat]
    BY <2>1, <2>4, <2>5
  <2> QED
    BY <2>1, <2>2, <2>4, <2>6
<1>7. ASSUME NEW t \in Torrents, HttpAnnounce(t) PROVE TypeOK'
  BY <1>7 DEF HttpAnnounce
<1>8. CASE HttpAnnounceInvalid
  BY <1>8, AnnounceAssumption DEF HttpAnnounceInvalid
<1>9. CASE BeginTick
  BY <1>9 DEF BeginTick
<1>10. CASE UNCHANGED vars
  BY <1>10 DEF vars
<1> QED
  BY <1>1, <1>2, <1>3, <1>4, <1>5, <1>6, <1>7, <1>8, <1>9, <1>10 DEF Next, VisitFriend

\* The types of the variables; during a tick, whoever it has yet to visit
\* stays online and compatible.
THEOREM TypeCorrect == Spec => []TypeOK
  BY TypeInit, TypeStep, PTL DEF Spec

\* All other steps leave the timers alone.
LEMMA Kinds ==
    ASSUME [Next]_vars
    PROVE  \/ UNCHANGED <<times, passed>> /\ self \subseteq self'
              /\ (hashless' = hashless \/ HttpAnnounceInvalid)
           \/ \E f \in Friends, sent \in BOOLEAN : AnnounceTo(f, sent)
  BY DEF Next, vars, FriendOnline, FriendOffline, NegotiateAnswer, VisitFriend, Count,
     NothingToAnnounce, HttpAnnounce, HttpAnnounceInvalid, BeginTick

LEMMA SlotsStep == TypeOK /\ NoSlots /\ [Next]_vars => NoSlots'
<1> SUFFICES ASSUME TypeOK, NoSlots, [Next]_vars PROVE NoSlots'
  OBVIOUS
<1>1. CASE UNCHANGED times /\ (hashless' = hashless \/ HttpAnnounceInvalid)
  <2>1. HttpAnnounceInvalid => hashless' # 0
    BY DEF HttpAnnounceInvalid, TypeOK
  <2> QED
    BY <1>1, <2>1 DEF NoSlots
<1>2. ASSUME NEW f \in Friends, NEW sent \in BOOLEAN, AnnounceTo(f, sent) PROVE NoSlots'
  <2>1. PICK S \in SUBSET DOMAIN Updated(f) : Announced(f, S)
    BY <1>2, AnnounceToIs
  <2>2. hashless' = hashless /\ NewSlots(f) \subseteq Slots
    BY <2>1 DEF Announced
  <2> SUFFICES ASSUME hashless = 0, NEW g \in Friends
               PROVE  DOMAIN times'[g] \cap Slots = {}
    BY <2>2 DEF NoSlots
  <2>3. NewSlots(f) = {}
    <3>1. DOMAIN times[f] \cap Slots = {}
      BY DEF NoSlots
    <3>2. Cardinality(DOMAIN times[f] \cap Slots) = 0
      BY <3>1, FS_EmptySet
    <3> QED
      BY <3>2 DEF NewSlots
  <2>4. DOMAIN Updated(f) \cap Slots = {}
    BY <2>2, <2>3, UpdatedIs, AnnounceAssumption DEF NoSlots, TypeOK
  <2>5. DOMAIN times'[g] = DOMAIN Updated(f) \/ times'[g] = times[g]
    BY <2>1, AfterAnnounce
  <2> QED
    BY <2>4, <2>5 DEF NoSlots
<1> QED
  BY <1>1, <1>2, Kinds

LEMMA BehindStep == TypeOK /\ BehindPassed /\ [Next]_vars => BehindPassed'
<1> SUFFICES ASSUME TypeOK, BehindPassed, [Next]_vars,
                    NEW g \in Friends, NEW t \in Torrents
             PROVE  PassedOver(times'[g], t, passed'[g][t])
  BY DEF BehindPassed, PassedOver, Behind
<1>0. PassedOver(times[g], t, passed[g][t])
  BY DEF BehindPassed
<1>1. CASE UNCHANGED <<times, passed>>
  BY <1>0, <1>1
<1>2. ASSUME NEW f \in Friends, NEW sent \in BOOLEAN, AnnounceTo(f, sent)
      PROVE  PassedOver(times'[g], t, passed'[g][t])
  <2>1. PICK S \in SUBSET DOMAIN Updated(f) : Announced(f, S)
    BY <1>2, AnnounceToIs
  <2>2. S \in Highest(Updated(f)) /\ NewSlots(f) \subseteq Slots
    BY <2>1 DEF Announced
  <2>3. CASE g # f
    <3>1. times'[g] = times[g] /\ passed'[g] = passed[g]
      BY <2>1, <2>3, AfterAnnounce
    <3> QED
      BY <1>0, <3>1
  <2>4. CASE g = f
    <3>1. Advanced(times[f], Updated(f), S, times'[f])
      <4> DEFINE tm == times[f]
                 up == Updated(f)
                 next == times'[f]
      <4>1. /\ tm \in [DOMAIN tm -> Nat] /\ DOMAIN tm \subseteq DOMAIN up
            /\ up \in [DOMAIN up -> Nat \ {0}] /\ IsFiniteSet(DOMAIN up)
            /\ \A e \in DOMAIN tm : up[e] = tm[e] + 1
        BY <2>2, UpdatedIs
      <4>2. /\ DOMAIN next = DOMAIN up /\ next \in [DOMAIN up -> Nat]
            /\ \A e \in DOMAIN up : next[e] = IF e \in S THEN 0 ELSE up[e]
        BY <2>1, AfterAnnounce
      <4> HIDE DEF tm, up, next
      <4>3. Advanced(tm, up, S, next)
        BY <2>2, <4>1, <4>2 DEF Advanced, up
      <4> QED
        BY <4>3 DEF tm, up, next
    <3>2. passed'[f][t] = IF t \in self \ S THEN passed[f][t] + 1 ELSE 0
      BY <2>1, AfterAnnounce
    <3>3. CASE t \in self \ S
      <4>1. t \in DOMAIN Updated(f) \ S
        BY <2>2, <3>3, UpdatedIs
      <4>2. PassedOver(times'[f], t, passed[f][t] + 1)
        BY <1>0, <2>4, <3>1, <4>1, Rotated DEF TypeOK
      <4> QED
        BY <2>4, <3>2, <3>3, <4>2
    <3>4. CASE t \notin self \ S
      <4>1. Behind(times'[f], t) \in SUBSET DOMAIN Updated(f)
        BY <3>1 DEF Behind, Advanced
      <4>2. Cardinality(Behind(times'[f], t)) \in Nat
        BY <3>1, <4>1, FS_Subset, FS_CardinalityType DEF Advanced
      <4>3. Batch * 0 = 0
        BY AnnounceAssumption
      <4> QED
        BY <2>4, <3>2, <3>4, <4>2, <4>3 DEF PassedOver
    <3> QED
      BY <3>3, <3>4
  <2> QED
    BY <2>3, <2>4
<1> QED
  BY <1>1, <1>2, Kinds

LEMMA InitIInv == Init => IInv
<1> SUFFICES ASSUME Init PROVE IInv
  OBVIOUS
<1>1. \A f \in Friends : DOMAIN times[f] = {} /\ \A t \in Torrents : passed[f][t] = 0
  BY DEF Init
<1> QED
  BY <1>1, TypeInit DEF IInv, BehindPassed, PassedOver, NoSlots

LEMMA StepIInv == IInv /\ [Next]_vars => IInv'
BY TypeStep, SlotsStep, BehindStep DEF IInv

LEMMA Invariance == Spec => []IInv
  BY InitIInv, StepIInv, PTL DEF Spec

-----------------------------------------------------------------------------
(* What follows from it *)

LEMMA PassedLess ==
    ASSUME IInv, NEW f \in Friends, NEW t \in Torrents, t \in DOMAIN times[f]
    PROVE  Batch * passed[f][t] < Cardinality(DOMAIN times[f])
<1>1. IsFiniteSet(DOMAIN times[f]) /\ times[f] \in [DOMAIN times[f] -> Nat]
      /\ Cardinality(DOMAIN times[f]) \in Nat
  BY TimersFinite DEF IInv, TypeOK
<1>2. Cardinality(Behind(times[f], t)) < Cardinality(DOMAIN times[f])
  BY <1>1, BehindIsLess
<1>3. Batch * passed[f][t] <= Cardinality(Behind(times[f], t))
  BY DEF IInv, BehindPassed, PassedOver
<1>4. Batch * passed[f][t] \in Nat
  BY AnnounceAssumption DEF IInv, TypeOK
<1>5. Cardinality(Behind(times[f], t)) \in Nat
  <2>1. Behind(times[f], t) \in SUBSET DOMAIN times[f]
    BY DEF Behind
  <2> QED
    BY <1>1, <2>1, FS_Subset, FS_CardinalityType
<1> QED
  BY <1>1, <1>2, <1>3, <1>4, <1>5

LEMMA RotationFollows == IInv => RotationFair
<1> SUFFICES ASSUME IInv, hashless = 0, NEW f \in Friends, NEW t \in self
             PROVE  Batch * passed[f][t] < Cardinality(self)
  BY DEF RotationFair, PassedBound
<1>0. t \in Torrents /\ passed[f][t] \in Nat
  BY DEF IInv, TypeOK
<1>1. IsFiniteSet(self) /\ Cardinality(self) \in Nat /\ Cardinality(self) # 0
  <2>1. IsFiniteSet(Torrents) /\ self \in SUBSET Torrents
    BY AnnounceAssumption DEF IInv, TypeOK
  <2>2. IsFiniteSet(self)
    BY <2>1, FS_Subset
  <2> QED
    BY <2>2, FS_CardinalityType, FS_EmptySet
<1>2. CASE t \in DOMAIN times[f]
  <2>1. Batch * passed[f][t] < Cardinality(DOMAIN times[f])
    BY <1>0, <1>2, PassedLess
  <2>2. DOMAIN times[f] \in SUBSET self
    BY DEF IInv, TypeOK, NoSlots
  <2>3. Cardinality(DOMAIN times[f]) <= Cardinality(self)
        /\ Cardinality(DOMAIN times[f]) \in Nat
    BY <1>1, <2>2, FS_Subset, FS_CardinalityType
  <2>4. Batch * passed[f][t] \in Nat
    BY <1>0, AnnounceAssumption
  <2> QED
    BY <1>1, <2>1, <2>3, <2>4
<1>3. CASE t \notin DOMAIN times[f]
  <2>1. passed[f][t] = 0
    BY <1>0, <1>3 DEF IInv, BehindPassed, PassedOver
  <2>2. Batch * 0 = 0
    BY AnnounceAssumption
  <2> QED
    BY <1>1, <2>1, <2>2
<1> QED
  BY <1>2, <1>3

\* As long as every announce of the torrent client had a proper info hash, no
\* torrent is passed over by ToxExtAnnounce::tick more often than (n - 1) \div
\* Batch times in a row, where n torrents are shared, whatever the friends do
\* and however many new torrents, each of which overtakes it, come in between.
THEOREM RotationIsFair == Spec => []RotationFair
  BY Invariance, RotationFollows, PTL

BelowPrio == hashless = 0 => \A f \in Friends, t \in self : passed[f][t] < Prio

LEMMA PassedBelowPrio == IInv => BelowPrio
<1> SUFFICES ASSUME IInv, hashless = 0, NEW f \in Friends, NEW t \in self
             PROVE  passed[f][t] < Prio
  BY DEF BelowPrio
<1> DEFINE k == passed[f][t]
<1>1. k \in Nat /\ Prio \in Nat /\ Batch \in Nat \ {0}
  BY AnnounceAssumption DEF IInv, TypeOK
<1>2. Batch * k < Cardinality(self)
  BY RotationFollows DEF RotationFair, PassedBound
<1>3. Cardinality(self) <= Cardinality(Torrents) /\ Cardinality(Torrents) \in Nat
      /\ Cardinality(self) \in Nat
  <2>1. self \in SUBSET Torrents /\ IsFiniteSet(Torrents)
    BY AnnounceAssumption DEF IInv, TypeOK
  <2> QED
    BY <2>1, FS_Subset, FS_CardinalityType
<1>4. Batch * k < Batch * Prio
  <2>1. Batch * k \in Nat /\ Batch * Prio \in Nat
    BY <1>1
  <2> QED
    BY <1>2, <1>3, <2>1, AnnounceAssumption
<1> HIDE DEF k
<1>5. SUFFICES ASSUME Prio <= k PROVE FALSE
  BY <1>1 DEF k
<1>6. k - Prio \in Nat /\ Batch * (k - Prio) \in Nat
  BY <1>1, <1>5
<1>7. Batch * k = Batch * Prio + Batch * (k - Prio)
  BY <1>1
<1>8. Batch * k \in Nat /\ Batch * Prio \in Nat
  BY <1>1
<1> QED
  BY <1>4, <1>6, <1>7, <1>8

LEMMA TimesStep ==
    ASSUME IInv, IInv', BelowPrio', TimesTellPassed, [Next]_vars
    PROVE  TimesTellPassed'
<1> DEFINE Tells(time, count) ==
        time = IF time < Prio THEN count ELSE Prio + count - 1
<1> SUFFICES ASSUME hashless' = 0, NEW g \in Friends, NEW t \in self',
                    t \in DOMAIN times'[g]
             PROVE  Tells(times'[g][t], passed'[g][t])
  BY DEF TimesTellPassed
<1>0. /\ hashless = 0 /\ t \in Torrents
      /\ DOMAIN times[g] \subseteq self
      /\ Prio \in Nat \ {0}
  <2>1. hashless = 0
    BY Kinds DEF HttpAnnounceInvalid, AnnounceTo, IInv, TypeOK
  <2>2. t \in Torrents /\ DOMAIN times[g] \subseteq self \cup Slots
    BY DEF IInv, TypeOK
  <2> QED
    BY <2>1, <2>2, PrioPositive DEF IInv, NoSlots
<1>1. t \in DOMAIN times[g] => Tells(times[g][t], passed[g][t])
  BY <1>0 DEF TimesTellPassed
<1>2. CASE UNCHANGED <<times, passed>>
  BY <1>1, <1>2
<1>3. ASSUME NEW f \in Friends, NEW sent \in BOOLEAN, AnnounceTo(f, sent)
      PROVE  Tells(times'[g][t], passed'[g][t])
  <2>1. PICK S \in SUBSET DOMAIN Updated(f) : Announced(f, S)
    BY <1>3, AnnounceToIs DEF IInv
  <2>2. self' = self /\ NewSlots(f) \subseteq Slots
    BY <2>1 DEF Announced
  <2>3. CASE g # f
    <3>1. times'[g] = times[g] /\ passed'[g] = passed[g]
      BY <2>1, <2>3, AfterAnnounce DEF IInv
    <3> QED
      BY <1>1, <3>1
  <2>4. CASE g = f
    <3>1. /\ t \in DOMAIN Updated(f)
          /\ times'[f][t] = IF t \in S THEN 0 ELSE Updated(f)[t]
          /\ passed'[f][t] = IF t \in S THEN 0 ELSE passed[f][t] + 1
      BY <1>0, <2>1, <2>2, <2>4, AfterAnnounce DEF IInv
    <3>2. /\ t \in DOMAIN times[f] => Updated(f)[t] = times[f][t] + 1
                                      /\ times[f][t] \in Nat
          /\ t \notin DOMAIN times[f] => Updated(f)[t] = Prio
      BY <2>2, <3>1, UpdatedIs DEF IInv
    <3>3. passed[f][t] \in Nat
      BY <1>0 DEF IInv, TypeOK
    <3>4. CASE t \in S
      BY <1>0, <2>4, <3>1, <3>4
    <3>5. CASE t \notin S /\ t \notin DOMAIN times[f]
      <4>1. passed[f][t] = 0
        BY <1>0, <3>5 DEF IInv, BehindPassed, PassedOver
      <4> QED
        BY <1>0, <2>4, <3>1, <3>2, <3>5, <4>1
    <3>6. CASE t \notin S /\ t \in DOMAIN times[f]
      <4>1. passed'[f][t] < Prio
        BY <2>2, <2>4, <1>0 DEF BelowPrio
      <4>2. Tells(times[f][t], passed[f][t])
        BY <1>1, <2>4, <3>6
      <4> QED
        BY <1>0, <2>4, <3>1, <3>2, <3>3, <3>6, <4>1, <4>2
    <3> QED
      BY <3>4, <3>5, <3>6
  <2> QED
    BY <2>3, <2>4
<1> QED
  BY <1>2, <1>3, Kinds

\* The time a torrent's timer shows is the number of packages it was passed
\* over in, or initial_time and that number for one that is new to the friend;
\* what is added up never reaches initial_time, so a new one is ahead of all
\* others.
THEOREM TimesAlwaysTell == Spec => []TimesTellPassed
<1>1. Init => TimesTellPassed
  BY DEF Init, TimesTellPassed
<1>2. IInv /\ IInv' /\ BelowPrio' /\ TimesTellPassed /\ [Next]_vars => TimesTellPassed'
  BY TimesStep
<1> QED
  BY <1>1, <1>2, Invariance, PassedBelowPrio, PTL DEF Spec

=============================================================================
