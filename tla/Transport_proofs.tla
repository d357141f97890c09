-------------------------- MODULE Transport_proofs --------------------------
(***************************************************************************)
(* FragmentsOnce and BoundedDamage for any number of datagrams of any size  *)
(* and any number of copies of lossy packets.                              *)
(*                                                                         *)
(* Both look at the stream: what is in B's buffer and then what is on the  *)
(* way.  A seam is a place in it where fragments follow each other that    *)
(* did not when they were cut.  What breaks the stream makes one seam at   *)
(* most, and a datagram that is damaged takes at least one away.           *)
(***************************************************************************)
EXTENDS Transport, FiniteSetTheorems, SequenceTheorems,
        WellFoundedInduction, TLAPS

LargeFragments == {fragment \in Fragments : Large(fragment[1])}

Stream == buffer \o lossless

\* The fragments at p - 1 and p, or the beginning and the end of s, follow
\* each other: one ends a datagram and the other one begins one, or they
\* belong together.
Joined(s, p) ==
    \/ /\ p = 1 \/ IsLast(s[p - 1])
       /\ p = Len(s) + 1 \/ s[p][2] = 1
    \/ /\ p \in 2 .. Len(s)
       /\ s[p] = <<s[p - 1][1], s[p - 1][2] + 1>>

Seams(s) == {p \in 1 .. Len(s) + 1 : ~Joined(s, p)}

\* Where datagrams are, and the parts of the buffer and the stream
StreamOK ==
    /\ buffer \in Seq(LargeFragments) /\ lossless \in Seq(LargeFragments)
    /\ \A p \in DOMAIN buffer : ~IsLast(buffer[p])
    /\ ~connected => lossless = << >>

OnTheWay == {d \in Datagrams : lossy[d] > 0}

\* A datagram that is not cut up yet is at one place only.
Uncut == unsent \cup OnTheWay \cup {inbox[i] : i \in DOMAIN inbox}

OnePlace ==
    /\ \A i, j \in DOMAIN inbox : inbox[i] = inbox[j] => i = j
    /\ \A i \in DOMAIN inbox : inbox[i] \notin unsent \cup OnTheWay
    /\ unsent \cap OnTheWay = {}

Injective(s) == \A p, q \in DOMAIN s : s[p] = s[q] => p = q

Values(s) == {s[p] : p \in DOMAIN s}

LargeValues(s) == {x \in Values(s) : Large(x[1])}

OutValues == UNION {LargeValues(out[i]) : i \in DOMAIN out}

\* There are no fragments of it.
CutUp == \A x \in Values(Stream) \cup OutValues : x[1] \notin Uncut

\* A fragment is once in the stream, or once in what was handed on.
Once ==
    /\ Injective(Stream)
    /\ OutValues \cap Values(Stream) = {}
    /\ FragmentsOnce

\* Breaks that have not led to damage are still in the stream.
SeamsCounted == Cardinality(Damaged) + Cardinality(Seams(Stream)) <= breaks

IInv == TypeOK /\ StreamOK /\ OnePlace /\ CutUp /\ Once /\ SeamsCounted

-----------------------------------------------------------------------------
(* Fragments *)

\* Cutting up leaves one short fragment, the last one.
LEMMA Cut ==
    ASSUME NEW d \in Datagrams
    PROVE  /\ FragmentCount(d) \in Nat \ {0}
           /\ \A i \in 1 .. FragmentCount(d) - 1 : ~IsLast(<<d, i>>)
           /\ Large(d) => IsLast(<<d, FragmentCount(d)>>)
<1> DEFINE c == FragmentCount(d)
<1>1. Size[d] \in Nat \ {0} /\ FragMax \in Nat \ {0}
  BY TransportAssumption
<1>2. c \in Nat \ {0} /\ (c - 1) * FragMax < Size[d] /\ Size[d] <= c * FragMax
  BY <1>1 DEF FragmentCount
<1>3. \A i \in 1 .. c - 1 : i * FragMax <= Size[d]
  BY <1>1, <1>2
<1>4. Large(d) => c * FragMax # Size[d]
  <2>1. \A a \in Nat, b \in Nat \ {0} : (a * b) % b = 0
    OBVIOUS
  <2>2. (c * FragMax) % FragMax = 0
    BY <1>1, <1>2, <2>1
  <2> QED
    BY <2>2, TransportAssumption
<1> QED
  BY <1>1, <1>2, <1>3, <1>4 DEF IsLast, FragmentSize

LEMMA FragmentIs ==
    ASSUME NEW x \in LargeFragments
    PROVE  /\ x[1] \in Datagrams /\ Large(x[1])
           /\ x[2] \in 1 .. FragmentCount(x[1]) /\ FragmentCount(x[1]) \in Nat \ {0}
           /\ x = <<x[1], x[2]>>
           /\ IsLast(x) <=> x[2] = FragmentCount(x[1])
<1>0. PICK d \in Datagrams : (\E j \in 1 .. FragmentCount(d) : x = <<d, j>>) /\ Large(d)
  BY DEF LargeFragments, Fragments
<1>1. PICK i \in 1 .. FragmentCount(d) : x = <<d, i>> /\ Large(d)
  BY <1>0
<1>2. FragmentCount(d) \in Nat \ {0}
  BY Cut
<1>3. IsLast(<<d, i>>) <=> i = FragmentCount(d)
  <2>1. CASE i = FragmentCount(d)
    BY <1>1, <2>1, Cut
  <2>2. CASE i \in 1 .. FragmentCount(d) - 1
    <3>1. ~IsLast(<<d, i>>)
      BY <2>2, Cut
    <3>2. i # FragmentCount(d)
      BY <1>2, <2>2
    <3> QED
      BY <3>1, <3>2
  <2> QED
    BY <1>1, <1>2, <2>1, <2>2
<1> QED
  BY <1>1, <1>2, <1>3

LEMMA WholeIs ==
    ASSUME NEW d \in Datagrams
    PROVE  /\ Whole(d) \in Seq(Fragments) /\ Len(Whole(d)) = FragmentCount(d)
           /\ Large(d) => Whole(d) \in Seq(LargeFragments)
           /\ \A i \in 1 .. FragmentCount(d) : Whole(d)[i] = <<d, i>>
<1> DEFINE c == FragmentCount(d)
<1>1. c \in Nat \ {0}
  BY Cut
<1>2. \A i \in 1 .. c : <<d, i>> \in Fragments /\ (Large(d) => <<d, i>> \in LargeFragments)
  BY DEF Fragments, LargeFragments
<1> QED
  BY <1>1, <1>2 DEF Whole

-----------------------------------------------------------------------------
(* Seams *)

LEMMA SeamsFinite ==
    ASSUME NEW s \in Seq(LargeFragments)
    PROVE  IsFiniteSet(Seams(s)) /\ Cardinality(Seams(s)) \in Nat
<1>1. IsFiniteSet(1 .. Len(s) + 1)
  BY FS_Interval
<1> QED
  BY <1>1, FS_Subset, FS_CardinalityType DEF Seams

\* What can be mapped into a set, and a set to spare, is no larger.
LEMMA Mapped ==
    ASSUME NEW S, NEW T, IsFiniteSet(T), NEW f \in [S -> T],
           \A x, y \in S : f[x] = f[y] => x = y
    PROVE  IsFiniteSet(S) /\ Cardinality(S) <= Cardinality(T)
<1>1. f \in Injection(S, T)
  BY DEF Injection, IsInjective
<1> QED
  BY <1>1, FS_Injection

\* u is s with the first n fragments of d, all or not all of them, behind it.
Extended(s, d, n, u) ==
    /\ Len(u) = Len(s) + n
    /\ \A p \in 1 .. Len(s) : u[p] = s[p]
    /\ \A i \in 1 .. n : u[Len(s) + i] = <<d, i>>

LEMMA SeamsExtended ==
    ASSUME NEW s \in Seq(LargeFragments), NEW d \in Datagrams, Large(d),
           NEW n \in 1 .. FragmentCount(d), NEW u \in Seq(LargeFragments),
           Extended(s, d, n, u)
    PROVE  Cardinality(Seams(u)) <=
            Cardinality(Seams(s)) + (IF n = FragmentCount(d) THEN 0 ELSE 1)
<1>0. /\ Len(s) \in Nat /\ Len(u) = Len(s) + n /\ n \in Nat \ {0}
      /\ FragmentCount(d) \in Nat \ {0}
  <2>1. FragmentCount(d) \in Nat \ {0}
    BY Cut
  <2>2. Len(s) \in Nat /\ Len(u) = Len(s) + n
    BY LenProperties DEF Extended
  <2> QED
    BY <2>1, <2>2
<1>1. ASSUME NEW p \in 1 .. Len(s) + 1, Joined(s, p) PROVE Joined(u, p)
  <2>1. CASE p <= Len(s)
    <3>1. u[p] = s[p] /\ p \in 1 .. Len(u) /\ p # Len(u) + 1
      BY <1>0, <2>1 DEF Extended
    <3>2. p # 1 => u[p - 1] = s[p - 1]
      BY <1>0, <2>1 DEF Extended
    <3> QED
      BY <1>0, <1>1, <2>1, <3>1, <3>2 DEF Joined
  <2>2. CASE p = Len(s) + 1
    <3>1. u[p] = <<d, 1>> /\ p # Len(u) + 1
      BY <1>0, <2>2 DEF Extended
    <3>2. p # 1 => u[p - 1] = s[p - 1]
      BY <1>0, <2>2 DEF Extended
    <3> QED
      BY <1>0, <1>1, <2>2, <3>1, <3>2 DEF Joined
  <2> QED
    BY <1>0, <2>1, <2>2
<1>2. ASSUME NEW i \in 2 .. n PROVE Joined(u, Len(s) + i)
  <2>0. i - 1 \in 1 .. n /\ i \in 1 .. n
    BY <1>0
  <2>1. u[Len(s) + (i - 1)] = <<d, i - 1>> /\ u[Len(s) + i] = <<d, i>>
    BY <2>0 DEF Extended
  <2> QED
    BY <1>0, <2>1 DEF Joined
<1>3. n = FragmentCount(d) => Joined(u, Len(u) + 1)
  <2>1. u[Len(u)] = <<d, n>>
    BY <1>0 DEF Extended
  <2>2. n = FragmentCount(d) => IsLast(u[Len(u)])
    BY <2>1, Cut
  <2> QED
    BY <1>0, <2>2 DEF Joined
<1> DEFINE last == Len(u) + 1
<1>4. Seams(u) \subseteq Seams(s) \cup (IF n = FragmentCount(d) THEN {} ELSE {last})
  <2> SUFFICES ASSUME NEW p \in 1 .. Len(u) + 1, ~Joined(u, p),
                      p \notin Seams(s)
               PROVE  p = last /\ n # FragmentCount(d)
    BY DEF Seams
  <2>1. p \notin 1 .. Len(s) + 1
    BY <1>1 DEF Seams
  <2>2. p \notin Len(s) + 2 .. Len(u)
    <3>1. p \in Len(s) + 2 .. Len(u) => p - Len(s) \in 2 .. n /\ p = Len(s) + (p - Len(s))
      BY <1>0
    <3> QED
      BY <1>2, <3>1
  <2> QED
    <3>1. p = last
      BY <1>0, <2>1, <2>2
    <3> QED
      BY <1>3, <3>1
<1> HIDE DEF last
<1>5. IsFiniteSet(Seams(s)) /\ Cardinality(Seams(s)) \in Nat
  BY SeamsFinite
<1>6. /\ IsFiniteSet(Seams(s) \cup {last})
      /\ Cardinality(Seams(s) \cup {last}) <= Cardinality(Seams(s)) + 1
  <2>1. /\ IsFiniteSet(Seams(s) \cup {last})
        /\ Cardinality(Seams(s) \cup {last}) =
            IF last \in Seams(s) THEN Cardinality(Seams(s)) ELSE Cardinality(Seams(s)) + 1
    BY <1>5, FS_AddElement
  <2> QED
    BY <1>5, <2>1
<1>7. Cardinality(Seams(u)) \in Nat
  BY SeamsFinite
<1>8. CASE n = FragmentCount(d)
  <2>1. Seams(u) \in SUBSET Seams(s)
    BY <1>4, <1>8
  <2> QED
    BY <1>5, <1>8, <2>1, FS_Subset
<1>9. CASE n # FragmentCount(d)
  <2>1. Seams(u) \in SUBSET (Seams(s) \cup {last})
    BY <1>4, <1>9
  <2> QED
    BY <1>5, <1>6, <1>7, <1>9, <2>1, FS_Subset, FS_CardinalityType
<1> QED
  BY <1>8, <1>9

\* u is s without the fragment at q.
Dropped(s, q, u) ==
    /\ Len(u) = Len(s) - 1
    /\ \A p \in 1 .. q - 1 : u[p] = s[p]
    /\ \A p \in q .. Len(u) : u[p] = s[p + 1]

LEMMA SeamsDropped ==
    ASSUME NEW s \in Seq(LargeFragments), NEW q \in 1 .. Len(s),
           NEW u \in Seq(LargeFragments), Dropped(s, q, u)
    PROVE  Cardinality(Seams(u)) <= Cardinality(Seams(s)) + 1
<1>0. Len(s) \in Nat /\ Len(u) = Len(s) - 1 /\ q \in Nat \ {0}
  BY LenProperties DEF Dropped
<1>1. ASSUME NEW p \in 1 .. q - 1, Joined(s, p) PROVE Joined(u, p)
  <2>1. u[p] = s[p] /\ p \in 1 .. Len(u)
    BY <1>0 DEF Dropped
  <2>2. p # 1 => u[p - 1] = s[p - 1]
    BY <1>0 DEF Dropped
  <2> QED
    BY <1>0, <1>1, <2>1, <2>2 DEF Joined
<1>2. ASSUME NEW p \in q + 1 .. Len(u) + 1, Joined(s, p + 1) PROVE Joined(u, p)
  <2>1. p \in 1 .. Len(u) => u[p] = s[p + 1]
    BY <1>0 DEF Dropped
  <2>2. u[p - 1] = s[p]
    <3>1. p - 1 \in q .. Len(u)
      BY <1>0
    <3> QED
      BY <1>0, <3>1 DEF Dropped
  <2> QED
    BY <1>0, <1>2, <2>1, <2>2 DEF Joined
<1> DEFINE S == Seams(u) \ {q}
           f == [p \in S |-> IF p < q THEN p ELSE p + 1]
<1>3. IsFiniteSet(Seams(s)) /\ Cardinality(Seams(s)) \in Nat
  BY SeamsFinite
<1>4. IsFiniteSet(Seams(u)) /\ Cardinality(Seams(u)) \in Nat
  BY SeamsFinite
<1>5. S \in SUBSET Int
  BY DEF Seams
<1>6. f \in [S -> Seams(s)]
  <2> SUFFICES ASSUME NEW p \in S PROVE f[p] \in Seams(s)
    OBVIOUS
  <2>1. p \in 1 .. Len(u) + 1 /\ ~Joined(u, p) /\ p # q
    BY DEF Seams
  <2>2. CASE p < q
    <3>1. p \in 1 .. q - 1 /\ p \in 1 .. Len(s) + 1
      BY <1>0, <2>1, <2>2
    <3> QED
      BY <1>1, <2>1, <2>2, <3>1 DEF Seams
  <2>3. CASE ~(p < q)
    <3>1. p \in q + 1 .. Len(u) + 1 /\ p + 1 \in 1 .. Len(s) + 1
      BY <1>0, <2>1, <2>3
    <3> QED
      BY <1>2, <2>1, <2>3, <3>1 DEF Seams
  <2> QED
    BY <2>2, <2>3
<1>7. \A x, y \in S : f[x] = f[y] => x = y
  BY <1>0, <1>5
<1> HIDE DEF f
<1>8. Cardinality(S) <= Cardinality(Seams(s))
  BY <1>3, <1>6, <1>7, Mapped
<1>9. Cardinality(S) = IF q \in Seams(u) THEN Cardinality(Seams(u)) - 1
                                         ELSE Cardinality(Seams(u))
  BY <1>4, FS_RemoveElement
<1> QED
  BY <1>3, <1>4, <1>8, <1>9

\* u is s without the fragments behind the first n.
LEMMA SeamsCutOff ==
    ASSUME NEW s \in Seq(LargeFragments), NEW u \in Seq(LargeFragments),
           Len(u) <= Len(s), \A p \in 1 .. Len(u) : u[p] = s[p]
    PROVE  Cardinality(Seams(u)) <= Cardinality(Seams(s)) + 1
<1> DEFINE last == Len(u) + 1
<1>0. Len(s) \in Nat /\ Len(u) \in Nat
  BY LenProperties
<1>1. ASSUME NEW p \in 1 .. Len(u), Joined(s, p) PROVE Joined(u, p)
  <2>1. u[p] = s[p] /\ (p # 1 => u[p - 1] = s[p - 1])
    BY <1>0
  <2> QED
    BY <1>0, <1>1, <2>1 DEF Joined
<1>2. Seams(u) \in SUBSET (Seams(s) \cup {last})
  BY <1>0, <1>1 DEF Seams
<1>3. IsFiniteSet(Seams(s)) /\ Cardinality(Seams(s)) \in Nat
  BY SeamsFinite
<1>4. Cardinality(Seams(u)) \in Nat
  BY SeamsFinite
<1>5. /\ IsFiniteSet(Seams(s) \cup {last})
      /\ Cardinality(Seams(s) \cup {last}) =
          IF last \in Seams(s) THEN Cardinality(Seams(s)) ELSE Cardinality(Seams(s)) + 1
  BY <1>3, FS_AddElement
<1>6. Cardinality(Seams(u)) <= Cardinality(Seams(s) \cup {last})
  BY <1>2, <1>5, FS_Subset
<1> QED
  BY <1>3, <1>4, <1>5, <1>6

\* u is s without the first q fragments, the last of which ends a datagram.
Taken(s, q, u) ==
    /\ IsLast(s[q])
    /\ Len(u) = Len(s) - q
    /\ \A p \in 1 .. Len(u) : u[p] = s[p + q]

LEMMA SeamsTaken ==
    ASSUME NEW s \in Seq(LargeFragments), NEW q \in 1 .. Len(s),
           NEW u \in Seq(LargeFragments), Taken(s, q, u)
    PROVE  /\ Cardinality(Seams(u)) <= Cardinality(Seams(s))
           /\ (\E p \in 1 .. q : p \in Seams(s)) =>
                Cardinality(Seams(u)) <= Cardinality(Seams(s)) - 1
<1>0. Len(s) \in Nat /\ Len(u) = Len(s) - q /\ q \in Nat \ {0}
  BY LenProperties DEF Taken
<1>1. ASSUME NEW p \in 1 .. Len(u) + 1, Joined(s, p + q) PROVE Joined(u, p)
  <2>1. p \in 1 .. Len(u) => u[p] = s[p + q]
    BY <1>0 DEF Taken
  <2>2. CASE p = 1
    <3>1. s[p + q - 1] = s[q] /\ IsLast(s[q])
      BY <1>0, <2>2 DEF Taken
    <3>2. ~(p + q \in 2 .. Len(s) /\ s[p + q] = <<s[q][1], s[q][2] + 1>>)
      <4> SUFFICES ASSUME p + q \in 2 .. Len(s),
                          s[p + q] = <<s[q][1], s[q][2] + 1>>
                   PROVE  FALSE
        OBVIOUS
      <4>1. s[q] \in LargeFragments /\ s[p + q] \in LargeFragments
        <5>1. \A k \in 1 .. Len(s) : s[k] \in LargeFragments
          BY ElementOfSeq
        <5>2. q \in 1 .. Len(s) /\ p + q \in 1 .. Len(s)
          BY <1>0
        <5> QED
          BY <5>1, <5>2
      <4>2. s[q][2] = FragmentCount(s[q][1]) /\ FragmentCount(s[q][1]) \in Nat
        BY <3>1, <4>1, FragmentIs
      <4>3. s[p + q][2] \in 1 .. FragmentCount(s[p + q][1])
        BY <4>1, FragmentIs
      <4> QED
        BY <4>2, <4>3
    <3>3. p + q = Len(s) + 1 \/ s[p + q][2] = 1
      <4>1. CASE p + q \in 2 .. Len(s) /\ s[p + q] = <<s[p + q - 1][1], s[p + q - 1][2] + 1>>
        BY <3>1, <3>2, <4>1, Zenon
      <4>2. CASE p + q = Len(s) + 1 \/ s[p + q][2] = 1
        BY <4>2
      <4> QED
        BY <1>1, <4>1, <4>2 DEF Joined
    <3> QED
      BY <1>0, <2>1, <2>2, <3>3 DEF Joined
  <2>3. CASE p # 1
    <3>1. u[p - 1] = s[p + q - 1]
      <4>1. p - 1 \in 1 .. Len(u) /\ (p - 1) + q = p + q - 1
        BY <1>0, <2>3
      <4> QED
        BY <4>1 DEF Taken
    <3>2. CASE p = Len(u) + 1
      <4>1. p + q # 1 /\ p + q \notin 2 .. Len(s)
        BY <1>0, <3>2
      <4>2. IsLast(s[p + q - 1])
        BY <1>1, <4>1 DEF Joined
      <4> QED
        BY <3>1, <3>2, <4>2, Zenon DEF Joined
    <3>3. CASE p \in 1 .. Len(u)
      <4>1. p + q # 1 /\ p + q # Len(s) + 1 /\ p \in 2 .. Len(u)
        BY <1>0, <2>3, <3>3
      <4>2. u[p] = s[p + q]
        BY <2>1, <3>3
      <4>3. \/ IsLast(s[p + q - 1]) /\ s[p + q][2] = 1
            \/ s[p + q] = <<s[p + q - 1][1], s[p + q - 1][2] + 1>>
        BY <1>1, <4>1 DEF Joined
      <4> QED
        BY <3>1, <4>1, <4>2, <4>3, Zenon DEF Joined
    <3> QED
      BY <1>0, <3>2, <3>3
  <2> QED
    BY <2>2, <2>3
<1> DEFINE S == Seams(u)
           T == {p \in Seams(s) : p > q}
           f == [p \in S |-> p + q]
<1>2. IsFiniteSet(Seams(s)) /\ Cardinality(Seams(s)) \in Nat /\ Cardinality(S) \in Nat
  BY SeamsFinite
<1>3. f \in [S -> T]
  <2> SUFFICES ASSUME NEW p \in S PROVE p + q \in T
    OBVIOUS
  <2>1. p \in 1 .. Len(u) + 1 /\ ~Joined(u, p)
    BY DEF Seams
  <2>2. p + q \in 1 .. Len(s) + 1 /\ p + q > q
    BY <1>0, <2>1
  <2> QED
    BY <1>1, <2>1, <2>2 DEF Seams
<1>4. \A x, y \in S : f[x] = f[y] => x = y
  BY <1>0 DEF Seams
<1>5. IsFiniteSet(T) /\ Cardinality(T) \in Nat /\ Cardinality(T) <= Cardinality(Seams(s))
  BY <1>2, FS_Subset, FS_CardinalityType
<1> HIDE DEF f
<1>6. Cardinality(S) <= Cardinality(T)
  BY <1>3, <1>4, <1>5, Mapped
<1>7. ASSUME NEW p \in 1 .. q, p \in Seams(s)
      PROVE  Cardinality(T) <= Cardinality(Seams(s)) - 1
  <2>1. T \in SUBSET (Seams(s) \ {p})
    BY <1>0
  <2>2. /\ IsFiniteSet(Seams(s) \ {p})
        /\ Cardinality(Seams(s) \ {p}) = Cardinality(Seams(s)) - 1
    BY <1>2, <1>7, FS_RemoveElement
  <2> QED
    BY <2>1, <2>2, FS_Subset
<1> QED
  BY <1>2, <1>5, <1>6, <1>7

LEMMA Least ==
    ASSUME NEW S \in SUBSET Nat, S # {}
    PROVE  \E x \in S : \A y \in S : x <= y
<1> DEFINE R == OpToRel(<, Nat)
<1>1. IsWellFoundedOn(R, Nat)
  BY NatLessThanWellFounded
<1>2. \A y, x \in Nat : y < x => <<y, x>> \in R
  BY DEF OpToRel
<1> HIDE DEF R
<1>3. PICK x \in S : \A y \in S : <<y, x>> \notin R
  BY <1>1, WFMin
<1>4. ASSUME NEW y \in S PROVE x <= y
  <2>1. x \in Nat /\ y \in Nat
    OBVIOUS
  <2>2. ~(y < x)
    BY <1>2, <1>3, <2>1
  <2> QED
    BY <2>1, <2>2
<1> QED
  BY <1>4

\* Up to the first fragment that ends a datagram, and without a seam, a
\* stream is the whole of that datagram.
LEMMA WholeWithoutSeams ==
    ASSUME NEW s \in Seq(LargeFragments), NEW q \in 1 .. Len(s),
           \A p \in 1 .. q - 1 : ~IsLast(s[p]), IsLast(s[q]),
           \A p \in 1 .. q : p \notin Seams(s)
    PROVE  q = FragmentCount(s[1][1]) /\ \A p \in 1 .. q : s[p] = <<s[1][1], p>>
<1> DEFINE d == s[1][1]
           W == {p \in 1 .. q : s[p] # <<d, p>>}
<1>0. Len(s) \in Nat /\ q \in Nat \ {0}
  BY LenProperties
<1>1. \A p \in 1 .. q : s[p] \in LargeFragments /\ Joined(s, p)
  BY <1>0, ElementOfSeq DEF Seams
<1>2. s[1] = <<d, 1>>
  <2>1. s[1] = <<s[1][1], s[1][2]>>
    BY <1>0, <1>1, FragmentIs
  <2>2. s[1][2] = 1
    BY <1>0, <1>1 DEF Joined
  <2> QED
    BY <2>1, <2>2
<1>3. W = {}
  <2> SUFFICES ASSUME W # {} PROVE FALSE
    OBVIOUS
  <2>1. PICK p \in W : \A y \in W : p <= y
    <3>1. W \in SUBSET Nat
      BY <1>0
    <3> HIDE DEF W
    <3> QED
      BY <3>1, Least
  <2>2. p \in 2 .. q /\ p - 1 \in 1 .. q - 1
    BY <1>0, <1>2
  <2>3. p - 1 \notin W
    BY <2>1, <2>2
  <2>4. s[p - 1] = <<d, p - 1>>
    BY <1>0, <2>2, <2>3
  <2>5. s[p] = <<s[p - 1][1], s[p - 1][2] + 1>>
    BY <1>0, <1>1, <2>2 DEF Joined
  <2>6. s[p] = <<d, p>>
    BY <2>2, <2>4, <2>5
  <2> QED
    BY <2>6
<1>4. s[q] = <<d, q>>
  BY <1>0, <1>3
<1>5. q = FragmentCount(d)
  <2>1. s[q] \in LargeFragments /\ IsLast(s[q])
    BY <1>0, <1>1
  <2>2. s[q][2] = FragmentCount(s[q][1])
    BY <2>1, FragmentIs
  <2> QED
    BY <1>4, <2>2
<1> QED
  BY <1>3, <1>5

-----------------------------------------------------------------------------
(* Types *)

LEMMA TypeInit == Init => TypeOK
<1>1. << >> \in Seq(Datagrams) /\ << >> \in Seq(Fragments) /\ << >> \in Seq(Seq(Fragments))
  BY EmptySeq
<1> SUFFICES ASSUME Init PROVE TypeOK
  OBVIOUS
<1>2. inbox \in Seq(Datagrams) /\ lossless \in Seq(Fragments) /\ buffer \in Seq(Fragments)
  BY <1>1 DEF Init
<1>3. out \in Seq(Seq(Fragments))
  BY <1>1 DEF Init
<1>4. /\ lossy \in [Datagrams -> 0 .. MaxCopies]
      /\ \A d \in Datagrams : lossy[d] > 0 => Size[d] <= SingleMax
  BY TransportAssumption DEF Init
<1> QED
  BY <1>2, <1>3, <1>4 DEF Init, TypeOK

LEMMA Heads ==
    ASSUME NEW S, NEW s \in Seq(S), s # << >>
    PROVE  Head(s) \in S /\ Head(s) = s[1] /\ Tail(s) \in Seq(S)
BY HeadTailProperties

\* The first n fragments of d
LEMMA FirstFragments ==
    ASSUME NEW d \in Datagrams, NEW n \in 0 .. FragmentCount(d)
    PROVE  /\ SubSeq(Whole(d), 1, n) \in Seq(Fragments)
           /\ Large(d) => SubSeq(Whole(d), 1, n) \in Seq(LargeFragments)
           /\ Len(SubSeq(Whole(d), 1, n)) = n
           /\ \A i \in 1 .. n : SubSeq(Whole(d), 1, n)[i] = <<d, i>>
<1>0. FragmentCount(d) \in Nat \ {0} /\ n \in Nat
  <2>1. FragmentCount(d) \in Nat \ {0}
    BY Cut
  <2> QED
    BY <2>1
<1>1. \A i \in 1 .. n : Whole(d)[i] = <<d, i>>
  BY <1>0, WholeIs
<1>2. \A i \in 1 .. n : /\ <<d, i>> \in Fragments
                        /\ Large(d) => <<d, i>> \in LargeFragments
  BY <1>0 DEF Fragments, LargeFragments
<1> DEFINE w == Whole(d)
<1>3. \A i \in 1 .. n : w[i] \in Fragments /\ (Large(d) => w[i] \in LargeFragments)
  BY <1>1, <1>2
<1>4. 1 \in Int /\ n \in Int
  BY <1>0
<1> HIDE DEF w
<1>5. /\ SubSeq(w, 1, n) \in Seq(Fragments)
      /\ Len(SubSeq(w, 1, n)) = IF 1 <= n THEN n - 1 + 1 ELSE 0
      /\ \A i \in 1 .. n - 1 + 1 : SubSeq(w, 1, n)[i] = w[1 + i - 1]
  BY <1>3, <1>4, SubSeqProperties
<1>6. Large(d) => SubSeq(w, 1, n) \in Seq(LargeFragments)
  BY <1>3, <1>4, SubSeqProperties
<1>7. \A i \in 1 .. n : i \in 1 .. n - 1 + 1 /\ 1 + i - 1 = i
  BY <1>0
<1> QED
  BY <1>0, <1>1, <1>5, <1>6, <1>7 DEF w

LEMMA TypeStep == TypeOK /\ [Next]_vars => TypeOK'
<1> SUFFICES ASSUME TypeOK, [Next]_vars PROVE TypeOK'
  OBVIOUS
<1> USE DEF TypeOK
<1>1. CASE Connect \/ CreateTunnelA \/ CreateTunnelB \/ DestroyTunnelA \/ DestroyTunnelB
  BY <1>1, EmptySeq DEF Connect, CreateTunnelA, CreateTunnelB, DestroyTunnelA,
     DestroyTunnelB
<1>2. CASE Disconnect
  <2>1. lossless' \in Seq(Fragments) /\ breaks' \in Nat
    BY <1>2, EmptySeq DEF Disconnect
  <2>2. /\ lossy' \in [Datagrams -> 0 .. MaxCopies]
        /\ \A d \in Datagrams : lossy'[d] > 0 => Size[d] <= SingleMax
    BY <1>2, TransportAssumption DEF Disconnect
  <2> QED
    BY <1>2, <2>1, <2>2 DEF Disconnect
<1>3. ASSUME NEW comp \in BOOLEAN, NegotiateB(comp) PROVE TypeOK'
  BY <1>3 DEF NegotiateB
<1>4. ASSUME NEW part \in {"host", "port"}, NEW right \in BOOLEAN, SetOutbound(part, right)
      PROVE  TypeOK'
  BY <1>4 DEF SetOutbound
<1>5. ASSUME NEW d \in Datagrams, ClientSends(d) PROVE TypeOK'
  BY <1>5 DEF ClientSends
<1>6. ASSUME NEW d \in Datagrams, Forward(d) PROVE TypeOK'
  <2>1. inbox' \in Seq(Datagrams)
    BY <1>6, Heads DEF Forward, DropOversized, ForwardSmall, ForwardLarge, Reading
  <2>2. UNCHANGED <<unsent, tunnelA, connected, compatible, tunnelB, buffer, out, outbound>>
    BY <1>6 DEF Forward, DropOversized, ForwardSmall, ForwardLarge, Reading
  <2>3. CASE DropOversized(d)
    BY <2>1, <2>2, <2>3 DEF DropOversized
  <2>4. CASE ForwardSmall(d)
    <3>1. /\ lossy' \in [Datagrams -> 0 .. MaxCopies]
          /\ \A e \in Datagrams : lossy'[e] > 0 => Size[e] <= SingleMax
      BY <2>4, TransportAssumption DEF ForwardSmall, SendLossy
    <3> QED
      BY <2>1, <2>2, <2>4, <3>1 DEF ForwardSmall
  <2>5. CASE ForwardLarge(d)
    <3>1. PICK n \in 0 .. IF connected THEN FragmentCount(d) ELSE 0 :
            /\ lossless' = lossless \o SubSeq(Whole(d), 1, n)
            /\ breaks' = IF n = FragmentCount(d) THEN breaks ELSE breaks + 1
      BY <2>5 DEF ForwardLarge
    <3>2. n \in 0 .. FragmentCount(d)
      <4>1. FragmentCount(d) \in Nat
        BY Cut
      <4> QED
        BY <4>1
    <3>3. lossless' \in Seq(Fragments)
      <4> DEFINE sent == SubSeq(Whole(d), 1, n)
      <4>1. sent \in Seq(Fragments)
        BY <3>2, FirstFragments
      <4>2. lossless \in Seq(Fragments) /\ lossless' = lossless \o sent
        BY <3>1
      <4> HIDE DEF sent
      <4> QED
        BY <4>1, <4>2, ConcatProperties
    <3> QED
      BY <2>1, <2>2, <2>5, <3>1, <3>3 DEF ForwardLarge
  <2> QED
    BY <1>6, <2>3, <2>4, <2>5 DEF Forward
<1>7. ASSUME NEW d \in Datagrams, ReceiveSmall(d) PROVE TypeOK'
  <2>1. Whole(d) \in Seq(Fragments)
    BY WholeIs
  <2>2. Append(out, Whole(d)) \in Seq(Seq(Fragments))
    BY <2>1, AppendProperties
  <2>3. out' \in Seq(Seq(Fragments))
    BY <1>7, <2>2 DEF ReceiveSmall, HandOn
  <2>4. /\ lossy' \in [Datagrams -> 0 .. MaxCopies]
        /\ \A e \in Datagrams : lossy'[e] > 0 => Size[e] <= SingleMax
    BY <1>7, TransportAssumption DEF ReceiveSmall
  <2> QED
    BY <1>7, <2>3, <2>4 DEF ReceiveSmall
<1>8. CASE ReceiveFragment
  <2>1. Head(lossless) \in Fragments /\ lossless' \in Seq(Fragments)
    BY <1>8, Heads DEF ReceiveFragment
  <2>2. CASE Reassemble(Head(lossless))
    <3>1. Append(buffer, Head(lossless)) \in Seq(Fragments)
      BY <2>1
    <3>2. Append(out, Append(buffer, Head(lossless))) \in Seq(Seq(Fragments))
      BY <3>1, AppendProperties
    <3>3. buffer' \in Seq(Fragments) /\ out' \in Seq(Seq(Fragments))
      BY <2>2, <3>1, <3>2, EmptySeq DEF Reassemble, HandOn
    <3> QED
      BY <1>8, <2>1, <2>2, <3>3 DEF ReceiveFragment, Reassemble
  <2>3. CASE DropFragment
    BY <1>8, <2>1, <2>3 DEF ReceiveFragment, DropFragment
  <2> QED
    BY <1>8, <2>2, <2>3 DEF ReceiveFragment
<1>9. CASE UNCHANGED vars
  BY <1>9 DEF vars
<1> QED
  BY <1>1, <1>2, <1>3, <1>4, <1>5, <1>6, <1>7, <1>8, <1>9 DEF Next

\* The types of the variables: what is on the way, in the buffer or handed on
\* is made of fragments of datagrams.
THEOREM TypeCorrect == Spec => []TypeOK
  BY TypeInit, TypeStep, PTL DEF Spec

-----------------------------------------------------------------------------
(* The stream *)

LEMMA Joining ==
    ASSUME NEW b \in Seq(LargeFragments), NEW l \in Seq(LargeFragments)
    PROVE  /\ b \o l \in Seq(LargeFragments)
           /\ Len(b) \in Nat /\ Len(l) \in Nat /\ Len(b \o l) = Len(b) + Len(l)
           /\ \A p \in 1 .. Len(b) : (b \o l)[p] = b[p]
           /\ \A p \in 1 .. Len(l) : (b \o l)[Len(b) + p] = l[p]
<1>1. Len(b) \in Nat /\ Len(l) \in Nat
  BY LenProperties
<1>2. /\ b \o l \in Seq(LargeFragments)
      /\ Len(b \o l) = Len(b) + Len(l)
      /\ \A p \in 1 .. Len(b) + Len(l) :
            (b \o l)[p] = IF p <= Len(b) THEN b[p] ELSE l[p - Len(b)]
  BY ConcatProperties
<1>3. ASSUME NEW p \in 1 .. Len(b) PROVE (b \o l)[p] = b[p]
  <2>1. p \in 1 .. Len(b) + Len(l) /\ p <= Len(b)
    BY <1>1
  <2> QED
    BY <1>2, <2>1
<1>4. ASSUME NEW p \in 1 .. Len(l) PROVE (b \o l)[Len(b) + p] = l[p]
  <2>1. Len(b) + p \in 1 .. Len(b) + Len(l) /\ ~(Len(b) + p <= Len(b))
    BY <1>1
  <2>2. (Len(b) + p) - Len(b) = p
    BY <1>1
  <2> QED
    BY <1>2, <2>1, <2>2
<1> QED
  BY <1>1, <1>2, <1>3, <1>4

\* The first n fragments of d are sent.
LEMMA StreamExtended ==
    ASSUME NEW b \in Seq(LargeFragments), NEW l \in Seq(LargeFragments),
           NEW d \in Datagrams, Large(d), NEW n \in 1 .. FragmentCount(d)
    PROVE  Extended(b \o l, d, n, b \o (l \o SubSeq(Whole(d), 1, n)))
<1> DEFINE t == SubSeq(Whole(d), 1, n)
<1>1. FragmentCount(d) \in Nat \ {0}
  BY Cut
<1>2. n \in 0 .. FragmentCount(d) /\ n \in Nat
  BY <1>1
<1>3. t \in Seq(LargeFragments) /\ Len(t) = n /\ \A i \in 1 .. n : t[i] = <<d, i>>
  BY <1>2, FirstFragments
<1> HIDE DEF t
<1>4. b \o (l \o t) = (b \o l) \o t
  <2>1. t \in Seq(LargeFragments)
    BY <1>3
  <2> QED
    BY <2>1, ConcatAssociative
<1>5. b \o l \in Seq(LargeFragments)
  BY Joining
<1>6. t \in Seq(LargeFragments)
  BY <1>3
<1> DEFINE s == b \o l
<1>7. s \in Seq(LargeFragments)
  BY <1>5
<1> HIDE DEF s
<1>8. /\ Len(s \o t) = Len(s) + Len(t) /\ Len(t) = n
      /\ \A p \in 1 .. Len(s) : (s \o t)[p] = s[p]
      /\ \A i \in 1 .. n : (s \o t)[Len(s) + i] = t[i]
  BY <1>3, <1>6, <1>7, Joining
<1>9. Extended(s, d, n, s \o t)
  BY <1>3, <1>8 DEF Extended
<1> QED
  BY <1>4, <1>9 DEF s, t

\* A fragment finds no tunnel.
LEMMA StreamDropped ==
    ASSUME NEW b \in Seq(LargeFragments), NEW l \in Seq(LargeFragments), l # << >>
    PROVE  /\ Dropped(b \o l, Len(b) + 1, b \o Tail(l))
           /\ Len(b) + 1 \in 1 .. Len(b \o l)
<1>1. /\ Tail(l) \in Seq(LargeFragments) /\ Len(Tail(l)) = Len(l) - 1
      /\ \A p \in 1 .. Len(Tail(l)) : Tail(l)[p] = l[p + 1]
  BY HeadTailProperties
<1> DEFINE m == Tail(l)
           s == b \o l
           u == b \o m
<1>2. m \in Seq(LargeFragments)
  BY <1>1
<1> HIDE DEF m
<1>3. /\ Len(b) \in Nat /\ Len(l) \in Nat
      /\ Len(s) = Len(b) + Len(l)
      /\ \A p \in 1 .. Len(b) : s[p] = b[p]
      /\ \A p \in 1 .. Len(l) : s[Len(b) + p] = l[p]
  BY Joining
<1>4. /\ Len(u) = Len(b) + Len(m)
      /\ \A p \in 1 .. Len(b) : u[p] = b[p]
      /\ \A p \in 1 .. Len(m) : u[Len(b) + p] = m[p]
  BY <1>2, Joining
<1> HIDE DEF s, u
<1>5. Len(m) = Len(l) - 1 /\ \A p \in 1 .. Len(m) : m[p] = l[p + 1]
  BY <1>1 DEF m
<1>6. Len(u) = Len(s) - 1
  BY <1>3, <1>4, <1>5
<1>7. \A p \in 1 .. Len(b) : u[p] = s[p]
  BY <1>3, <1>4
<1>8. ASSUME NEW p \in Len(b) + 1 .. Len(u) PROVE u[p] = s[p + 1]
  <2> DEFINE k == p - Len(b)
  <2>1. k \in 1 .. Len(m) /\ k + 1 \in 1 .. Len(l) /\ p = Len(b) + k
    BY <1>3, <1>4, <1>5
  <2>2. p + 1 = Len(b) + (k + 1)
    BY <1>3
  <2> HIDE DEF k
  <2>3. u[p] = m[k] /\ m[k] = l[k + 1] /\ s[p + 1] = l[k + 1]
    BY <1>3, <1>4, <1>5, <2>1, <2>2
  <2> QED
    BY <2>3
<1>9. Len(b) + 1 - 1 = Len(b) /\ Len(b) + 1 \in 1 .. Len(s)
  <2>1. Len(m) \in Nat
    BY <1>2, LenProperties
  <2> QED
    BY <1>3, <1>5, <2>1
<1> QED
  BY <1>6, <1>7, <1>8, <1>9 DEF Dropped, s, u, m

\* The last fragment of a datagram comes into the buffer, which is cleared.
LEMMA StreamTaken ==
    ASSUME NEW b \in Seq(LargeFragments), NEW l \in Seq(LargeFragments), l # << >>,
           IsLast(Head(l))
    PROVE  /\ Taken(b \o l, Len(b) + 1, << >> \o Tail(l))
           /\ Len(b) + 1 \in 1 .. Len(b \o l)
           /\ (b \o l)[Len(b) + 1] = Head(l)
<1>1. /\ Tail(l) \in Seq(LargeFragments) /\ Len(Tail(l)) = Len(l) - 1
      /\ \A p \in 1 .. Len(Tail(l)) : Tail(l)[p] = l[p + 1]
      /\ Head(l) = l[1]
  BY HeadTailProperties
<1>2. << >> \o Tail(l) = Tail(l)
  BY <1>1, ConcatEmptySeq
<1> DEFINE m == Tail(l)
           s == b \o l
<1>3. /\ Len(b) \in Nat /\ Len(l) \in Nat
      /\ Len(s) = Len(b) + Len(l)
      /\ \A p \in 1 .. Len(l) : s[Len(b) + p] = l[p]
  BY Joining
<1>4. m \in Seq(LargeFragments) /\ Len(m) \in Nat
  BY <1>1, LenProperties
<1>5. Len(m) = Len(l) - 1 /\ \A p \in 1 .. Len(m) : m[p] = l[p + 1]
  BY <1>1
<1> HIDE DEF s, m
<1>6. s[Len(b) + 1] = Head(l) /\ Len(b) + 1 \in 1 .. Len(s)
  BY <1>1, <1>3, <1>4, <1>5
<1>7. ASSUME NEW p \in 1 .. Len(m) PROVE m[p] = s[p + (Len(b) + 1)]
  <2>1. p + 1 \in 1 .. Len(l) /\ p + (Len(b) + 1) = Len(b) + (p + 1)
    BY <1>3, <1>5
  <2>2. s[Len(b) + (p + 1)] = l[p + 1]
    BY <1>3, <2>1
  <2> QED
    BY <1>5, <2>1, <2>2
<1>8. Len(m) = Len(s) - (Len(b) + 1)
  BY <1>3, <1>5
<1> QED
  BY <1>2, <1>6, <1>7, <1>8 DEF Taken, s, m

\* Another fragment comes into the buffer.
LEMMA StreamMoved ==
    ASSUME NEW b \in Seq(LargeFragments), NEW l \in Seq(LargeFragments), l # << >>
    PROVE  Append(b, Head(l)) \o Tail(l) = b \o l
<1>1. Head(l) \in LargeFragments /\ Tail(l) \in Seq(LargeFragments)
  BY HeadTailProperties
<1>2. Append(b, Head(l)) = b \o <<Head(l)>>
  BY <1>1, AppendIsConcat
<1>3. l = <<Head(l)>> \o Tail(l)
  OBVIOUS
<1>4. <<Head(l)>> \in Seq(LargeFragments)
  BY <1>1
<1>5. (b \o <<Head(l)>>) \o Tail(l) = b \o (<<Head(l)>> \o Tail(l))
  BY <1>1, <1>4, ConcatAssociative
<1> QED
  BY <1>2, <1>3, <1>5

\* A datagram handed on: what was in the buffer and the fragment that ends it
Rest == Append(buffer, Head(lossless))

LEMMA LargeCase ==
    ASSUME StreamOK, NEW d \in Datagrams, ForwardLarge(d)
    PROVE  \E n \in 0 .. FragmentCount(d) :
            /\ breaks' = IF n = FragmentCount(d) THEN breaks ELSE breaks + 1
            /\ connected \/ n = 0
            /\ lossless' \in Seq(LargeFragments)
            /\ n = 0 => lossless' = lossless
            /\ n # 0 => /\ n \in 1 .. FragmentCount(d)
                        /\ Extended(Stream, d, n, Stream')
<1>1. PICK n \in 0 .. IF connected THEN FragmentCount(d) ELSE 0 :
        /\ lossless' = lossless \o SubSeq(Whole(d), 1, n)
        /\ breaks' = IF n = FragmentCount(d) THEN breaks ELSE breaks + 1
  BY DEF ForwardLarge
<1>2. buffer' = buffer /\ Large(d)
  BY DEF ForwardLarge, Reading
<1>3. FragmentCount(d) \in Nat \ {0}
  BY Cut
<1>4. n \in 0 .. FragmentCount(d) /\ (connected \/ n = 0)
  BY <1>3
<1>5. /\ SubSeq(Whole(d), 1, n) \in Seq(LargeFragments)
      /\ Len(SubSeq(Whole(d), 1, n)) = n
  BY <1>2, <1>4, FirstFragments
<1>6. lossless' \in Seq(LargeFragments)
  <2>1. SubSeq(Whole(d), 1, n) \in Seq(LargeFragments) /\ lossless \in Seq(LargeFragments)
    BY <1>5 DEF StreamOK
  <2> QED
    BY <1>1, <2>1, ConcatProperties
<1>7. n = 0 => lossless' = lossless
  <2> SUFFICES ASSUME n = 0 PROVE lossless' = lossless
    OBVIOUS
  <2>1. SubSeq(Whole(d), 1, n) = << >>
    BY <1>5, EmptySeq
  <2> QED
    BY <1>1, <2>1, ConcatEmptySeq DEF StreamOK
<1>8. n # 0 => n \in 1 .. FragmentCount(d) /\ Extended(Stream, d, n, Stream')
  <2> SUFFICES ASSUME n # 0
               PROVE  n \in 1 .. FragmentCount(d) /\ Extended(Stream, d, n, Stream')
    OBVIOUS
  <2>1. n \in 1 .. FragmentCount(d)
    BY <1>3, <1>4
  <2>2. Extended(buffer \o lossless, d, n, buffer \o (lossless \o SubSeq(Whole(d), 1, n)))
    BY <1>2, <2>1, StreamExtended DEF StreamOK
  <2> QED
    BY <1>1, <1>2, <2>1, <2>2 DEF Stream
<1> QED
  BY <1>1, <1>4, <1>6, <1>7, <1>8

LEMMA ReceiveCases ==
    ASSUME StreamOK, ReceiveFragment
    PROVE  LET q == Len(buffer) + 1 IN
            /\ lossless' \in Seq(LargeFragments) /\ lossless # << >>
            /\ q \in 1 .. Len(Stream)
            /\ \/ /\ Dropped(Stream, q, Stream')
                  /\ breaks' = breaks + 1 /\ UNCHANGED <<buffer, out>>
               \/ /\ Stream' = Stream /\ ~IsLast(Head(lossless))
                  /\ buffer' = Rest
                  /\ UNCHANGED <<out, breaks>>
               \/ /\ Taken(Stream, q, Stream') /\ IsLast(Head(lossless))
                  /\ buffer' = << >>
                  /\ HandOn(Rest) /\ UNCHANGED breaks
<1> DEFINE q == Len(buffer) + 1
           l == lossless
<1>1. l # << >> /\ l' = Tail(l) /\ l \in Seq(LargeFragments) /\ buffer \in Seq(LargeFragments)
  BY DEF ReceiveFragment, StreamOK
<1>2. l' \in Seq(LargeFragments)
  BY <1>1, Heads
<1>3. q \in 1 .. Len(Stream)
  BY <1>1, StreamDropped DEF Stream
<1>4. CASE DropFragment
  <2>1. Dropped(buffer \o lossless, q, buffer \o Tail(lossless))
    BY <1>1, StreamDropped
  <2> QED
    BY <1>1, <1>2, <1>3, <1>4, <2>1 DEF DropFragment, Stream
<1>5. CASE Reassemble(Head(lossless)) /\ ~IsLast(Head(lossless))
  <2>1. Rest \o Tail(lossless) = buffer \o lossless
    BY <1>1, StreamMoved DEF Rest
  <2>2. buffer' = Rest /\ UNCHANGED <<out, breaks>>
    BY <1>5 DEF Reassemble, Rest
  <2> QED
    BY <1>1, <1>2, <1>3, <1>5, <2>1, <2>2 DEF Stream
<1>6. CASE Reassemble(Head(lossless)) /\ IsLast(Head(lossless))
  <2>1. Taken(buffer \o lossless, q, << >> \o Tail(lossless))
    BY <1>1, <1>6, StreamTaken
  <2>2. buffer' = << >> /\ HandOn(Rest) /\ UNCHANGED breaks
    BY <1>6 DEF Reassemble, Rest
  <2> QED
    BY <1>1, <1>2, <1>3, <1>6, <2>1, <2>2 DEF Stream
<1> QED
  BY <1>4, <1>5, <1>6 DEF ReceiveFragment

\* What is handed on is the beginning of the stream, up to the first fragment
\* that ends a datagram.
LEMMA RestIs ==
    ASSUME StreamOK, lossless # << >>
    PROVE  LET q == Len(buffer) + 1 IN
            /\ Rest \in Seq(LargeFragments) /\ Len(Rest) = q
            /\ q \in 1 .. Len(Stream) /\ Stream[q] = Head(lossless)
            /\ \A p \in 1 .. q : Rest[p] = Stream[p]
            /\ \A p \in 1 .. q - 1 : ~IsLast(Stream[p])
<1> DEFINE b == buffer
           h == Head(lossless)
           s == Stream
<1>1. b \in Seq(LargeFragments) /\ h \in LargeFragments /\ lossless \in Seq(LargeFragments)
  BY Heads DEF StreamOK
<1>2. /\ Append(b, h) \in Seq(LargeFragments)
      /\ Len(Append(b, h)) = Len(b) + 1
      /\ \A p \in 1 .. Len(b) : Append(b, h)[p] = b[p]
      /\ Append(b, h)[Len(b) + 1] = h
  BY <1>1, AppendProperties
<1>3. /\ Len(b) \in Nat /\ Len(lossless) \in Nat
      /\ Len(s) = Len(b) + Len(lossless)
      /\ \A p \in 1 .. Len(b) : s[p] = b[p]
      /\ \A p \in 1 .. Len(lossless) : s[Len(b) + p] = lossless[p]
  BY <1>1, Joining DEF Stream
<1>4. lossless[1] = h /\ Len(lossless) # 0
  BY <1>1, Heads, EmptySeq
<1>5. s[Len(b) + 1] = h
  BY <1>3, <1>4
<1>6. \A p \in 1 .. Len(b) : ~IsLast(b[p])
  BY <1>3 DEF StreamOK
<1> HIDE DEF b, h, s
<1>7. Len(b) + 1 \in 1 .. Len(s)
  BY <1>3, <1>4
<1>8. \A p \in 1 .. Len(b) + 1 : Append(b, h)[p] = s[p]
  BY <1>2, <1>3, <1>5
<1>9. \A p \in 1 .. Len(b) + 1 - 1 : ~IsLast(s[p])
  BY <1>3, <1>6
<1> QED
  BY <1>2, <1>5, <1>7, <1>8, <1>9 DEF Rest, b, h, s

-----------------------------------------------------------------------------
(* Steps.  Four kinds of them concern the stream. *)

LEMMA Kinds ==
    ASSUME [Next]_vars
    PROVE  \/ Disconnect \/ DestroyTunnelB \/ ReceiveFragment
           \/ \E d \in Datagrams : ForwardLarge(d)
           \/ /\ UNCHANGED <<buffer, lossless, breaks>>
              /\ connected => connected'
              /\ \/ UNCHANGED out
                 \/ \E d \in Datagrams : ReceiveSmall(d)
<1>1. CASE Connect \/ CreateTunnelA \/ DestroyTunnelA \/ CreateTunnelB
  BY <1>1 DEF Connect, CreateTunnelA, DestroyTunnelA, CreateTunnelB
<1>2. CASE (\E comp \in BOOLEAN : NegotiateB(comp))
            \/ (\E part \in {"host", "port"}, right \in BOOLEAN : SetOutbound(part, right))
  BY <1>2 DEF NegotiateB, SetOutbound
<1>3. ASSUME NEW d \in Datagrams, ClientSends(d)
      PROVE UNCHANGED <<buffer, lossless, breaks, connected, out>>
  BY <1>3 DEF ClientSends
<1>4. ASSUME NEW d \in Datagrams, ReceiveSmall(d)
      PROVE UNCHANGED <<buffer, lossless, breaks, connected>>
  BY <1>4 DEF ReceiveSmall
<1>5. ASSUME NEW d \in Datagrams, Forward(d), ~ForwardLarge(d)
      PROVE UNCHANGED <<buffer, lossless, breaks, connected, out>>
  BY <1>5 DEF Forward, DropOversized, ForwardSmall, Reading
<1>6. CASE UNCHANGED vars
  BY <1>6 DEF vars
<1> QED
  BY <1>1, <1>2, <1>3, <1>4, <1>5, <1>6 DEF Next

LEMMA StreamInit == Init => StreamOK
<1>1. << >> \in Seq(LargeFragments) /\ DOMAIN << >> = {}
  BY EmptySeq
<1> QED
  BY <1>1 DEF Init, StreamOK

LEMMA StreamStep == StreamOK /\ [Next]_vars => StreamOK'
<1> SUFFICES ASSUME StreamOK, [Next]_vars PROVE StreamOK'
  OBVIOUS
<1>0. << >> \in Seq(LargeFragments) /\ DOMAIN << >> = {}
  BY EmptySeq
<1>1. CASE Disconnect
  BY <1>0, <1>1 DEF Disconnect, StreamOK
<1>2. CASE DestroyTunnelB
  BY <1>0, <1>2 DEF DestroyTunnelB, StreamOK
<1>3. CASE ReceiveFragment
  <2>1. lossless # << >> /\ lossless' \in Seq(LargeFragments) /\ connected' = connected
    BY <1>3, ReceiveCases DEF ReceiveFragment
  <2>2. CASE buffer' = buffer \/ buffer' = << >>
    BY <1>0, <2>1, <2>2 DEF StreamOK
  <2>3. CASE buffer' = Rest /\ ~IsLast(Head(lossless))
    <3>1. /\ Rest \in Seq(LargeFragments) /\ Len(Rest) = Len(buffer) + 1
          /\ \A p \in 1 .. Len(buffer) + 1 : Rest[p] = Stream[p]
          /\ Stream[Len(buffer) + 1] = Head(lossless)
          /\ \A p \in 1 .. Len(buffer) + 1 - 1 : ~IsLast(Stream[p])
      BY <2>1, RestIs
    <3>2. Len(buffer) \in Nat /\ DOMAIN Rest = 1 .. Len(buffer) + 1
      BY <3>1, LenProperties DEF StreamOK
    <3>3. ASSUME NEW p \in DOMAIN Rest PROVE ~IsLast(Rest[p])
      <4>1. Rest[p] = Stream[p]
        BY <3>1, <3>2
      <4>2. p = Len(buffer) + 1 \/ p \in 1 .. Len(buffer) + 1 - 1
        BY <3>2
      <4> QED
        BY <2>3, <3>1, <4>1, <4>2
    <3> QED
      BY <2>1, <2>3, <3>1, <3>3 DEF StreamOK
  <2> QED
    BY <1>3, <2>2, <2>3, ReceiveCases
<1>4. ASSUME NEW d \in Datagrams, ForwardLarge(d) PROVE StreamOK'
  <2>1. UNCHANGED <<buffer, connected>>
    BY <1>4 DEF ForwardLarge, Reading
  <2>2. /\ lossless' \in Seq(LargeFragments)
        /\ connected \/ lossless' = lossless
    BY <1>4, LargeCase
  <2> QED
    BY <2>1, <2>2 DEF StreamOK
<1>5. CASE UNCHANGED <<buffer, lossless>> /\ (connected => connected')
  BY <1>5 DEF StreamOK
<1> QED
  BY <1>1, <1>2, <1>3, <1>4, <1>5, Kinds

\* A datagram that is read leaves the inbox for good.
LEMMA ReadingLeaves ==
    ASSUME TypeOK, OnePlace, NEW d \in Datagrams, Reading(d)
    PROVE  /\ d \in Uncut /\ d \notin unsent \cup OnTheWay
           /\ {inbox'[i] : i \in DOMAIN inbox'} = {inbox[i] : i \in DOMAIN inbox} \ {d}
           /\ \A i, j \in DOMAIN inbox' : inbox'[i] = inbox'[j] => i = j
<1>1. /\ inbox \in Seq(Datagrams) /\ inbox # << >> /\ inbox' = Tail(inbox)
      /\ d = Head(inbox)
  BY DEF Reading, TypeOK
<1>2. /\ inbox[1] = d /\ inbox' \in Seq(Datagrams)
      /\ Len(inbox') = Len(inbox) - 1
      /\ \A i \in 1 .. Len(inbox') : inbox'[i] = inbox[i + 1]
  BY <1>1, HeadTailProperties, Heads
<1>3. /\ Len(inbox) \in Nat /\ Len(inbox) # 0 /\ DOMAIN inbox = 1 .. Len(inbox)
      /\ DOMAIN inbox' = 1 .. Len(inbox')
  BY <1>1, <1>2, LenProperties, EmptySeq
<1>4. \A i, j \in 1 .. Len(inbox) : inbox[i] = inbox[j] => i = j
  BY <1>3 DEF OnePlace
<1>5. 1 \in DOMAIN inbox
  BY <1>3
<1>6. d \in Uncut /\ d \notin unsent \cup OnTheWay
  BY <1>2, <1>5 DEF OnePlace, Uncut
<1>7. ASSUME NEW i \in DOMAIN inbox' PROVE inbox'[i] \in {inbox[j] : j \in DOMAIN inbox} \ {d}
  <2>1. i + 1 \in 1 .. Len(inbox) /\ i + 1 # 1 /\ inbox'[i] = inbox[i + 1]
    BY <1>2, <1>3
  <2>2. inbox[i + 1] # inbox[1]
    BY <1>3, <1>4, <1>5, <2>1
  <2> QED
    BY <1>2, <1>3, <2>1, <2>2
<1>8. ASSUME NEW j \in DOMAIN inbox, inbox[j] # d
      PROVE  inbox[j] \in {inbox'[i] : i \in DOMAIN inbox'}
  <2>1. j # 1
    BY <1>2, <1>8
  <2>2. j - 1 \in 1 .. Len(inbox') /\ (j - 1) + 1 = j
    BY <1>2, <1>3, <2>1
  <2>3. inbox'[j - 1] = inbox[j]
    BY <1>2, <2>2
  <2> QED
    BY <1>3, <2>2, <2>3
<1>9. ASSUME NEW i \in DOMAIN inbox', NEW j \in DOMAIN inbox', inbox'[i] = inbox'[j]
      PROVE  i = j
  <2>1. i + 1 \in 1 .. Len(inbox) /\ j + 1 \in 1 .. Len(inbox)
    BY <1>2, <1>3
  <2>2. inbox[i + 1] = inbox[j + 1]
    BY <1>2, <1>3, <1>9
  <2>3. i + 1 = j + 1
    BY <1>4, <2>1, <2>2
  <2> QED
    BY <1>3, <2>3
<1> QED
  BY <1>6, <1>7, <1>8, <1>9

LEMMA PlacesStep ==
    TypeOK /\ OnePlace /\ [Next]_vars => OnePlace' /\ Uncut' \subseteq Uncut
<1> SUFFICES ASSUME TypeOK, OnePlace, [Next]_vars
             PROVE  OnePlace' /\ Uncut' \subseteq Uncut
  OBVIOUS
<1>1. CASE UNCHANGED inbox /\ unsent' = unsent /\ OnTheWay' \subseteq OnTheWay
  BY <1>1 DEF OnePlace, Uncut
<1>2. CASE DestroyTunnelA
  <2>1. inbox' = << >> /\ DOMAIN inbox' = {} /\ UNCHANGED <<unsent, lossy>>
    BY <1>2, EmptySeq DEF DestroyTunnelA
  <2> QED
    BY <2>1 DEF OnePlace, Uncut, OnTheWay
<1>3. ASSUME NEW d \in Datagrams, ClientSends(d) PROVE OnePlace' /\ Uncut' \subseteq Uncut
  <2>1. /\ d \in unsent /\ unsent' = unsent \ {d} /\ OnTheWay' = OnTheWay
        /\ inbox' = Append(inbox, d) /\ inbox \in Seq(Datagrams)
    BY <1>3 DEF ClientSends, TypeOK, OnTheWay
  <2>2. /\ DOMAIN inbox = 1 .. Len(inbox) /\ Len(inbox) \in Nat
        /\ DOMAIN inbox' = 1 .. Len(inbox) + 1
        /\ \A i \in 1 .. Len(inbox) : inbox'[i] = inbox[i]
        /\ inbox'[Len(inbox) + 1] = d
    BY <2>1, AppendProperties, LenProperties
  <2>3. \A i \in DOMAIN inbox : inbox[i] # d
    BY <2>1 DEF OnePlace
  <2>4. {inbox'[i] : i \in DOMAIN inbox'} = {inbox[i] : i \in DOMAIN inbox} \cup {d}
    BY <2>2
  <2>5. \A i, j \in DOMAIN inbox' : inbox'[i] = inbox'[j] => i = j
    BY <2>2, <2>3 DEF OnePlace
  <2>6. d \notin OnTheWay /\ d \notin unsent'
    BY <2>1 DEF OnePlace
  <2>7. Uncut' \subseteq Uncut
    BY <2>1, <2>4 DEF Uncut
  <2>8. \A i \in DOMAIN inbox' : inbox'[i] \notin unsent' \cup OnTheWay'
    <3>1. \A i \in DOMAIN inbox' : inbox'[i] \in {inbox[j] : j \in DOMAIN inbox} \cup {d}
      BY <2>4
    <3> QED
      BY <2>1, <2>6, <3>1 DEF OnePlace
  <2> QED
    BY <2>1, <2>5, <2>7, <2>8 DEF OnePlace
<1>4. ASSUME NEW d \in Datagrams, Forward(d) PROVE OnePlace' /\ Uncut' \subseteq Uncut
  <2>1. Reading(d) /\ unsent' = unsent /\ OnTheWay' \subseteq OnTheWay \cup {d}
    <3>1. \A e \in Datagrams \ {d} : lossy'[e] = lossy[e]
      BY <1>4 DEF Forward, DropOversized, ForwardSmall, ForwardLarge, SendLossy, TypeOK
    <3> QED
      BY <1>4, <3>1
         DEF Forward, DropOversized, ForwardSmall, ForwardLarge, Reading, OnTheWay
  <2>2. /\ d \in Uncut /\ d \notin unsent \cup OnTheWay
        /\ {inbox'[i] : i \in DOMAIN inbox'} = {inbox[i] : i \in DOMAIN inbox} \ {d}
        /\ \A i, j \in DOMAIN inbox' : inbox'[i] = inbox'[j] => i = j
    BY <2>1, ReadingLeaves
  <2>3. \A i \in DOMAIN inbox' : inbox'[i] \in {inbox[j] : j \in DOMAIN inbox} \ {d}
    BY <2>2
  <2>4. \A i \in DOMAIN inbox' : inbox'[i] \notin unsent' \cup OnTheWay'
    BY <2>1, <2>3 DEF OnePlace
  <2>5. Uncut' \subseteq Uncut
    BY <2>1, <2>2 DEF Uncut
  <2>6. unsent' \cap OnTheWay' = {}
    BY <2>1, <2>2 DEF OnePlace
  <2> QED
    BY <2>2, <2>4, <2>5, <2>6 DEF OnePlace
<1>5. CASE Disconnect \/ Connect \/ CreateTunnelA \/ CreateTunnelB \/ DestroyTunnelB
           \/ ReceiveFragment
  <2>1. UNCHANGED <<inbox, unsent>> /\ OnTheWay' \subseteq OnTheWay
    BY <1>5 DEF Disconnect, Connect, CreateTunnelA, CreateTunnelB, DestroyTunnelB,
       ReceiveFragment, OnTheWay
  <2> QED
    BY <1>1, <2>1
<1>6. CASE (\E comp \in BOOLEAN : NegotiateB(comp))
            \/ (\E part \in {"host", "port"}, right \in BOOLEAN : SetOutbound(part, right))
  BY <1>1, <1>6 DEF NegotiateB, SetOutbound, OnTheWay
<1>7. ASSUME NEW d \in Datagrams, ReceiveSmall(d) PROVE OnePlace' /\ Uncut' \subseteq Uncut
  <2>1. OnTheWay' \subseteq OnTheWay
    BY <1>7 DEF ReceiveSmall, OnTheWay, TypeOK
  <2> QED
    BY <1>1, <1>7, <2>1 DEF ReceiveSmall
<1>8. CASE UNCHANGED vars
  BY <1>1, <1>8 DEF vars, OnTheWay
<1> QED
  BY <1>2, <1>3, <1>4, <1>5, <1>6, <1>7, <1>8 DEF Next

\* What is cut up is so for the first time.
LEMMA FirstTime ==
    ASSUME TypeOK, OnePlace, NEW d \in Datagrams, ForwardLarge(d)
    PROVE  d \in Uncut /\ d \notin Uncut'
<1>1. Reading(d) /\ unsent' = unsent /\ OnTheWay' = OnTheWay
  BY DEF ForwardLarge, Reading, OnTheWay
<1> QED
  BY <1>1, ReadingLeaves DEF Uncut

\* What is sent as a lossy packet is not cut up.
LEMMA SmallIsSmall ==
    ASSUME TypeOK, NEW d \in Datagrams, ReceiveSmall(d)
    PROVE  ~Large(d) /\ d \in OnTheWay
<1>1. d \in OnTheWay /\ Size[d] <= SingleMax
  BY DEF TypeOK, ReceiveSmall, OnTheWay
<1>2. Size[d] \in Nat /\ SingleMax \in Nat
  BY TransportAssumption
<1> QED
  BY <1>1, <1>2 DEF Large

-----------------------------------------------------------------------------
(* Fragments stay what they are, and are at one place. *)

LEMMA StreamIs ==
    ASSUME StreamOK
    PROVE  Stream \in Seq(LargeFragments) /\ DOMAIN Stream = 1 .. Len(Stream)
<1>1. Stream \in Seq(LargeFragments)
  BY Joining DEF StreamOK, Stream
<1> QED
  BY <1>1, LenProperties

LEMMA ValuesDropped ==
    ASSUME NEW s \in Seq(LargeFragments), NEW q \in 1 .. Len(s),
           NEW u \in Seq(LargeFragments), Dropped(s, q, u), Injective(s)
    PROVE  Injective(u) /\ Values(u) \subseteq Values(s)
<1>0. /\ Len(s) \in Nat /\ Len(u) = Len(s) - 1 /\ q \in Nat \ {0}
      /\ DOMAIN s = 1 .. Len(s) /\ DOMAIN u = 1 .. Len(u)
  BY LenProperties DEF Dropped
<1> DEFINE at(p) == IF p < q THEN p ELSE p + 1
<1>1. ASSUME NEW p \in DOMAIN u PROVE at(p) \in DOMAIN s /\ u[p] = s[at(p)]
  <2>1. CASE p < q
    <3>1. p \in 1 .. q - 1 /\ p \in 1 .. Len(s)
      BY <1>0, <2>1
    <3> QED
      BY <1>0, <2>1, <3>1 DEF Dropped
  <2>2. CASE ~(p < q)
    <3>1. p \in q .. Len(u) /\ p + 1 \in 1 .. Len(s)
      BY <1>0, <2>2
    <3> QED
      BY <1>0, <2>2, <3>1 DEF Dropped
  <2> QED
    BY <2>1, <2>2
<1>2. ASSUME NEW p \in DOMAIN u, NEW r \in DOMAIN u, at(p) = at(r) PROVE p = r
  BY <1>0, <1>2
<1> HIDE DEF at
<1> QED
  BY <1>1, <1>2 DEF Injective, Values

LEMMA ValuesCutOff ==
    ASSUME NEW s \in Seq(LargeFragments), NEW u \in Seq(LargeFragments),
           Len(u) <= Len(s), \A p \in 1 .. Len(u) : u[p] = s[p], Injective(s)
    PROVE  Injective(u) /\ Values(u) \subseteq Values(s)
<1>0. /\ DOMAIN s = 1 .. Len(s) /\ DOMAIN u = 1 .. Len(u)
      /\ Len(s) \in Nat /\ Len(u) \in Nat
  BY LenProperties
<1>1. \A p \in DOMAIN u : p \in DOMAIN s /\ u[p] = s[p]
  BY <1>0
<1> QED
  BY <1>1 DEF Injective, Values

LEMMA ValuesTaken ==
    ASSUME NEW s \in Seq(LargeFragments), NEW q \in 1 .. Len(s),
           NEW u \in Seq(LargeFragments), Taken(s, q, u), Injective(s)
    PROVE  /\ Injective(u) /\ Values(u) \subseteq Values(s)
           /\ \A p \in 1 .. q : s[p] \notin Values(u)
<1>0. /\ Len(s) \in Nat /\ Len(u) = Len(s) - q /\ q \in Nat \ {0}
      /\ DOMAIN s = 1 .. Len(s) /\ DOMAIN u = 1 .. Len(u)
  BY LenProperties DEF Taken
<1>1. \A p \in DOMAIN u : p + q \in DOMAIN s /\ p + q \notin 1 .. q /\ p \in Nat
  BY <1>0
<1>2. \A p \in DOMAIN u : u[p] = s[p + q]
  BY <1>0 DEF Taken
<1>3. Injective(u)
  <2> SUFFICES ASSUME NEW p \in DOMAIN u, NEW r \in DOMAIN u, u[p] = u[r] PROVE p = r
    BY DEF Injective
  <2>1. p + q = r + q
    BY <1>1, <1>2 DEF Injective
  <2> QED
    BY <1>0, <1>1, <2>1
<1>4. Values(u) \subseteq Values(s)
  BY <1>1, <1>2 DEF Values
<1>5. ASSUME NEW p \in 1 .. q, s[p] \in Values(u) PROVE FALSE
  <2>1. PICK r \in DOMAIN u : s[p] = s[r + q]
    BY <1>2, <1>5 DEF Values
  <2>2. p \in DOMAIN s
    BY <1>0
  <2>3. p = r + q
    BY <1>1, <2>1, <2>2 DEF Injective
  <2> QED
    BY <1>1, <2>3
<1> QED
  BY <1>3, <1>4, <1>5

LEMMA ValuesExtended ==
    ASSUME NEW s \in Seq(LargeFragments), NEW d \in Datagrams,
           NEW n \in 1 .. FragmentCount(d), NEW u \in Seq(LargeFragments),
           Extended(s, d, n, u), Injective(s), \A x \in Values(s) : x[1] # d
    PROVE  Injective(u) /\ \A x \in Values(u) : x \in Values(s) \/ x[1] = d
<1>0. /\ Len(s) \in Nat /\ Len(u) = Len(s) + n /\ n \in Nat \ {0}
      /\ DOMAIN s = 1 .. Len(s) /\ DOMAIN u = 1 .. Len(u)
  <2>1. FragmentCount(d) \in Nat \ {0}
    BY Cut
  <2> QED
    BY <2>1, LenProperties DEF Extended
<1>1. ASSUME NEW p \in DOMAIN u
      PROVE  \/ p \in DOMAIN s /\ u[p] = s[p] /\ u[p] \in Values(s)
             \/ p \notin DOMAIN s /\ p \in Int /\ u[p] = <<d, p - Len(s)>>
  <2>1. CASE p <= Len(s)
    <3>1. p \in 1 .. Len(s)
      BY <1>0, <2>1
    <3> QED
      BY <1>0, <3>1 DEF Extended, Values
  <2>2. CASE ~(p <= Len(s))
    <3>1. p - Len(s) \in 1 .. n /\ p = Len(s) + (p - Len(s)) /\ p \in Int
      BY <1>0, <2>2
    <3>2. u[Len(s) + (p - Len(s))] = <<d, p - Len(s)>>
      BY <3>1 DEF Extended
    <3> QED
      BY <1>0, <2>2, <3>1, <3>2
  <2> QED
    BY <2>1, <2>2
<1>2. ASSUME NEW p \in DOMAIN u, NEW r \in DOMAIN u, u[p] = u[r] PROVE p = r
  <2>1. CASE p \in DOMAIN s /\ r \in DOMAIN s
    BY <1>1, <1>2, <2>1 DEF Injective
  <2>2. CASE p \notin DOMAIN s /\ r \notin DOMAIN s
    <3>1. p - Len(s) = r - Len(s) /\ p \in Int /\ r \in Int
      BY <1>1, <1>2, <2>2
    <3> QED
      BY <1>0, <3>1
  <2>3. ASSUME NEW x \in DOMAIN u, NEW y \in DOMAIN u, u[x] = u[y],
               x \in DOMAIN s, y \notin DOMAIN s
        PROVE  FALSE
    <3>1. u[x] \in Values(s) /\ u[y][1] = d
      BY <1>1, <2>3
    <3> QED
      BY <2>3, <3>1
  <2> QED
    BY <1>2, <2>1, <2>2, <2>3
<1>3. \A x \in Values(u) : x \in Values(s) \/ x[1] = d
  BY <1>1 DEF Values
<1> QED
  BY <1>2, <1>3 DEF Injective

\* w is handed on.
Handed(w) == out' = Append(out, w)

LEMMA OutExtended ==
    ASSUME TypeOK, NEW w \in Seq(Fragments), Handed(w)
    PROVE  /\ Len(out) \in Nat
           /\ DOMAIN out = 1 .. Len(out) /\ DOMAIN out' = 1 .. Len(out) + 1
           /\ \A i \in 1 .. Len(out) : out'[i] = out[i]
           /\ out'[Len(out) + 1] = w
           /\ OutValues' = OutValues \cup LargeValues(w)
<1>0. out \in Seq(Seq(Fragments))
  BY DEF TypeOK
<1>1. /\ Len(out) \in Nat /\ DOMAIN out = 1 .. Len(out)
      /\ DOMAIN out' = 1 .. Len(out) + 1
      /\ \A i \in 1 .. Len(out) : out'[i] = out[i]
      /\ out'[Len(out) + 1] = w
  BY <1>0, AppendProperties, LenProperties DEF Handed
<1>2. DOMAIN out' = DOMAIN out \cup {Len(out) + 1}
  BY <1>1
<1>3. \A i \in DOMAIN out : LargeValues(out'[i]) = LargeValues(out[i])
  BY <1>1
<1>4. OutValues' = UNION {LargeValues(out'[i]) : i \in DOMAIN out'}
  BY DEF OutValues, LargeValues, Values
<1>5. OutValues' = OutValues \cup LargeValues(w)
  BY <1>1, <1>2, <1>3, <1>4 DEF OutValues
<1> QED
  BY <1>1, <1>5

\* No fragment of a datagram that was cut up is in s twice.
LargeOnce(s) == \A p, q \in DOMAIN s : s[p] = s[q] /\ Large(s[p][1]) => p = q

LEMMA StaysDistinct ==
    ASSUME TypeOK, FragmentsOnce, NEW w \in Seq(Fragments), Handed(w), LargeOnce(w),
           LargeValues(w) \cap OutValues = {}
    PROVE  FragmentsOnce'
<1>1. /\ Len(out) \in Nat
      /\ DOMAIN out = 1 .. Len(out) /\ DOMAIN out' = 1 .. Len(out) + 1
      /\ \A i \in 1 .. Len(out) : out'[i] = out[i]
      /\ out'[Len(out) + 1] = w
  BY OutExtended
<1>2. ASSUME NEW i \in DOMAIN out', NEW j \in DOMAIN out',
             NEW k \in DOMAIN out'[i], NEW l \in DOMAIN out'[j],
             out'[i][k] = out'[j][l], Large(out'[i][k][1])
      PROVE  i = j /\ k = l
  <2> DEFINE last == Len(out) + 1
  <2>1. /\ (i \in DOMAIN out /\ out'[i] = out[i]) \/ (i = last /\ out'[i] = w)
        /\ (j \in DOMAIN out /\ out'[j] = out[j]) \/ (j = last /\ out'[j] = w)
    BY <1>1
  <2> HIDE DEF last
  <2>2. CASE i \in DOMAIN out /\ j \in DOMAIN out /\ out'[i] = out[i] /\ out'[j] = out[j]
    BY <1>2, <2>2 DEF FragmentsOnce
  <2>3. CASE i = last /\ j = last /\ out'[i] = w /\ out'[j] = w
    BY <1>2, <2>3 DEF LargeOnce
  <2>4. CASE i \in DOMAIN out /\ out'[i] = out[i] /\ out'[j] = w
    BY <1>2, <2>4 DEF LargeValues, Values, OutValues
  <2>5. CASE out'[i] = w /\ j \in DOMAIN out /\ out'[j] = out[j]
    BY <1>2, <2>5 DEF LargeValues, Values, OutValues
  <2> QED
    BY <2>1, <2>2, <2>3, <2>4, <2>5
<1> QED
  BY <1>2 DEF FragmentsOnce

\* What is handed on leaves the stream, or is a lossy packet.
HandedOnce(w) ==
    /\ Handed(w) /\ w \in Seq(Fragments) /\ LargeOnce(w)
    /\ LargeValues(w) \cap OutValues = {} /\ LargeValues(w) \cap Values(Stream)' = {}
    /\ \A x \in LargeValues(w) : x[1] \notin Uncut'

LEMMA FragmentSteps ==
    ASSUME TypeOK, StreamOK, StreamOK', OnePlace, CutUp, Once, [Next]_vars
    PROVE  /\ Injective(Stream)'
           /\ \A x \in Values(Stream)' : \/ x \in Values(Stream)
                                         \/ x[1] \in Uncut \ Uncut' /\ UNCHANGED out
           /\ UNCHANGED out \/ \E w \in Seq(Fragments) : HandedOnce(w)
<1> DEFINE P == /\ Injective(Stream')
                /\ \A x \in Values(Stream') : \/ x \in Values(Stream)
                                              \/ x[1] \in Uncut \ Uncut' /\ UNCHANGED out
                /\ UNCHANGED out \/ \E w \in Seq(Fragments) : HandedOnce(w)
<1>0. /\ Stream \in Seq(LargeFragments) /\ Stream' \in Seq(LargeFragments)
      /\ DOMAIN Stream = 1 .. Len(Stream)
      /\ Injective(Stream) /\ Uncut' \subseteq Uncut
      /\ LargeFragments \subseteq Fragments
  <2>1. Stream' \in Seq(LargeFragments)
    BY Joining DEF StreamOK, Stream
  <2> QED
    BY <2>1, StreamIs, PlacesStep DEF Once, LargeFragments
<1>1. CASE Disconnect \/ DestroyTunnelB
  <2>1. Len(Stream') <= Len(Stream) /\ \A p \in 1 .. Len(Stream') : Stream'[p] = Stream[p]
    <3>1. CASE Disconnect
      <4>1. buffer' = buffer /\ lossless' = << >>
        BY <3>1 DEF Disconnect
      <4>2. Stream' = buffer
        BY <4>1, ConcatEmptySeq DEF Stream, StreamOK
      <4>3. Len(buffer) \in Nat /\ Len(lossless) \in Nat
            /\ Len(Stream) = Len(buffer) + Len(lossless)
            /\ \A p \in 1 .. Len(buffer) : Stream[p] = buffer[p]
        BY Joining DEF StreamOK, Stream
      <4> QED
        BY <4>2, <4>3
    <3>2. CASE DestroyTunnelB
      <4>1. buffer' = << >> /\ lossless' = << >>
        BY <3>2 DEF DestroyTunnelB, StreamOK
      <4>2. Stream' = << >>
        BY <4>1, EmptySeq, ConcatEmptySeq DEF Stream
      <4>3. Len(Stream') = 0 /\ Len(Stream) \in Nat
        BY <1>0, <4>2, EmptySeq, LenProperties
      <4> QED
        BY <4>3
    <3> QED
      BY <1>1, <3>1, <3>2
  <2>2. UNCHANGED out
    BY <1>1 DEF Disconnect, DestroyTunnelB
  <2> QED
    BY <1>0, <2>1, <2>2, ValuesCutOff
<1>2. ASSUME NEW d \in Datagrams, ForwardLarge(d) PROVE P
  <2>1. UNCHANGED out /\ d \in Uncut /\ d \notin Uncut'
    BY <1>2, FirstTime DEF ForwardLarge, Reading
  <2>2. PICK n \in 0 .. FragmentCount(d) :
          /\ n = 0 => lossless' = lossless
          /\ n # 0 => n \in 1 .. FragmentCount(d) /\ Extended(Stream, d, n, Stream')
    BY <1>2, LargeCase
  <2>3. CASE n = 0
    <3>1. Stream' = Stream
      BY <1>2, <2>2, <2>3 DEF Stream, ForwardLarge, Reading
    <3> QED
      BY <1>0, <2>1, <3>1
  <2>4. CASE n # 0
    <3>1. \A x \in Values(Stream) : x[1] # d
      BY <2>1 DEF CutUp
    <3>2. Injective(Stream') /\ \A x \in Values(Stream') : x \in Values(Stream) \/ x[1] = d
      BY <1>0, <2>2, <2>4, <3>1, ValuesExtended
    <3> QED
      BY <2>1, <3>2
  <2> QED
    BY <2>3, <2>4
<1>3. CASE ReceiveFragment
  <2> DEFINE q == Len(buffer) + 1
  <2>1. q \in 1 .. Len(Stream) /\ lossless # << >>
    BY <1>3, ReceiveCases
  <2>2. CASE Dropped(Stream, q, Stream') /\ UNCHANGED out
    BY <1>0, <2>1, <2>2, ValuesDropped
  <2>3. CASE Stream' = Stream /\ UNCHANGED out
    BY <1>0, <2>3
  <2>4. CASE Taken(Stream, q, Stream') /\ HandOn(Rest)
    <3>1. /\ Injective(Stream') /\ Values(Stream') \subseteq Values(Stream)
          /\ \A p \in 1 .. q : Stream[p] \notin Values(Stream')
      BY <1>0, <2>1, <2>4, ValuesTaken
    <3>2. /\ Rest \in Seq(LargeFragments) /\ Len(Rest) = q
          /\ \A p \in 1 .. q : Rest[p] = Stream[p]
      BY <2>1, RestIs
    <3>3. DOMAIN Rest = 1 .. q /\ \A p \in 1 .. q : p \in DOMAIN Stream
      <4>1. Len(Stream) \in Nat /\ q \in Nat
        BY <1>0, <2>1, LenProperties
      <4> QED
        BY <1>0, <2>1, <3>2, <4>1, LenProperties
    <3>4. Rest \in Seq(Fragments)
      BY <1>0, <3>2
    <3>5. Injective(Rest)
      BY <1>0, <3>2, <3>3 DEF Injective
    <3>6. Values(Rest) \subseteq Values(Stream) /\ Values(Rest) \cap Values(Stream') = {}
      BY <3>1, <3>2, <3>3 DEF Values
    <3>7. Values(Rest) \cap OutValues = {} /\ \A x \in Values(Rest) : x[1] \notin Uncut'
      BY <1>0, <3>6 DEF Once, CutUp
    <3>8. Values(Stream') = Values(Stream)'
      BY DEF Values
    <3>9. UNCHANGED out \/ HandedOnce(Rest)
      BY <2>4, <3>4, <3>5, <3>6, <3>7, <3>8
         DEF HandOn, Handed, HandedOnce, LargeOnce, LargeValues, Injective
    <3> QED
      BY <3>1, <3>4, <3>9
  <2> QED
    BY <1>3, <2>2, <2>3, <2>4, ReceiveCases
<1>4. CASE UNCHANGED <<buffer, lossless, out>>
  BY <1>0, <1>4 DEF Stream
<1>5. ASSUME NEW d \in Datagrams, ReceiveSmall(d), UNCHANGED <<buffer, lossless>> PROVE P
  <2>1. Stream' = Stream
    BY <1>5 DEF Stream
  <2> DEFINE w == Whole(d)
  <2>2. /\ w \in Seq(Fragments) /\ DOMAIN w = 1 .. FragmentCount(d)
        /\ \A i \in 1 .. FragmentCount(d) : w[i] = <<d, i>>
    BY WholeIs DEF Whole
  <2>3. UNCHANGED out \/ Handed(w)
    BY <1>5 DEF ReceiveSmall, HandOn, Handed
  <2> HIDE DEF w
  <2>4. \A i \in DOMAIN w : ~Large(w[i][1])
    BY <1>5, <2>2, SmallIsSmall
  <2>5. LargeOnce(w) /\ LargeValues(w) = {}
    BY <2>4 DEF LargeOnce, LargeValues, Values
  <2>6. UNCHANGED out \/ HandedOnce(w)
    BY <2>2, <2>3, <2>5 DEF HandedOnce
  <2> QED
    BY <1>0, <2>1, <2>2, <2>6
<1>6. P
  BY <1>1, <1>2, <1>3, <1>4, <1>5, Kinds
<1>7. Injective(Stream') = Injective(Stream)' /\ Values(Stream') = Values(Stream)'
  BY DEF Injective, Values
<1> QED
  BY <1>6, <1>7

LEMMA OnceStep ==
    ASSUME TypeOK, StreamOK, StreamOK', OnePlace, CutUp, Once, [Next]_vars
    PROVE  CutUp' /\ Once'
<1>1. /\ Injective(Stream)'
      /\ \A x \in Values(Stream)' : \/ x \in Values(Stream)
                                    \/ x[1] \in Uncut \ Uncut' /\ UNCHANGED out
      /\ UNCHANGED out \/ \E w \in Seq(Fragments) : HandedOnce(w)
  BY FragmentSteps
<1>2. Uncut' \subseteq Uncut
  BY PlacesStep
<1>3. \A x \in Values(Stream)' : x[1] \notin Uncut'
  BY <1>1, <1>2 DEF CutUp
<1>4. CASE UNCHANGED out
  <2>1. OutValues' = OutValues
    BY <1>4 DEF OutValues, LargeValues, Values
  <2>2. FragmentsOnce'
    BY <1>4 DEF Once, FragmentsOnce
  <2>3. OutValues' \cap Values(Stream)' = {}
    BY <1>1, <2>1 DEF Once, CutUp
  <2> QED
    BY <1>1, <1>2, <1>3, <2>1, <2>2, <2>3 DEF Once, CutUp
<1>5. ASSUME NEW w \in Seq(Fragments), HandedOnce(w) PROVE CutUp' /\ Once'
  <2>1. OutValues' = OutValues \cup LargeValues(w)
    BY <1>5, OutExtended DEF HandedOnce
  <2>2. FragmentsOnce'
    BY <1>5, StaysDistinct DEF HandedOnce, Once
  <2>3. \A x \in Values(Stream)' : x \in Values(Stream) \/ x[1] \in Uncut
    BY <1>1
  <2>4. OutValues' \cap Values(Stream)' = {}
    BY <1>5, <2>1, <2>3 DEF Once, CutUp, HandedOnce
  <2>5. \A x \in OutValues' : x[1] \notin Uncut'
    BY <1>2, <1>5, <2>1 DEF CutUp, HandedOnce
  <2> QED
    BY <1>1, <1>3, <2>2, <2>4, <2>5 DEF Once, CutUp
<1> QED
  BY <1>1, <1>4, <1>5

-----------------------------------------------------------------------------
(* Breaks *)

\* What was sent stays sent, so nothing is damaged later.
LEMMA DamagedLater ==
    ASSUME TypeOK, TypeOK', [Next]_vars
    PROVE  /\ Cardinality(Damaged) \in Nat /\ Cardinality(Damaged') \in Nat
           /\ UNCHANGED out => Cardinality(Damaged') <= Cardinality(Damaged)
           /\ \A w \in Seq(Fragments) : Handed(w) =>
                /\ Cardinality(Damaged') <= Cardinality(Damaged) + 1
                /\ w \in Sent' => Cardinality(Damaged') <= Cardinality(Damaged)
<1>1. Sent \subseteq Sent'
  <2>1. unsent' \subseteq unsent
    BY DEF Next, vars, Connect, Disconnect, CreateTunnelA, DestroyTunnelA, CreateTunnelB,
       DestroyTunnelB, NegotiateB, SetOutbound, ClientSends, Forward, DropOversized,
       ForwardSmall, ForwardLarge, Reading, ReceiveSmall, ReceiveFragment
  <2> QED
    BY <2>1 DEF Sent
<1>2. IsFiniteSet(DOMAIN out) /\ IsFiniteSet(DOMAIN out')
  BY FS_Interval, LenProperties DEF TypeOK
<1>3. /\ IsFiniteSet(Damaged) /\ Cardinality(Damaged) \in Nat
      /\ IsFiniteSet(Damaged') /\ Cardinality(Damaged') \in Nat
  <2>1. Damaged \subseteq DOMAIN out /\ Damaged' \subseteq DOMAIN out'
    BY DEF Damaged
  <2> QED
    BY <1>2, <2>1, FS_Subset, FS_CardinalityType
<1>4. ASSUME UNCHANGED out PROVE Cardinality(Damaged') <= Cardinality(Damaged)
  <2>1. Damaged' \in SUBSET Damaged
    BY <1>1, <1>4 DEF Damaged
  <2> QED
    BY <1>3, <2>1, FS_Subset
<1>5. ASSUME NEW w \in Seq(Fragments), Handed(w)
      PROVE  /\ Cardinality(Damaged') <= Cardinality(Damaged) + 1
             /\ w \in Sent' => Cardinality(Damaged') <= Cardinality(Damaged)
  <2> DEFINE last == Len(out) + 1
  <2>1. /\ Len(out) \in Nat
        /\ DOMAIN out = 1 .. Len(out) /\ DOMAIN out' = 1 .. last
        /\ \A i \in 1 .. Len(out) : out'[i] = out[i]
        /\ out'[last] = w
    BY <1>5, OutExtended
  <2>2. DOMAIN out' = DOMAIN out \cup {last} /\ \A i \in DOMAIN out : out'[i] = out[i]
    BY <2>1
  <2> HIDE DEF last
  <2>3. Damaged' \in SUBSET (Damaged \cup {last})
    BY <1>1, <2>2 DEF Damaged
  <2>4. /\ IsFiniteSet(Damaged \cup {last})
        /\ Cardinality(Damaged \cup {last}) =
            IF last \in Damaged THEN Cardinality(Damaged) ELSE Cardinality(Damaged) + 1
    BY <1>3, FS_AddElement
  <2>5. Cardinality(Damaged') <= Cardinality(Damaged) + 1
    <3>1. Cardinality(Damaged') <= Cardinality(Damaged \cup {last})
      BY <2>3, <2>4, FS_Subset
    <3> QED
      BY <1>3, <2>4, <3>1
  <2>6. ASSUME w \in Sent' PROVE Cardinality(Damaged') <= Cardinality(Damaged)
    <3>1. Damaged' \in SUBSET Damaged
      BY <1>1, <2>1, <2>2, <2>6 DEF Damaged
    <3> QED
      BY <1>3, <3>1, FS_Subset
  <2> QED
    BY <2>5, <2>6
<1> QED
  BY <1>3, <1>4, <1>5

\* What is handed on is a datagram that was sent, or a seam goes with it.
LEMMA WholeOrSeam ==
    ASSUME TypeOK, StreamOK, CutUp, lossless # << >>, IsLast(Head(lossless))
    PROVE  Rest \in Sent \/ \E p \in 1 .. Len(buffer) + 1 : p \in Seams(Stream)
<1> DEFINE q == Len(buffer) + 1
           d == Stream[1][1]
<1>1. /\ Stream \in Seq(LargeFragments) /\ DOMAIN Stream = 1 .. Len(Stream)
      /\ Len(Stream) \in Nat
  BY StreamIs, LenProperties
<1>2. /\ Rest \in Seq(LargeFragments) /\ Len(Rest) = q
      /\ q \in 1 .. Len(Stream) /\ Stream[q] = Head(lossless)
      /\ \A p \in 1 .. q : Rest[p] = Stream[p]
      /\ \A p \in 1 .. q - 1 : ~IsLast(Stream[p])
  BY RestIs
<1>3. SUFFICES ASSUME \A p \in 1 .. q : p \notin Seams(Stream) PROVE Rest \in Sent
  OBVIOUS
<1> HIDE DEF q
<1>4. q = FragmentCount(d) /\ \A p \in 1 .. q : Stream[p] = <<d, p>>
  BY <1>1, <1>2, <1>3, WholeWithoutSeams
<1>5. Stream[1] \in LargeFragments /\ 1 \in DOMAIN Stream
  BY <1>1, <1>2, ElementOfSeq
<1>6. d \in Datagrams /\ d \notin unsent
  BY <1>5, FragmentIs DEF CutUp, Values, Uncut
<1>7. Rest = Whole(d)
  <2> DEFINE r == Rest
             w == Whole(d)
  <2>1. /\ r \in Seq(LargeFragments) /\ Len(r) = q
        /\ \A p \in 1 .. q : r[p] = <<d, p>>
    BY <1>2, <1>4
  <2>2. r = [p \in 1 .. q |-> r[p]]
    BY <2>1, LenProperties
  <2>3. w = [p \in 1 .. q |-> <<d, p>>]
    BY <1>4 DEF Whole
  <2> HIDE DEF r, w
  <2>4. [p \in 1 .. q |-> r[p]] = [p \in 1 .. q |-> <<d, p>>]
    BY <2>1
  <2> QED
    BY <2>2, <2>3, <2>4 DEF r, w
<1> QED
  BY <1>6, <1>7 DEF Sent

LEMMA SeamsStep ==
    ASSUME TypeOK, TypeOK', StreamOK, StreamOK', OnePlace, CutUp, SeamsCounted,
           [Next]_vars
    PROVE  SeamsCounted'
<1> DEFINE seams == Cardinality(Seams(Stream))
           seamsNext == Cardinality(Seams(Stream'))
           damaged == Cardinality(Damaged)
           damagedNext == Cardinality(Damaged')
<1>1. /\ Stream \in Seq(LargeFragments) /\ DOMAIN Stream = 1 .. Len(Stream)
      /\ Stream' \in Seq(LargeFragments) /\ LargeFragments \subseteq Fragments
  <2>1. Stream' \in Seq(LargeFragments)
    BY Joining DEF StreamOK, Stream
  <2> QED
    BY <2>1, StreamIs DEF LargeFragments
<1>2. /\ seams \in Nat /\ seamsNext \in Nat
      /\ damaged \in Nat /\ damagedNext \in Nat
      /\ breaks \in Nat /\ damaged + seams <= breaks
  BY <1>1, SeamsFinite, DamagedLater DEF TypeOK, SeamsCounted
<1>3. UNCHANGED out => damagedNext <= damaged
  BY DamagedLater
<1>4. ASSUME Stream' = Stream PROVE seamsNext = seams
  BY <1>4
<1> DEFINE P == damagedNext + seamsNext <= breaks'
<1> SUFFICES P
  BY DEF SeamsCounted, Seams, Joined, IsLast, FragmentSize
<1>5. CASE Disconnect
  <2>1. /\ buffer' = buffer /\ lossless' = << >> /\ UNCHANGED out
        /\ breaks' = IF lossless = << >> THEN breaks ELSE breaks + 1
    BY <1>5 DEF Disconnect
  <2>2. CASE lossless = << >>
    <3>1. Stream' = Stream
      BY <2>1, <2>2 DEF Stream
    <3> QED
      BY <1>2, <1>3, <1>4, <2>1, <2>2, <3>1
  <2>3. CASE lossless # << >>
    <3>1. Stream' = buffer
      BY <2>1, ConcatEmptySeq DEF Stream, StreamOK
    <3>2. /\ Len(buffer) \in Nat /\ Len(lossless) \in Nat
          /\ Len(Stream) = Len(buffer) + Len(lossless)
          /\ \A p \in 1 .. Len(buffer) : Stream[p] = buffer[p]
      BY Joining DEF StreamOK, Stream
    <3>3. seamsNext <= seams + 1
      <4>1. Len(Stream') <= Len(Stream) /\ \A p \in 1 .. Len(Stream') : Stream'[p] = Stream[p]
        BY <3>1, <3>2
      <4> QED
        BY <1>1, <4>1, SeamsCutOff
    <3> QED
      BY <1>2, <1>3, <2>1, <2>3, <3>3
  <2> QED
    BY <2>2, <2>3
<1>6. CASE DestroyTunnelB
  <2>1. buffer' = << >> /\ lossless' = << >> /\ UNCHANGED <<out, breaks>>
    BY <1>6 DEF DestroyTunnelB, StreamOK
  <2>2. Stream' = << >> /\ Len(Stream') = 0
    BY <2>1, EmptySeq, ConcatEmptySeq DEF Stream
  <2>3. Seams(Stream') = {}
    BY <2>2 DEF Seams, Joined
  <2>4. seamsNext = 0
    BY <2>3, FS_EmptySet
  <2> QED
    BY <1>2, <1>3, <2>1, <2>4
<1>7. ASSUME NEW d \in Datagrams, ForwardLarge(d) PROVE P
  <2>1. UNCHANGED <<out, buffer>> /\ Large(d)
    BY <1>7 DEF ForwardLarge, Reading
  <2>2. PICK n \in 0 .. FragmentCount(d) :
          /\ breaks' = IF n = FragmentCount(d) THEN breaks ELSE breaks + 1
          /\ n = 0 => lossless' = lossless
          /\ n # 0 => n \in 1 .. FragmentCount(d) /\ Extended(Stream, d, n, Stream')
    BY <1>7, LargeCase
  <2>3. CASE n = 0
    <3>1. Stream' = Stream
      BY <2>1, <2>2, <2>3 DEF Stream
    <3>2. breaks' = breaks + 1
      BY <2>2, <2>3, Cut
    <3> QED
      BY <1>2, <1>3, <1>4, <2>1, <3>1, <3>2
  <2>4. CASE n # 0
    <3>1. seamsNext <= seams + (IF n = FragmentCount(d) THEN 0 ELSE 1)
      BY <1>1, <2>1, <2>2, <2>4, SeamsExtended
    <3> QED
      BY <1>2, <1>3, <2>1, <2>2, <3>1
  <2> QED
    BY <2>3, <2>4
<1>8. CASE ReceiveFragment
  <2> DEFINE q == Len(buffer) + 1
  <2>1. q \in 1 .. Len(Stream) /\ lossless # << >>
    BY <1>8, ReceiveCases
  <2>2. CASE Dropped(Stream, q, Stream') /\ breaks' = breaks + 1 /\ UNCHANGED out
    <3>1. seamsNext <= seams + 1
      BY <1>1, <2>1, <2>2, SeamsDropped
    <3> QED
      BY <1>2, <1>3, <2>2, <3>1
  <2>3. CASE Stream' = Stream /\ UNCHANGED <<out, breaks>>
    BY <1>2, <1>3, <1>4, <2>3
  <2>4. CASE /\ Taken(Stream, q, Stream') /\ IsLast(Head(lossless))
             /\ HandOn(Rest) /\ UNCHANGED breaks
    <3>1. /\ seamsNext <= seams
          /\ (\E p \in 1 .. q : p \in Seams(Stream)) => seamsNext <= seams - 1
      BY <1>1, <2>1, <2>4, SeamsTaken
    <3>2. CASE UNCHANGED out
      BY <1>2, <1>3, <2>4, <3>1, <3>2
    <3>3. CASE Handed(Rest)
      <4>1. Rest \in Seq(Fragments)
        BY <1>1, <2>1, RestIs
      <4>2. /\ damagedNext <= damaged + 1
            /\ Rest \in Sent' => damagedNext <= damaged
        BY <3>3, <4>1, DamagedLater
      <4>3. Rest \in Sent' \/ \E p \in 1 .. q : p \in Seams(Stream)
        <5>1. unsent' = unsent
          BY <1>8 DEF ReceiveFragment
        <5>2. Sent' = Sent
          BY <5>1 DEF Sent
        <5> QED
          BY <2>1, <2>4, <5>2, WholeOrSeam
      <4> QED
        BY <1>2, <2>4, <3>1, <4>2, <4>3
    <3> QED
      BY <2>4, <3>2, <3>3 DEF HandOn, Handed
  <2> QED
    BY <1>8, <2>2, <2>3, <2>4, ReceiveCases
<1>9. CASE UNCHANGED <<buffer, lossless, breaks, out>>
  <2>1. Stream' = Stream
    BY <1>9 DEF Stream
  <2> QED
    BY <1>2, <1>3, <1>4, <1>9, <2>1
<1>10. ASSUME NEW d \in Datagrams, ReceiveSmall(d), UNCHANGED <<buffer, lossless, breaks>>
       PROVE  P
  <2>1. Stream' = Stream
    BY <1>10 DEF Stream
  <2>2. UNCHANGED out \/ Handed(Whole(d))
    BY <1>10 DEF ReceiveSmall, HandOn, Handed
  <2>3. Whole(d) \in Seq(Fragments)
    BY WholeIs
  <2>4. Whole(d) \in Sent'
    BY <1>10, SmallIsSmall DEF ReceiveSmall, OnePlace, Sent
  <2>5. damagedNext <= damaged
    BY <1>3, <2>2, <2>3, <2>4, DamagedLater
  <2> QED
    BY <1>2, <1>4, <1>10, <2>1, <2>5
<1> QED
  BY <1>5, <1>6, <1>7, <1>8, <1>9, <1>10, Kinds

-----------------------------------------------------------------------------
(* The invariant *)

LEMMA InitIInv == Init => IInv
<1> SUFFICES ASSUME Init PROVE IInv
  OBVIOUS
<1>1. TypeOK /\ StreamOK
  BY TypeInit, StreamInit
<1>2. /\ inbox = << >> /\ DOMAIN inbox = {} /\ out = << >> /\ DOMAIN out = {}
      /\ OnTheWay = {} /\ breaks = 0
  BY EmptySeq DEF Init, OnTheWay
<1>3. Stream = << >> /\ DOMAIN Stream = {} /\ Len(Stream) = 0
  BY EmptySeq, ConcatEmptySeq DEF Init, Stream
<1>4. Values(Stream) = {} /\ OutValues = {}
  BY <1>2, <1>3 DEF Values, OutValues
<1>5. OnePlace /\ CutUp /\ Once
  BY <1>2, <1>3, <1>4 DEF OnePlace, CutUp, Once, Injective, FragmentsOnce
<1>6. Seams(Stream) = {} /\ Damaged = {}
  BY <1>2, <1>3 DEF Seams, Joined, Damaged
<1>7. SeamsCounted
  BY <1>2, <1>6, FS_EmptySet DEF SeamsCounted
<1> QED
  BY <1>1, <1>5, <1>7 DEF IInv

LEMMA StepIInv == IInv /\ [Next]_vars => IInv'
BY TypeStep, StreamStep, PlacesStep, OnceStep, SeamsStep DEF IInv

\* B's torrent client gets no fragment of a datagram that was cut up twice,
\* however often lossy packets arrive: what friend_custom_pkg_cb puts together
\* it clears the buffer of, and what tick forwards it has read off the socket.
THEOREM FragmentsOnceEver == Spec => []FragmentsOnce
<1>1. IInv => FragmentsOnce
  BY DEF IInv, Once
<1> QED
  BY <1>1, InitIInv, StepIInv, PTL DEF Spec

\* However long A and B run, however their session comes and goes and whatever
\* sends fail: friend_custom_pkg_cb has put together no more datagrams that
\* nobody sent than there were interruptions of the stream.
THEOREM DamageIsBounded == Spec => []BoundedDamage
<1>1. IInv => BoundedDamage
  <2> SUFFICES ASSUME IInv PROVE BoundedDamage
    OBVIOUS
  <2>1. breaks \in Nat /\ Cardinality(Seams(Stream)) \in Nat /\ IsFiniteSet(Damaged)
    <3>1. Stream \in Seq(LargeFragments)
      BY StreamIs DEF IInv
    <3>2. IsFiniteSet(DOMAIN out) /\ Damaged \subseteq DOMAIN out
      BY FS_Interval, LenProperties DEF IInv, TypeOK, Damaged
    <3> QED
      BY <3>1, <3>2, SeamsFinite, FS_Subset DEF IInv, TypeOK
  <2>2. Cardinality(Damaged) \in Nat
    BY <2>1, FS_CardinalityType
  <2> QED
    BY <2>1, <2>2 DEF IInv, SeamsCounted, BoundedDamage
<1> QED
  BY <1>1, InitIInv, StepIInv, PTL DEF Spec

=============================================================================
