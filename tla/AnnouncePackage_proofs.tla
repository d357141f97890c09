------------------------ MODULE AnnouncePackage_proofs ------------------------
(***************************************************************************)
(* For hashes of every size and packages of every length: what a friend    *)
(* announced and what the torrent client announces meet in the database    *)
(* exactly if they are the same bytes, and the parser gives back what To   *)
(* was given.                                                              *)
(***************************************************************************)
EXTENDS AnnouncePackage, SequenceTheorems, NaturalsInduction, WellFoundedInduction, TLAPS

LEMMA HexDigits ==
    ASSUME NEW b \in Int
    PROVE  16 * (b \div 16) + (b % 16) = b
  OBVIOUS

LEMMA HexLength ==
    ASSUME NEW n \in Nat, NEW data \in [1 .. n -> Bytes]
    PROVE  Len(ToHex(data)) = 2 * n /\ DOMAIN ToHex(data) = 1 .. 2 * n
<1>1. Len(data) = n
  OBVIOUS
<1>2. 2 * n \in Nat
  OBVIOUS
<1> QED
  BY <1>1, <1>2 DEF ToHex

\* FromHex gives back the bytes whose hex digits ToHex gives: the constructor
\* of Hash and to_string are inverse to each other.
THEOREM HexRoundTrip ==
    ASSUME NEW n \in Nat, NEW data \in [1 .. n -> Bytes]
    PROVE  FromHex(ToHex(data)) = data
<1> DEFINE hex == ToHex(data)
<1>1. Len(hex) \div 2 = n
  BY HexLength
<1>2. FromHex(hex) = [i \in 1 .. n |-> 16 * hex[2 * i - 1] + hex[2 * i]]
  BY <1>1 DEF FromHex
<1>3. ASSUME NEW i \in 1 .. n
      PROVE  16 * hex[2 * i - 1] + hex[2 * i] = data[i]
  <2>1. Len(data) = n
    OBVIOUS
  <2>2. data[i] \in 0 .. 255
    BY InfoHashAssumption
  <2>3. /\ 2 * i - 1 \in 1 .. 2 * n /\ 2 * i \in 1 .. 2 * n
        /\ (2 * i - 1) % 2 = 1 /\ (2 * i) % 2 # 1
        /\ (2 * i - 1 + 1) \div 2 = i /\ (2 * i) \div 2 = i
    OBVIOUS
  <2>4. hex[2 * i - 1] = data[i] \div 16 /\ hex[2 * i] = data[i] % 16
    BY <2>1, <2>3 DEF ToHex
  <2>5. 16 * (data[i] \div 16) + (data[i] % 16) = data[i]
    <3>1. \A b \in Int : 16 * (b \div 16) + (b % 16) = b
      BY HexDigits, Zenon
    <3>2. data[i] \in Int
      <4>1. \A b \in 0 .. 255 : b \in Int
        OBVIOUS
      <4> QED
        BY <2>2, <4>1, Zenon
    <3> QED
      BY <3>1, <3>2, Zenon
  <2> HIDE DEF hex
  <2>6. 16 * hex[2 * i - 1] = 16 * (data[i] \div 16)
    BY <2>4
  <2> QED
    BY <2>4, <2>5, <2>6
<1> QED
  BY <1>2, <1>3

-----------------------------------------------------------------------------
(* Types *)

LEMMA HashType ==
    ASSUME NEW hash \in Hashes
    PROVE  /\ hash.type \in Types
           /\ hash.data \in [1 .. HashSize[hash.type] -> Bytes]
           /\ hash = [type |-> hash.type, data |-> hash.data]
  BY DEF Hashes, Data

LEMMA HashIs ==
    ASSUME NEW type \in Types, NEW data \in [1 .. HashSize[type] -> Bytes]
    PROVE  [type |-> type, data |-> data] \in Hashes
  BY DEF Hashes, Data

\* The parser stays within the buffer, and all it makes of it are hashes of
\* their type's size.
THEOREM TypeCorrect == Spec => []TypeOK
<1>1. Init => TypeOK
  <2> SUFFICES ASSUME Init PROVE TypeOK
    OBVIOUS
  <2>1. buff \in Seq(Bytes)
    <3>1. PICK n \in 0 .. MaxSize : buff \in [1 .. n -> Bytes]
      BY DEF Init, BoundedSeq, SeqOf
    <3> QED
      BY <3>1, AnnouncePackageAssumption
  <2> QED
    BY <2>1, AnnouncePackageAssumption DEF Init, TypeOK, buff_end
<1>2. TypeOK /\ [Next]_vars => TypeOK'
  <2> SUFFICES ASSUME TypeOK, [Next]_vars PROVE TypeOK'
    OBVIOUS
  <2>1. CASE Parse
    <3> DEFINE data == SubSeq(buff, curr_buff + 1, curr_buff + HashSize[Type])
    <3>1. HashSize[Type] \in Nat \ {0} /\ Type \in Types
      BY <2>1, InfoHashAssumption DEF Parse
    <3>2. curr_buff \in Nat \ {0} /\ Len(buff) \in Nat
          /\ curr_buff + HashSize[Type] <= Len(buff)
      BY <2>1, <3>1 DEF Parse, TypeOK, buff_end
    <3>3. data \in [1 .. HashSize[Type] -> Bytes]
      <4>1. data = [k \in 1 .. HashSize[Type] |-> buff[curr_buff + k]]
        BY <3>1, <3>2 DEF TypeOK
      <4>2. \A k \in 1 .. HashSize[Type] : buff[curr_buff + k] \in Bytes
        BY <3>1, <3>2 DEF TypeOK
      <4> QED
        BY <4>1, <4>2
    <3>4. [type |-> Type, data |-> data] \in Hashes
      BY <3>1, <3>3, HashIs
    <3>5. info_hashes' \in Seq(Hashes) /\ Len(info_hashes') <= MaxHashes
      BY <2>1, <3>4, AnnouncePackageAssumption DEF Parse, More, TypeOK
    <3>6. curr_buff' \in 1 .. buff_end'
      BY <2>1, <3>1, <3>2 DEF Parse, TypeOK, buff_end
    <3> QED
      BY <2>1, <3>5, <3>6 DEF Parse, TypeOK
  <2>2. CASE Fail
    BY <2>2 DEF Fail, TypeOK, buff_end
  <2>3. CASE Return
    BY <2>3 DEF Return, TypeOK, buff_end
  <2>4. CASE UNCHANGED vars
    BY <2>4 DEF vars, TypeOK, buff_end
  <2> QED
    BY <2>1, <2>2, <2>3, <2>4 DEF Next
<1> QED
  BY <1>1, <1>2, PTL DEF Spec

-----------------------------------------------------------------------------
(* Torrents *)

LEMMA NotEmpty ==
    ASSUME NEW type \in Types, NEW data \in [1 .. HashSize[type] -> Bytes]
    PROVE  data # << >> /\ Len(data) = HashSize[type]
<1>1. HashSize[type] \in Nat \ {0}
  BY InfoHashAssumption
<1>2. Len(data) = HashSize[type]
  BY <1>1
<1> QED
  BY <1>1, <1>2

LEMMA OneHash ==
    ASSUME NEW hash \in Hashes
    PROVE  /\ First(With(hash)) = hash.type
           /\ With(hash)[hash.type] = hash.data
           /\ \A type \in Types \ {hash.type} : With(hash)[type] = << >>
<1>1. hash.type \in Types /\ hash.data # << >>
  BY HashType, NotEmpty
<1>2. With(hash) = [type \in Types |-> IF type = hash.type THEN hash.data ELSE << >>]
  BY <1>1 DEF With, Invalid
<1> QED
  BY <1>1, <1>2 DEF First, Types

\* What http_handle_announce makes of a value: the torrent of its bytes, if
\* there are as many of them as a hash of some type has.
LEMMA ClientTorrent ==
    ASSUME NEW n \in Nat, NEW value \in [1 .. n -> Bytes]
    PROVE  /\ \A type \in Types : n = HashSize[type] =>
                OfClient(value) = With([type |-> type, data |-> value])
           /\ n \notin {HashSize[type] : type \in Types} => OfClient(value) = Invalid
<1>1. Len(ToHex(value)) = 2 * n /\ FromHex(ToHex(value)) = value
  BY HexLength, HexRoundTrip
<1>2. HashSize[0] \in Nat /\ HashSize[1] \in Nat /\ HashSize[0] # HashSize[1]
  BY InfoHashAssumption DEF Types
<1>3. /\ Len(ToHex(value)) = 2 * HashSize[0] <=> n = HashSize[0]
      /\ Len(ToHex(value)) = 2 * HashSize[1] <=> n = HashSize[1]
  BY <1>1, <1>2
<1>4. OfClient(value) =
        CASE n = HashSize[0] -> With([type |-> 0, data |-> value])
          [] n = HashSize[1] -> With([type |-> 1, data |-> value])
          [] OTHER -> Invalid
  BY <1>1, <1>3 DEF OfClient
<1> QED
  BY <1>2, <1>4 DEF Types

LEMMA InvalidTorrent == First(Invalid) \in Types /\ Invalid[First(Invalid)] = << >>
  BY DEF First, Invalid, Types

\* What a friend announced and what the torrent client announces are one key
\* of the database exactly if they are the same bytes, for hashes of all sizes.
THEOREM AlwaysTheSameTorrent == Spec => []SameTorrent
<1>1. TypeOK => SameTorrent
  <2> SUFFICES ASSUME TypeOK,
                      NEW i \in DOMAIN info_hashes,
                      NEW n \in 0 .. MaxSize, NEW value \in [1 .. n -> Bytes]
               PROVE  LET friends == OfFriend(info_hashes[i])
                          clients == OfClient(value)
                      IN  /\ Equal(friends, clients) <=> value = info_hashes[i].data
                          /\ Equal(friends, clients)
                                <=> Announced(clients) = <<info_hashes[i]>>
                          /\ Equal(clients, friends) <=> Equal(friends, clients)
                          /\ Equal(friends, clients) => Mixed(friends) = Mixed(clients)
                          /\ Announced(clients) = << >> <=> ~Equal(clients, clients)
    BY DEF SameTorrent, Values
  <2> DEFINE hash == info_hashes[i]
             friends == OfFriend(hash)
             clients == OfClient(value)
  <2>1. hash \in Hashes /\ n \in Nat
    BY AnnouncePackageAssumption DEF TypeOK
  <2>2. friends = With(hash)
    BY DEF OfFriend
  <2> HIDE DEF hash, friends, clients
  <2>3. /\ hash.type \in Types /\ hash.data # << >> /\ Len(hash.data) = HashSize[hash.type]
        /\ hash = [type |-> hash.type, data |-> hash.data]
    BY <2>1, HashType, NotEmpty
  <2>4. /\ First(friends) = hash.type /\ friends[hash.type] = hash.data
        /\ \A type \in Types \ {hash.type} : friends[type] = << >>
    BY <2>1, <2>2, OneHash
  <2>5. CASE \E type \in Types : n = HashSize[type]
    <3>1. PICK type \in Types : n = HashSize[type]
      BY <2>5
    <3> DEFINE own == [type |-> type, data |-> value]
    <3>2. own \in Hashes /\ own.type = type /\ own.data = value
      BY <3>1, HashIs
    <3>3. clients = With(own)
      BY <2>1, <3>1, ClientTorrent DEF clients
    <3> HIDE DEF own
    <3>4. /\ First(clients) = type /\ clients[type] = value /\ value # << >>
          /\ \A other \in Types \ {type} : clients[other] = << >>
      BY <3>1, <3>2, <3>3, OneHash, NotEmpty
    <3>5. Len(value) = HashSize[type]
      BY <3>1, NotEmpty
    <3>6. type # hash.type => value # hash.data
      BY <2>3, <3>5, InfoHashAssumption DEF Types
    <3>7. Equal(friends, clients) <=> value = hash.data
      BY <2>3, <2>4, <3>4, <3>6 DEF Equal
    <3>8. Equal(clients, friends) <=> value = hash.data
      BY <2>3, <2>4, <3>4, <3>6 DEF Equal
    <3>9. Announced(clients) = <<own>>
      BY <3>4 DEF Announced, own
    <3>10. own = hash <=> value = hash.data
      BY <2>3, <3>2, <3>6 DEF own
    <3>11. Equal(friends, clients) => Mixed(friends) = Mixed(clients)
      BY <2>4, <3>4, <3>6, <3>7 DEF Mixed
    <3>12. Equal(clients, clients)
      BY <3>4 DEF Equal
    <3> QED
      BY <3>7, <3>8, <3>9, <3>10, <3>11, <3>12 DEF hash, friends, clients
  <2>6. CASE \A type \in Types : n # HashSize[type]
    <3>1. clients = Invalid
      BY <2>1, <2>6, ClientTorrent DEF clients
    <3>2. First(clients) \in Types /\ clients[First(clients)] = << >>
          /\ \A type \in Types : clients[type] = << >>
      BY <3>1, InvalidTorrent DEF Invalid
    <3>3. value # hash.data
      <4>1. Len(value) = n
        BY <2>1
      <4> QED
        BY <4>1, <2>3, <2>6
    <3>4. ~Equal(friends, clients) /\ ~Equal(clients, friends) /\ ~Equal(clients, clients)
      BY <2>3, <2>4, <3>2 DEF Equal
    <3>5. Announced(clients) = << >>
      BY <3>2 DEF Announced
    <3> QED
      BY <3>3, <3>4, <3>5 DEF hash, friends, clients
  <2> QED
    BY <2>5, <2>6
<1> QED
  BY <1>1, TypeCorrect, PTL

-----------------------------------------------------------------------------
(* FlattenSeq, one sequence at a time *)

\* Induction over a natural number is the least one without the property.
LEMMA Least ==
    ASSUME NEW S \in SUBSET Nat, S # {}
    PROVE  \E x \in S : \A y \in S : x <= y
<1> DEFINE R == OpToRel(<, Nat)
<1>1. IsWellFoundedOn(R, Nat)
  BY NatLessThanWellFounded
<1>2. \A y, x \in Nat : y < x => <<y, x>> \in R
  BY DEF OpToRel
<1> HIDE DEF R
<1>3. PICK x \in S : \A y \in S : <<y, x>> \notin R
  BY <1>1, WFMin
<1>4. \A y \in S : x \in Nat /\ y \in Nat /\ ~(y < x)
  BY <1>2, <1>3
<1> QED
  BY <1>4

\* The function that FlattenSeq defines by recursion
Joins(f, seqs, n) ==
    f = [i \in 1 .. n |-> IF i = 1 THEN seqs[i] ELSE f[i - 1] \o seqs[i]]

LEMMA JoinsOne ==
    ASSUME NEW seqs, NEW n \in Nat \ {0}, NEW f, Joins(f, seqs, n - 1)
    PROVE  \E g : Joins(g, seqs, n)
<1> DEFINE g == [i \in 1 .. n |->
                    IF i = n THEN IF n = 1 THEN seqs[1] ELSE f[n - 1] \o seqs[n] ELSE f[i]]
           h == [i \in 1 .. n |-> IF i = 1 THEN seqs[i] ELSE g[i - 1] \o seqs[i]]
<1>1. ASSUME NEW i \in 1 .. n, i # n PROVE g[i] = h[i]
  <2>1. i \in 1 .. n - 1
    BY <1>1
  <2>2. f[i] = IF i = 1 THEN seqs[i] ELSE f[i - 1] \o seqs[i]
    BY <2>1 DEF Joins
  <2>3. g[i] = f[i]
    BY <1>1
  <2>4. i # 1 => i - 1 \in 1 .. n /\ i - 1 # n
    BY <2>1
  <2>5. i # 1 => g[i - 1] = f[i - 1]
    BY <2>4
  <2> HIDE DEF g
  <2> QED
    BY <2>2, <2>3, <2>5
<1>2. g[n] = h[n]
  <2>1. n \in 1 .. n
    OBVIOUS
  <2>2. g[n] = IF n = 1 THEN seqs[1] ELSE f[n - 1] \o seqs[n]
    BY <2>1
  <2>3. n # 1 => n - 1 \in 1 .. n /\ n - 1 # n
    OBVIOUS
  <2>4. n # 1 => g[n - 1] = f[n - 1]
    BY <2>3
  <2> HIDE DEF g
  <2> QED
    BY <2>1, <2>2, <2>4
<1>3. g = h
  <2>1. \A i \in 1 .. n : g[i] = h[i]
    BY <1>1, <1>2
  <2>2. g = [i \in 1 .. n |-> g[i]] /\ h = [i \in 1 .. n |-> h[i]]
    OBVIOUS
  <2> HIDE DEF g, h
  <2> QED
    BY <2>1, <2>2
<1> HIDE DEF g
<1> QED
  BY <1>3 DEF Joins

LEMMA JoinsExist ==
    ASSUME NEW seqs
    PROVE  \A n \in Nat : \E f : Joins(f, seqs, n)
<1> DEFINE S == {n \in Nat : ~ \E f : Joins(f, seqs, n)}
<1>1. SUFFICES ASSUME S # {} PROVE FALSE
  OBVIOUS
<1>2. PICK n \in S : \A m \in S : n <= m
  BY <1>1, Least
<1>3. n # 0
  <2>1. Joins([i \in 1 .. 0 |-> << >>], seqs, 0)
    BY DEF Joins
  <2> QED
    BY <2>1
<1>4. n \in Nat \ {0} /\ n - 1 \in Nat /\ ~(n <= n - 1)
  BY <1>3
<1>5. PICK f : Joins(f, seqs, n - 1)
  BY <1>2, <1>4
<1> QED
  BY <1>4, <1>5, JoinsOne

LEMMA JoinsAgree ==
    ASSUME NEW n \in Nat, NEW f, NEW g, NEW s, NEW t, NEW m \in Nat,
           n <= m, \A i \in 1 .. n : s[i] = t[i],
           Joins(f, s, n), Joins(g, t, m)
    PROVE  \A i \in 1 .. n : f[i] = g[i]
<1> DEFINE S == {i \in 1 .. n : f[i] # g[i]}
<1>1. SUFFICES ASSUME S # {} PROVE FALSE
  OBVIOUS
<1>2. PICK i \in S : \A j \in S : i <= j
  <2>1. S \in SUBSET Nat
    OBVIOUS
  <2> HIDE DEF S
  <2> QED
    BY <1>1, <2>1, Least
<1>3. i \in 1 .. n /\ i \in 1 .. m
  OBVIOUS
<1>4. /\ f[i] = IF i = 1 THEN s[i] ELSE f[i - 1] \o s[i]
      /\ g[i] = IF i = 1 THEN t[i] ELSE g[i - 1] \o t[i]
  BY <1>3 DEF Joins
<1>5. i # 1 => i - 1 \in 1 .. n /\ ~(i <= i - 1)
  BY <1>3
<1>6. i # 1 => f[i - 1] = g[i - 1]
  BY <1>2, <1>5
<1> QED
  BY <1>3, <1>4, <1>6

LEMMA FlattenIs ==
    ASSUME NEW seqs, Len(seqs) \in Nat \ {0}
    PROVE  \E f : Joins(f, seqs, Len(seqs)) /\ FlattenSeq(seqs) = f[Len(seqs)]
<1> DEFINE f == CHOOSE g : Joins(g, seqs, Len(seqs))
<1>1. Joins(f, seqs, Len(seqs))
  <2>1. \E g : Joins(g, seqs, Len(seqs))
    BY JoinsExist
  <2> QED
    BY <2>1
<1>2. FlattenSeq(seqs) = f[Len(seqs)]
  BY DEF FlattenSeq, Joins
<1> HIDE DEF f
<1> QED
  BY <1>1, <1>2

LEMMA FlattenOne ==
    ASSUME NEW s, NEW x, Len(s) = 1, s[1] = x
    PROVE  FlattenSeq(s) = x
<1>1. PICK f : Joins(f, s, Len(s)) /\ FlattenSeq(s) = f[Len(s)]
  <2>1. Len(s) \in Nat \ {0}
    OBVIOUS
  <2> QED
    BY <2>1, FlattenIs
<1> QED
  BY <1>1 DEF Joins

LEMMA FlattenAppend ==
    ASSUME NEW s, NEW t, NEW n \in Nat \ {0}, Len(s) = n, Len(t) = n + 1,
           \A i \in 1 .. n : s[i] = t[i]
    PROVE  FlattenSeq(t) = FlattenSeq(s) \o t[n + 1]
<1>1. PICK f : Joins(f, s, n) /\ FlattenSeq(s) = f[n]
  BY FlattenIs
<1>2. PICK g : Joins(g, t, n + 1) /\ FlattenSeq(t) = g[n + 1]
  BY FlattenIs
<1>3. f[n] = g[n]
  <2>1. n \in 1 .. n /\ n <= n + 1 /\ n + 1 \in Nat
    OBVIOUS
  <2> QED
    BY <1>1, <1>2, <2>1, JoinsAgree
<1>4. g[n + 1] = g[n] \o t[n + 1]
  <2>1. n + 1 \in 1 .. n + 1 /\ n + 1 # 1 /\ (n + 1) - 1 = n
    OBVIOUS
  <2> QED
    BY <1>2, <2>1 DEF Joins
<1> QED
  BY <1>1, <1>2, <1>3, <1>4

-----------------------------------------------------------------------------
(* To, one hash at a time *)

\* The bytes of one hash of a package
Part(hash) == <<hash.type>> \o hash.data

LEMMA PartIs ==
    ASSUME NEW hash \in Hashes
    PROVE  /\ Part(hash) \in Seq(Bytes) /\ Len(Part(hash)) = 1 + HashSize[hash.type]
           /\ HashSize[hash.type] \in Nat \ {0}
           /\ Part(hash)[1] = hash.type
           /\ \A k \in 1 .. HashSize[hash.type] : Part(hash)[1 + k] = hash.data[k]
<1>1. /\ hash.type \in Types /\ hash.type \in Bytes
      /\ hash.data \in [1 .. HashSize[hash.type] -> Bytes]
      /\ HashSize[hash.type] \in Nat \ {0}
  BY HashType, InfoHashAssumption
<1>2. hash.data \in Seq(Bytes) /\ Len(hash.data) = HashSize[hash.type]
  BY <1>1
<1>3. <<hash.type>> \in Seq(Bytes) /\ Len(<<hash.type>>) = 1 /\ <<hash.type>>[1] = hash.type
  BY <1>1
<1>4. /\ Part(hash) \in Seq(Bytes) /\ Len(Part(hash)) = 1 + HashSize[hash.type]
      /\ \A i \in 1 .. 1 + HashSize[hash.type] :
            Part(hash)[i] = IF i <= 1 THEN <<hash.type>>[i] ELSE hash.data[i - 1]
  BY <1>2, <1>3, ConcatProperties DEF Part
<1>5. ASSUME NEW k \in 1 .. HashSize[hash.type] PROVE Part(hash)[1 + k] = hash.data[k]
  <2>1. 1 + k \in 1 .. 1 + HashSize[hash.type] /\ ~(1 + k <= 1) /\ (1 + k) - 1 = k
    BY <1>1
  <2> QED
    BY <1>4, <2>1
<1>6. Part(hash)[1] = hash.type
  <2>1. 1 \in 1 .. 1 + HashSize[hash.type] /\ 1 <= 1
    BY <1>1
  <2> QED
    BY <1>3, <1>4, <2>1
<1> QED
  BY <1>1, <1>4, <1>5, <1>6

LEMMA ToNone == To(<< >>) = << >>
<1>1. [i \in DOMAIN << >> |-> <<(<< >>)[i].type>> \o (<< >>)[i].data] = << >>
  OBVIOUS
<1> QED
  BY <1>1 DEF To, FlattenSeq

LEMMA ToAppend ==
    ASSUME NEW hashes \in Seq(Hashes), NEW hash \in Hashes
    PROVE  To(Append(hashes, hash)) = To(hashes) \o Part(hash)
<1> DEFINE n == Len(hashes)
           all == Append(hashes, hash)
           s == [i \in DOMAIN hashes |-> <<hashes[i].type>> \o hashes[i].data]
           t == [i \in DOMAIN all |-> <<all[i].type>> \o all[i].data]
<1>1. n \in Nat /\ DOMAIN hashes = 1 .. n
  BY LenProperties
<1>2. /\ DOMAIN all = 1 .. n + 1 /\ all[n + 1] = hash
      /\ \A i \in 1 .. n : all[i] = hashes[i]
  OBVIOUS
<1>3. /\ Len(s) = n /\ Len(t) = n + 1 /\ t[n + 1] = Part(hash)
      /\ \A i \in 1 .. n : s[i] = t[i]
  <2>1. s = [i \in 1 .. n |-> <<hashes[i].type>> \o hashes[i].data]
        /\ t = [i \in 1 .. n + 1 |-> <<all[i].type>> \o all[i].data]
    BY <1>1, <1>2
  <2>2. Len(s) = n /\ Len(t) = n + 1
    BY <1>1, <2>1
  <2>3. n + 1 \in 1 .. n + 1 /\ \A i \in 1 .. n : i \in 1 .. n + 1
    BY <1>1
  <2> HIDE DEF s, t, all
  <2>4. t[n + 1] = Part(hash)
    BY <1>2, <2>1, <2>3 DEF Part
  <2>5. \A i \in 1 .. n : s[i] = t[i]
    BY <1>2, <2>1, <2>3
  <2> QED
    BY <2>2, <2>4, <2>5
<1>4. To(hashes) = FlattenSeq(s) /\ To(all) = FlattenSeq(t)
  BY DEF To
<1> HIDE DEF s, t, all
<1>5. CASE n = 0
  <2>1. hashes = << >>
    BY <1>5, EmptySeq
  <2>2. FlattenSeq(t) = Part(hash)
    BY <1>3, <1>5, FlattenOne
  <2>3. << >> \o Part(hash) = Part(hash)
    BY PartIs, ConcatEmptySeq
  <2> QED
    BY <1>4, <2>1, <2>2, <2>3, ToNone DEF all
<1>6. CASE n # 0
  <2>1. FlattenSeq(t) = FlattenSeq(s) \o t[n + 1]
    BY <1>1, <1>3, <1>6, FlattenAppend
  <2> QED
    BY <1>3, <1>4, <2>1 DEF all
<1> QED
  BY <1>5, <1>6

\* The first m + 1 hashes are the first m and one more.
LEMMA OneMore ==
    ASSUME NEW hashes \in Seq(Hashes), NEW m \in Nat, m < Len(hashes)
    PROVE  /\ hashes[m + 1] \in Hashes /\ SubSeq(hashes, 1, m) \in Seq(Hashes)
           /\ To(SubSeq(hashes, 1, m + 1))
                = To(SubSeq(hashes, 1, m)) \o Part(hashes[m + 1])
<1>1. m + 1 \in 1 .. Len(hashes) /\ Len(hashes) \in Nat /\ (m + 1) - 1 = m
  BY LenProperties
<1>2. hashes[m + 1] \in Hashes /\ SubSeq(hashes, 1, m) \in Seq(Hashes)
  <2>1. \A i \in 1 .. m : hashes[i] \in Hashes
    BY <1>1, ElementOfSeq
  <2> QED
    BY <1>1, <2>1, ElementOfSeq, SubSeqProperties
<1>3. SubSeq(hashes, 1, m + 1) = SubSeq(hashes, 1, m) \o <<hashes[m + 1]>>
  <2>1. 1 \in 1 .. Len(hashes) /\ m + 1 \in 1 .. Len(hashes)
    BY <1>1
  <2> QED
    BY <1>1, <2>1, SubSeqRecursiveSecond
<1>4. Append(SubSeq(hashes, 1, m), hashes[m + 1])
        = SubSeq(hashes, 1, m) \o <<hashes[m + 1]>>
  BY <1>2, AppendIsConcat
<1> QED
  BY <1>2, <1>3, <1>4, ToAppend

LEMMA ToIsSeq ==
    ASSUME NEW hashes \in Seq(Hashes)
    PROVE  To(hashes) \in Seq(Bytes)
<1> DEFINE n == Len(hashes)
           S == {m \in 0 .. n : To(SubSeq(hashes, 1, m)) \notin Seq(Bytes)}
<1>1. n \in Nat
  BY LenProperties
<1>2. CASE S = {}
  <2>1. n \in 0 .. n /\ SubSeq(hashes, 1, n) = hashes
    BY <1>1, SubSeqFull
  <2> QED
    BY <1>2, <2>1
<1>3. CASE S # {}
  <2>1. S \in SUBSET Nat
    BY <1>1
  <2>2. PICK m \in S : \A k \in S : m <= k
    <3> HIDE DEF S
    <3> QED
      BY <1>3, <2>1, Least
  <2>3. m \in 0 .. n /\ To(SubSeq(hashes, 1, m)) \notin Seq(Bytes)
    BY <2>2
  <2>4. m # 0
    <3>1. SubSeq(hashes, 1, 0) = << >>
      BY SubSeqEmpty
    <3>2. To(SubSeq(hashes, 1, 0)) \in Seq(Bytes)
      BY <3>1, ToNone, EmptySeq
    <3> QED
      BY <2>3, <3>2
  <2>5. m - 1 \in 0 .. n /\ m - 1 \in Nat /\ m - 1 < n /\ (m - 1) + 1 = m /\ ~(m <= m - 1)
    BY <1>1, <2>3, <2>4
  <2>6. To(SubSeq(hashes, 1, m - 1)) \in Seq(Bytes)
    BY <2>2, <2>5
  <2>7. /\ hashes[m] \in Hashes
        /\ To(SubSeq(hashes, 1, m)) = To(SubSeq(hashes, 1, m - 1)) \o Part(hashes[m])
    BY <2>5, OneMore
  <2>8. Part(hashes[m]) \in Seq(Bytes)
    BY <2>7, PartIs
  <2> QED
    BY <2>3, <2>6, <2>7, <2>8, ConcatProperties
<1> QED
  BY <1>2, <1>3

LEMMA ToNotEmpty ==
    ASSUME NEW hashes \in Seq(Hashes), hashes # << >>
    PROVE  To(hashes) # << >>
<1> DEFINE n == Len(hashes)
           front == To(SubSeq(hashes, 1, n - 1))
<1>1. n \in Nat \ {0} /\ n - 1 \in Nat /\ n - 1 < n /\ (n - 1) + 1 = n
  BY EmptySeq
<1>2. /\ hashes[n] \in Hashes /\ SubSeq(hashes, 1, n - 1) \in Seq(Hashes)
      /\ To(SubSeq(hashes, 1, n)) = front \o Part(hashes[n])
  BY <1>1, OneMore
<1>3. To(hashes) = front \o Part(hashes[n])
  BY <1>2, SubSeqFull
<1>4. /\ front \in Seq(Bytes) /\ Part(hashes[n]) \in Seq(Bytes)
      /\ Len(Part(hashes[n])) # 0
  <2>1. front \in Seq(Bytes)
    BY <1>2, ToIsSeq
  <2>2. /\ Part(hashes[n]) \in Seq(Bytes)
        /\ Len(Part(hashes[n])) = 1 + HashSize[hashes[n].type]
        /\ HashSize[hashes[n].type] \in Nat
    BY <1>2, PartIs
  <2> HIDE DEF front
  <2> QED
    BY <2>1, <2>2
<1> HIDE DEF front
<1>5. Part(hashes[n]) # << >>
  BY <1>4
<1> QED
  BY <1>3, <1>4, <1>5, ConcatEqualIffEmpty

\* s is the beginning of t, or all of it.
Begins(s, t) == Len(s) <= Len(t) /\ \A i \in 1 .. Len(s) : s[i] = t[i]

LEMMA BeginsConcat ==
    ASSUME NEW B, NEW s \in Seq(B), NEW t \in Seq(B), NEW u \in Seq(B), Begins(s \o t, u)
    PROVE  /\ Begins(s, u) /\ Len(s) + Len(t) <= Len(u)
           /\ \A i \in 1 .. Len(t) : u[Len(s) + i] = t[i]
<1>1. Len(s) \in Nat /\ Len(t) \in Nat /\ Len(u) \in Nat
  BY LenProperties
<1>2. /\ Len(s \o t) = Len(s) + Len(t)
      /\ \A i \in 1 .. Len(s) + Len(t) :
            (s \o t)[i] = IF i <= Len(s) THEN s[i] ELSE t[i - Len(s)]
  BY ConcatProperties
<1>3. /\ Len(s) + Len(t) <= Len(u)
      /\ \A i \in 1 .. Len(s) + Len(t) :
            u[i] = IF i <= Len(s) THEN s[i] ELSE t[i - Len(s)]
  BY <1>2 DEF Begins
<1>4. ASSUME NEW i \in 1 .. Len(s) PROVE s[i] = u[i]
  <2>1. i \in 1 .. Len(s) + Len(t) /\ i <= Len(s)
    BY <1>1
  <2> QED
    BY <1>3, <2>1
<1>5. ASSUME NEW i \in 1 .. Len(t) PROVE u[Len(s) + i] = t[i]
  <2>1. Len(s) + i \in 1 .. Len(s) + Len(t) /\ ~(Len(s) + i <= Len(s))
        /\ (Len(s) + i) - Len(s) = i
    BY <1>1
  <2> QED
    BY <1>3, <2>1
<1>6. Len(s) <= Len(u)
  BY <1>1, <1>3
<1> QED
  BY <1>3, <1>4, <1>5, <1>6 DEF Begins

\* The package of the first hashes is the beginning of the package of all.
LEMMA ToBegins ==
    ASSUME NEW hashes \in Seq(Hashes), NEW m \in 0 .. Len(hashes)
    PROVE  Begins(To(SubSeq(hashes, 1, m)), To(hashes))
<1> DEFINE n == Len(hashes)
           S == {d \in 0 .. n : ~Begins(To(SubSeq(hashes, 1, n - d)), To(hashes))}
<1>1. n \in Nat
  BY LenProperties
<1>2. CASE S = {}
  <2>1. PICK d \in 0 .. n : n - d = m
    <3>1. n - m \in 0 .. n /\ n - (n - m) = m
      BY <1>1
    <3> QED
      BY <3>1
  <2> QED
    BY <1>2, <2>1
<1>3. CASE S # {}
  <2>1. S \in SUBSET Nat
    BY <1>1
  <2>2. PICK d \in S : \A k \in S : d <= k
    <3> HIDE DEF S
    <3> QED
      BY <1>3, <2>1, Least
  <2>3. d \in 0 .. n /\ ~Begins(To(SubSeq(hashes, 1, n - d)), To(hashes))
    BY <2>2
  <2>4. d # 0
    <3>1. SubSeq(hashes, 1, n - 0) = hashes
      BY <1>1, SubSeqFull
    <3>2. Begins(To(hashes), To(hashes))
      <4>1. Len(To(hashes)) \in Nat
        BY ToIsSeq, LenProperties
      <4> QED
        BY <4>1 DEF Begins
    <3> QED
      BY <2>3, <3>1, <3>2
  <2>5. /\ d - 1 \in 0 .. n /\ ~(d <= d - 1)
        /\ n - d \in Nat /\ n - d < n /\ n - (d - 1) = (n - d) + 1
    BY <1>1, <2>3, <2>4
  <2>6. Begins(To(SubSeq(hashes, 1, (n - d) + 1)), To(hashes))
    BY <2>2, <2>5
  <2>7. /\ hashes[(n - d) + 1] \in Hashes /\ SubSeq(hashes, 1, n - d) \in Seq(Hashes)
        /\ To(SubSeq(hashes, 1, (n - d) + 1))
            = To(SubSeq(hashes, 1, n - d)) \o Part(hashes[(n - d) + 1])
    BY <2>5, OneMore
  <2>8. /\ To(SubSeq(hashes, 1, n - d)) \in Seq(Bytes) /\ To(hashes) \in Seq(Bytes)
        /\ Part(hashes[(n - d) + 1]) \in Seq(Bytes)
    BY <2>7, ToIsSeq, PartIs
  <2>9. Begins(To(SubSeq(hashes, 1, n - d)) \o Part(hashes[(n - d) + 1]), To(hashes))
    BY <2>6, <2>7
  <2> HIDE DEF n, S
  <2>10. Begins(To(SubSeq(hashes, 1, n - d)), To(hashes))
    BY <2>8, <2>9, BeginsConcat
  <2> QED
    BY <2>3, <2>10
<1> QED
  BY <1>2, <1>3

-----------------------------------------------------------------------------
(* The parser is the inverse of To *)

\* What was read is what To makes of the hashes so far; if the buffer is a
\* package at all, they are its first ones; and from returns what it should.
Read == Len(To(info_hashes)) = curr_buff - 1 /\ Begins(To(info_hashes), buff)

Follows == \A hashes \in Packages : To(hashes) = buff => Begins(info_hashes, hashes)

Ended ==
    /\ result = "true" => buff # << >> /\ curr_buff = buff_end
    /\ result = "false" => \A hashes \in Packages : To(hashes) # buff

LEMMA PackageIs ==
    ASSUME NEW hashes \in Packages
    PROVE  hashes \in Seq(Hashes) /\ Len(hashes) \in 1 .. MaxHashes /\ hashes # << >>
<1>1. PICK n \in 1 .. MaxHashes : hashes \in [1 .. n -> Hashes]
  BY DEF Packages
<1>2. n \in Nat
  BY AnnouncePackageAssumption
<1>3. hashes \in Seq(Hashes) /\ Len(hashes) = n
  BY <1>1, <1>2
<1> QED
  BY <1>3

LEMMA BeginsSubSeq ==
    ASSUME NEW B, NEW s \in Seq(B), NEW t \in Seq(B), Begins(s, t)
    PROVE  s = SubSeq(t, 1, Len(s))
<1>1. Len(s) \in Nat /\ Len(t) \in Nat /\ Len(s) <= Len(t)
  BY LenProperties DEF Begins
<1>2. \A i \in 1 .. Len(s) : t[i] \in B
  BY <1>1, ElementOfSeq
<1>3. /\ SubSeq(t, 1, Len(s)) \in Seq(B)
      /\ Len(SubSeq(t, 1, Len(s))) = IF 1 <= Len(s) THEN Len(s) - 1 + 1 ELSE 0
      /\ \A i \in 1 .. Len(s) - 1 + 1 : SubSeq(t, 1, Len(s))[i] = t[1 + i - 1]
  BY <1>1, <1>2, SubSeqProperties
<1>4. Len(SubSeq(t, 1, Len(s))) = Len(s)
  BY <1>1, <1>3
<1>5. ASSUME NEW i \in 1 .. Len(s) PROVE s[i] = SubSeq(t, 1, Len(s))[i]
  <2>1. i \in 1 .. Len(s) - 1 + 1 /\ 1 + i - 1 = i
    BY <1>1
  <2> QED
    BY <1>3, <2>1 DEF Begins
<1> QED
  BY <1>3, <1>4, <1>5, SeqEqual

\* If the buffer is a package, either all of it was read, or its next hash
\* comes next.
LEMMA ComesNext ==
    ASSUME TypeOK, Read, NEW hashes \in Packages, To(hashes) = buff,
           Begins(info_hashes, hashes), NEW n, n = Len(info_hashes)
    PROVE  /\ n = Len(hashes) => curr_buff = buff_end
           /\ n # Len(hashes) =>
                /\ n < Len(hashes) /\ hashes[n + 1] \in Hashes
                /\ Type = hashes[n + 1].type
                /\ curr_buff + HashSize[Type] < buff_end
                /\ \A k \in 1 .. HashSize[Type] :
                        buff[curr_buff + k] = hashes[n + 1].data[k]
<1>1. /\ hashes \in Seq(Hashes) /\ info_hashes \in Seq(Hashes)
      /\ n \in Nat /\ Len(hashes) \in Nat /\ n <= Len(hashes)
      /\ buff \in Seq(Bytes) /\ Len(buff) \in Nat /\ curr_buff \in Nat
  BY PackageIs, LenProperties DEF TypeOK, Begins, buff_end
<1>2. info_hashes = SubSeq(hashes, 1, n)
  BY <1>1, BeginsSubSeq
<1>3. Len(To(info_hashes)) = curr_buff - 1 /\ To(info_hashes) \in Seq(Bytes)
  BY <1>1, ToIsSeq DEF Read
<1>4. ASSUME n = Len(hashes) PROVE curr_buff = buff_end
  <2>1. To(info_hashes) = buff
    BY <1>1, <1>2, <1>4, SubSeqFull
  <2> QED
    BY <1>1, <1>3, <2>1 DEF buff_end
<1>5. ASSUME n # Len(hashes)
      PROVE  /\ n < Len(hashes) /\ hashes[n + 1] \in Hashes
             /\ Type = hashes[n + 1].type
             /\ curr_buff + HashSize[Type] < buff_end
             /\ \A k \in 1 .. HashSize[Type] :
                    buff[curr_buff + k] = hashes[n + 1].data[k]
  <2> DEFINE hash == hashes[n + 1]
             size == HashSize[hash.type]
  <2>1. n < Len(hashes) /\ n + 1 \in 0 .. Len(hashes)
    BY <1>1, <1>5
  <2>2. /\ hash \in Hashes
        /\ To(SubSeq(hashes, 1, n + 1)) = To(info_hashes) \o Part(hash)
    BY <1>1, <1>2, <2>1, OneMore
  <2>3. Begins(To(info_hashes) \o Part(hash), buff)
    <3>1. Begins(To(SubSeq(hashes, 1, n + 1)), To(hashes))
      BY <1>1, <2>1, ToBegins
    <3> QED
      BY <2>2, <3>1
  <2> HIDE DEF hash
  <2>4. /\ Part(hash) \in Seq(Bytes) /\ Len(Part(hash)) = 1 + size
        /\ size \in Nat \ {0}
        /\ Part(hash)[1] = hash.type
        /\ \A k \in 1 .. size : Part(hash)[1 + k] = hash.data[k]
    BY <2>2, PartIs
  <2> HIDE DEF size
  <2>5. /\ (curr_buff - 1) + (1 + size) <= Len(buff)
        /\ \A i \in 1 .. 1 + size :
                buff[(curr_buff - 1) + i] = Part(hash)[i]
    <3> DEFINE t == To(info_hashes)
               p == Part(hash)
    <3>1. t \in Seq(Bytes) /\ p \in Seq(Bytes) /\ buff \in Seq(Bytes) /\ Begins(t \o p, buff)
      BY <1>1, <1>3, <2>3, <2>4
    <3>2. Len(t) = curr_buff - 1 /\ Len(p) = 1 + size
      BY <1>3, <2>4
    <3> HIDE DEF t, p
    <3>3. /\ Len(t) + Len(p) <= Len(buff)
          /\ \A i \in 1 .. Len(p) : buff[Len(t) + i] = p[i]
      BY <3>1, BeginsConcat
    <3> QED
      BY <3>2, <3>3 DEF p
  <2>6. buff[curr_buff] = hash.type
    <3>1. 1 \in 1 .. 1 + size /\ (curr_buff - 1) + 1 = curr_buff
      BY <1>1, <2>4
    <3> QED
      BY <2>4, <2>5, <3>1
  <2>7. ASSUME NEW k \in 1 .. size
        PROVE  buff[curr_buff + k] = hash.data[k]
    <3>1. 1 + k \in 1 .. 1 + size /\ (curr_buff - 1) + (1 + k) = curr_buff + k
      BY <1>1, <2>4
    <3> QED
      BY <2>4, <2>5, <3>1
  <2>8. curr_buff + size < buff_end
    BY <1>1, <2>4, <2>5 DEF buff_end
  <2> QED
    BY <2>1, <2>2, <2>6, <2>7, <2>8 DEF hash, size, Type
<1> QED
  BY <1>4, <1>5

LEMMA ConcatBegins ==
    ASSUME NEW B, NEW s \in Seq(B), NEW t \in Seq(B), NEW u \in Seq(B),
           Begins(s, u), Len(s) + Len(t) <= Len(u),
           \A i \in 1 .. Len(t) : u[Len(s) + i] = t[i]
    PROVE  Begins(s \o t, u)
<1>1. Len(s) \in Nat /\ Len(t) \in Nat /\ Len(u) \in Nat
  BY LenProperties
<1>2. /\ Len(s \o t) = Len(s) + Len(t)
      /\ \A i \in 1 .. Len(s) + Len(t) :
            (s \o t)[i] = IF i <= Len(s) THEN s[i] ELSE t[i - Len(s)]
  BY ConcatProperties
<1>3. ASSUME NEW i \in 1 .. Len(s) + Len(t) PROVE (s \o t)[i] = u[i]
  <2>1. CASE i <= Len(s)
    <3>1. i \in 1 .. Len(s)
      BY <1>1, <2>1
    <3> QED
      BY <1>2, <2>1, <3>1 DEF Begins
  <2>2. CASE ~(i <= Len(s))
    <3>1. i - Len(s) \in 1 .. Len(t) /\ Len(s) + (i - Len(s)) = i
      BY <1>1, <2>2
    <3>2. u[Len(s) + (i - Len(s))] = t[i - Len(s)]
      BY <3>1
    <3> QED
      BY <1>2, <2>2, <3>1, <3>2
  <2> QED
    BY <2>1, <2>2
<1> QED
  BY <1>1, <1>2, <1>3 DEF Begins

\* A hash that is parsed is the bytes that are next.
LEMMA Parsed ==
    ASSUME TypeOK, Parse
    PROVE  \E hash \in Hashes :
            /\ info_hashes' = Append(info_hashes, hash)
            /\ hash.type = Type
            /\ curr_buff' = curr_buff + 1 + HashSize[Type]
            /\ curr_buff + HashSize[Type] <= Len(buff)
            /\ \A k \in 1 .. HashSize[Type] : hash.data[k] = buff[curr_buff + k]
<1> DEFINE size == HashSize[Type]
           data == SubSeq(buff, curr_buff + 1, curr_buff + size)
           hash == [type |-> Type, data |-> data]
<1>1. size \in Nat \ {0} /\ Type \in Types
  BY InfoHashAssumption DEF Parse
<1>2. curr_buff \in Nat \ {0} /\ Len(buff) \in Nat /\ curr_buff + size <= Len(buff)
  BY <1>1 DEF Parse, TypeOK, buff_end
<1>3. buff \in Seq(Bytes)
  BY DEF TypeOK
<1>4. curr_buff' = curr_buff + 1 + size /\ info_hashes' = Append(info_hashes, hash)
  BY DEF Parse
<1> HIDE DEF size
<1>5. data = [k \in 1 .. size |-> buff[curr_buff + k]]
  BY <1>1, <1>2, <1>3
<1>6. data \in [1 .. size -> Bytes]
  <2>1. \A k \in 1 .. size : buff[curr_buff + k] \in Bytes
    BY <1>1, <1>2, <1>3
  <2> QED
    BY <1>5, <2>1
<1>7. hash \in Hashes
  BY <1>1, <1>6, HashIs DEF size
<1>8. hash.type = Type /\ \A k \in 1 .. size : hash.data[k] = buff[curr_buff + k]
  BY <1>5
<1> HIDE DEF hash
<1> QED
  BY <1>2, <1>4, <1>7, <1>8 DEF size

LEMMA ReadStep ==
    ASSUME TypeOK, Read, [Next]_vars
    PROVE  Read'
<1>1. CASE Parse
  <2> DEFINE size == HashSize[Type]
             s == To(info_hashes)
  <2>1. PICK hash \in Hashes :
          /\ info_hashes' = Append(info_hashes, hash)
          /\ hash.type = Type
          /\ curr_buff' = curr_buff + 1 + size
          /\ curr_buff + size <= Len(buff)
          /\ \A k \in 1 .. size : hash.data[k] = buff[curr_buff + k]
    BY <1>1, Parsed
  <2>2. /\ Part(hash) \in Seq(Bytes) /\ Len(Part(hash)) = 1 + size /\ size \in Nat
        /\ Part(hash)[1] = Type
        /\ \A k \in 1 .. size : Part(hash)[1 + k] = hash.data[k]
    BY <2>1, PartIs
  <2>3. /\ info_hashes \in Seq(Hashes) /\ buff \in Seq(Bytes) /\ buff' = buff
        /\ curr_buff \in Nat /\ Len(buff) \in Nat
    BY <1>1, LenProperties DEF TypeOK, buff_end, Parse
  <2>4. s \in Seq(Bytes) /\ Len(s) = curr_buff - 1 /\ Begins(s, buff)
    BY <2>3, ToIsSeq DEF Read
  <2>5. To(info_hashes') = s \o Part(hash)
    BY <2>1, <2>3, ToAppend
  <2> HIDE DEF size, s
  <2>6. ASSUME NEW i \in 1 .. Len(Part(hash)) PROVE buff[Len(s) + i] = Part(hash)[i]
    <3>1. CASE i = 1
      <4>1. Len(s) + i = curr_buff
        BY <2>3, <2>4, <3>1
      <4> QED
        BY <2>2, <3>1, <4>1 DEF Type
    <3>2. CASE i # 1
      <4>1. i - 1 \in 1 .. size /\ 1 + (i - 1) = i /\ Len(s) + i = curr_buff + (i - 1)
        BY <2>2, <2>3, <2>4, <3>2
      <4>2. Part(hash)[1 + (i - 1)] = buff[curr_buff + (i - 1)]
        BY <2>1, <2>2, <4>1
      <4> QED
        BY <4>1, <4>2
    <3> QED
      BY <3>1, <3>2
  <2>7. Len(s) + Len(Part(hash)) = curr_buff' - 1 /\ Len(s) + Len(Part(hash)) <= Len(buff)
    BY <2>1, <2>2, <2>3, <2>4
  <2>8. Begins(s \o Part(hash), buff)
    BY <2>2, <2>3, <2>4, <2>6, <2>7, ConcatBegins
  <2>9. Len(s \o Part(hash)) = Len(s) + Len(Part(hash))
    BY <2>2, <2>4, ConcatProperties
  <2> QED
    BY <2>3, <2>5, <2>7, <2>8, <2>9 DEF Read
<1>2. CASE Fail \/ Return \/ UNCHANGED vars
  <2>1. UNCHANGED <<buff, curr_buff, info_hashes>>
    BY <1>2 DEF Fail, Return, vars
  <2> QED
    BY <2>1 DEF Read
<1> QED
  BY <1>1, <1>2 DEF Next

LEMMA FollowsStep ==
    ASSUME TypeOK, Read, Follows, [Next]_vars
    PROVE  Follows'
<1>1. CASE Parse
  <2>0. buff' = buff
    BY <1>1 DEF Parse
  <2> SUFFICES ASSUME NEW hashes \in Packages, To(hashes) = buff
               PROVE  Begins(info_hashes', hashes)
    BY <2>0 DEF Follows
  <2> DEFINE n == Len(info_hashes)
  <2>1. Begins(info_hashes, hashes)
    BY DEF Follows
  <2>2. n # Len(hashes)
    <3>1. curr_buff < buff_end /\ curr_buff \in Nat /\ buff_end \in Nat
      BY <1>1 DEF Parse, More, TypeOK, buff_end
    <3>2. n = Len(hashes) => curr_buff = buff_end
      BY <2>1, ComesNext
    <3> QED
      BY <3>1, <3>2
  <2>3. /\ n < Len(hashes) /\ hashes[n + 1] \in Hashes /\ hashes[n + 1].type = Type
        /\ \A k \in 1 .. HashSize[Type] : buff[curr_buff + k] = hashes[n + 1].data[k]
    BY <2>1, <2>2, ComesNext
  <2>4. PICK hash \in Hashes :
          /\ info_hashes' = Append(info_hashes, hash)
          /\ hash.type = Type
          /\ \A k \in 1 .. HashSize[Type] : hash.data[k] = buff[curr_buff + k]
    BY <1>1, Parsed
  <2>5. hash = hashes[n + 1]
    <3> DEFINE next == hashes[n + 1]
    <3> HIDE DEF next
    <3>1. /\ hash.data \in [1 .. HashSize[Type] -> Bytes]
          /\ next.data \in [1 .. HashSize[Type] -> Bytes]
          /\ hash = [type |-> Type, data |-> hash.data]
          /\ next = [type |-> Type, data |-> next.data]
      BY <2>3, <2>4, HashType DEF next
    <3>2. \A k \in 1 .. HashSize[Type] : hash.data[k] = next.data[k]
      BY <2>3, <2>4 DEF next
    <3>3. hash.data = next.data
      <4> DEFINE d == hash.data
                 e == next.data
      <4>1. /\ d = [k \in 1 .. HashSize[Type] |-> d[k]]
            /\ e = [k \in 1 .. HashSize[Type] |-> e[k]]
        BY <3>1
      <4>2. \A k \in 1 .. HashSize[Type] : d[k] = e[k]
        BY <3>2
      <4> HIDE DEF d, e
      <4>3. d = e
        BY <4>1, <4>2
      <4> QED
        BY <4>3 DEF d, e
    <3> QED
      BY <3>1, <3>3 DEF next
  <2>6. info_hashes \in Seq(Hashes) /\ n \in Nat /\ Len(hashes) \in Nat
    BY PackageIs, LenProperties DEF TypeOK
  <2>7. Len(info_hashes') = n + 1
    BY <2>4, <2>6
  <2>8. ASSUME NEW i \in 1 .. n + 1 PROVE info_hashes'[i] = hashes[i]
    <3>1. CASE i = n + 1
      BY <2>4, <2>5, <2>6, <3>1
    <3>2. CASE i # n + 1
      <4>1. i \in 1 .. n
        BY <2>6, <3>2
      <4>2. info_hashes'[i] = info_hashes[i]
        BY <2>4, <2>6, <4>1
      <4> QED
        BY <2>1, <4>1, <4>2 DEF Begins
    <3> QED
      BY <3>1, <3>2
  <2> QED
    BY <2>3, <2>6, <2>7, <2>8 DEF Begins
<1>2. CASE Fail \/ Return \/ UNCHANGED vars
  <2>1. UNCHANGED <<buff, info_hashes>>
    BY <1>2 DEF Fail, Return, vars
  <2> QED
    BY <2>1 DEF Follows
<1> QED
  BY <1>1, <1>2 DEF Next

LEMMA EndedStep ==
    ASSUME TypeOK, Read, Follows, Ended, [Next]_vars
    PROVE  Ended'
<1>0. MaxHashes \in Nat /\ Len(info_hashes) \in Nat /\ curr_buff \in Nat /\ buff_end \in Nat
      /\ curr_buff <= buff_end
  BY AnnouncePackageAssumption, LenProperties DEF TypeOK, buff_end
<1>1. CASE Parse
  BY <1>1 DEF Parse, Ended
<1>2. CASE Fail
  <2>1. More /\ result' = "false" /\ buff' = buff
    BY <1>2 DEF Fail
  <2> SUFFICES ASSUME NEW hashes \in Packages, To(hashes) = buff PROVE FALSE
    BY <2>1 DEF Ended
  <2>2. curr_buff # buff_end
    BY <1>0, <2>1 DEF More
  <2>3. Begins(info_hashes, hashes)
    BY DEF Follows
  <2>4. /\ hashes[Len(info_hashes) + 1] \in Hashes
        /\ Type = hashes[Len(info_hashes) + 1].type
        /\ curr_buff + HashSize[Type] < buff_end
    BY <2>2, <2>3, ComesNext
  <2>5. Type \in Types /\ HashSize[Type] \in Nat
    BY <2>4, HashType, InfoHashAssumption
  <2>6. curr_buff + HashSize[Type] >= buff_end
    BY <1>2, <2>5 DEF Fail
  <2> QED
    BY <1>0, <2>4, <2>5, <2>6
<1>3. CASE Return
  <2>1. ~More /\ UNCHANGED <<buff, curr_buff>>
        /\ result' = IF buff # << >> /\ curr_buff = buff_end THEN "true" ELSE "false"
    BY <1>3 DEF Return
  <2>2. CASE buff # << >> /\ curr_buff = buff_end
    BY <2>1, <2>2 DEF Ended, buff_end
  <2>3. CASE ~(buff # << >> /\ curr_buff = buff_end)
    <3> SUFFICES ASSUME NEW hashes \in Packages, To(hashes) = buff PROVE FALSE
      BY <2>1, <2>3 DEF Ended
    <3>1. hashes \in Seq(Hashes) /\ hashes # << >> /\ Len(hashes) \in 1 .. MaxHashes
      BY PackageIs
    <3>2. buff # << >>
      BY <3>1, ToNotEmpty
    <3>3. curr_buff # buff_end
      BY <2>3, <3>2
    <3>4. ~(Len(info_hashes) < MaxHashes)
      BY <1>0, <2>1, <3>2, <3>3 DEF More
    <3>5. Begins(info_hashes, hashes)
      BY DEF Follows
    <3>6. Len(info_hashes) < Len(hashes)
      BY <1>0, <3>1, <3>3, <3>5, ComesNext
    <3> QED
      BY <1>0, <3>1, <3>4, <3>6
  <2> QED
    BY <2>2, <2>3
<1>4. CASE UNCHANGED vars
  BY <1>4 DEF vars, Ended, buff_end
<1> QED
  BY <1>1, <1>2, <1>3, <1>4 DEF Next

\* from accepts exactly the buffers that to makes of 1 to MaxHashes hashes, and
\* gives those hashes back, for hashes of every size.
THEOREM AlwaysDecodes == Spec => []Decodes
<1>1. Init => Read /\ Follows /\ Ended
  <2> SUFFICES ASSUME Init PROVE Read /\ Follows /\ Ended
    OBVIOUS
  <2>1. info_hashes = << >> /\ curr_buff = 1 /\ result = "parsing"
        /\ Len(info_hashes) = 0
    BY DEF Init
  <2>2. PICK n \in 0 .. MaxSize : buff \in [1 .. n -> Bytes]
    BY DEF Init, BoundedSeq, SeqOf
  <2>3. Len(buff) \in Nat
    BY <2>2, AnnouncePackageAssumption
  <2>4. Read
    BY <2>1, <2>3, ToNone DEF Read, Begins
  <2>5. Follows
    <3>1. \A hashes \in Packages : Len(hashes) \in Nat /\ 0 <= Len(hashes)
      BY PackageIs, LenProperties
    <3> QED
      BY <2>1, <3>1 DEF Follows, Begins
  <2> QED
    BY <2>1, <2>4, <2>5 DEF Ended
<1>2. TypeOK /\ Read /\ Ended => Decodes
  <2> SUFFICES ASSUME TypeOK, Read, Ended PROVE Decodes
    OBVIOUS
  <2>1. ASSUME result = "true" PROVE info_hashes \in Packages /\ To(info_hashes) = buff
    <3>1. buff # << >> /\ curr_buff = Len(buff) + 1
      BY <2>1 DEF Ended, buff_end
    <3>2. /\ info_hashes \in Seq(Hashes) /\ Len(info_hashes) <= MaxHashes
          /\ buff \in Seq(Bytes) /\ Len(buff) \in Nat /\ MaxHashes \in Nat
      BY AnnouncePackageAssumption, LenProperties DEF TypeOK
    <3>3. To(info_hashes) = buff
      <4>1. To(info_hashes) \in Seq(Bytes)
        BY <3>2, ToIsSeq
      <4>2. /\ Len(To(info_hashes)) = Len(buff)
            /\ \A i \in 1 .. Len(To(info_hashes)) : To(info_hashes)[i] = buff[i]
        BY <3>1, <3>2 DEF Read, Begins
      <4> QED
        BY <3>2, <4>1, <4>2, SeqEqual
    <3>4. Len(info_hashes) # 0
      <4>1. info_hashes # << >>
        BY <3>1, <3>3, ToNone
      <4> QED
        BY <3>2, <4>1, EmptySeq
    <3>5. Len(info_hashes) \in 1 .. MaxHashes
      BY <3>2, <3>4, LenProperties
    <3>6. info_hashes \in [1 .. Len(info_hashes) -> Hashes]
      BY <3>2, LenProperties
    <3> QED
      BY <3>3, <3>5, <3>6 DEF Packages
  <2> QED
    BY <2>1 DEF Ended, Decodes
<1>3. TypeOK /\ Read /\ Follows /\ Ended /\ [Next]_vars => (Read /\ Follows /\ Ended)'
  BY ReadStep, FollowsStep, EndedStep
<1> QED
  BY <1>1, <1>2, <1>3, TypeCorrect, PTL DEF Spec

=============================================================================
