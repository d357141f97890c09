----------------------------- MODULE ToxFriends -----------------------------
(***************************************************************************)
(* tox's list of friends, as the program uses it: a function from friend   *)
(* numbers to public keys.  A new friend gets the lowest number that is    *)
(* free, a removed one frees its number, and the friends of a save, which  *)
(* are in the order of their numbers, get theirs anew when it is loaded.   *)
(***************************************************************************)
EXTENDS Integers, Sequences, FiniteSets, Functions

CONSTANTS Keys \* the public keys of possible friends

ASSUME KeysAssumption == IsFiniteSet(Keys)

VARIABLES friends \* friends[n]: the key of friend number n

Numbers == 0 .. Cardinality(Keys) - 1

NoFriends == [n \in {} |-> 0]

\* Put(m, n, v): the map m with m[n] = v, whether it has an n already or not
Put(m, n, v) == [i \in DOMAIN m \cup {n} |-> IF i = n THEN v ELSE m[i]]

\* Without(m, ns): the map m without the keys ns
Without(m, ns) == [i \in DOMAIN m \ ns |-> m[i]]

\* a free number
Lowest(free) == CHOOSE n \in free : \A m \in free : n <= m

\* tox_friend_add, tox_friend_add_norequest: whoever is a friend stays one
AddFriend(fs, k) ==
    IF k \in Range(fs) THEN fs ELSE Put(fs, Lowest(Numbers \ DOMAIN fs), k)

\* tox_friend_delete
RemoveFriend(fs, k) == Without(fs, {n \in DOMAIN fs : fs[n] = k})

\* tox_get_savedata: the friends in the order of their numbers
Rank(fs, n) == Cardinality({m \in DOMAIN fs : m < n})

InOrder(fs) ==
    [i \in 1 .. Cardinality(DOMAIN fs) |->
        fs[CHOOSE n \in DOMAIN fs : Rank(fs, n) = i - 1]]

\* tox_new: the friends of a save
Numbered(keys) == [n \in 0 .. Len(keys) - 1 |-> keys[n + 1]]

=============================================================================
