------------------------------ MODULE InfoHash ------------------------------
(***************************************************************************)
(* Info hashes and torrents (torrent.hpp, torrent.cpp): how the bytes the  *)
(* torrent client sends and those a friend sends become the key of         *)
(* torrent_db.torrents, and the key the bytes that friends are sent.       *)
(*                                                                         *)
(* A hex character stands for its value: hex_lut and                       *)
(* _single_hex_char_to_value are inverse to each other.                    *)
(***************************************************************************)
EXTENDS Integers, Sequences

CONSTANTS
    Bytes,      \* values of a byte, 0 and 1 among them
    HashSize,   \* HashSize[type]: sizes of InfoHashV1 and InfoHashV2 (20, 32)
    WordSize    \* sizeof(std::size_t) (8)

\* The index of the alternative: 0 for InfoHashV1, 1 for InfoHashV2
Types == {0, 1}

ASSUME InfoHashAssumption ==
    /\ Types \subseteq Bytes /\ Bytes \subseteq 0 .. 255
    /\ HashSize \in [Types -> Nat \ {0}]
    /\ HashSize[0] # HashSize[1]
    /\ WordSize \in Nat /\ \A type \in Types : WordSize <= HashSize[type]

Data(type) == [1 .. HashSize[type] -> Bytes]

Hashes == UNION {[type : {type}, data : Data(type)] : type \in Types}

-----------------------------------------------------------------------------
(* Hash: to_string and the constructor from a string *)

ToHex(data) ==
    [k \in 1 .. 2 * Len(data) |->
        IF k % 2 = 1 THEN data[(k + 1) \div 2] \div 16 ELSE data[k \div 2] % 16]

\* mutant: the low digit comes first
FromHexSwapped(str) == [i \in 1 .. Len(str) \div 2 |-> 16 * str[2 * i] + str[2 * i - 1]]

FromHex(str) == [i \in 1 .. Len(str) \div 2 |-> 16 * str[2 * i - 1] + str[2 * i]]

-----------------------------------------------------------------------------
(* Torrent: an optional hash of each type; an empty one is << >> *)

Invalid == [type \in Types |-> << >>]

With(hash) == [Invalid EXCEPT ![hash.type] = hash.data]

\* announce_recv_callback
OfFriend(hash) == With(hash)

\* http_handle_announce: the decoded value is kept as hex, and the size of
\* that tells the type; a value of another size makes no valid torrent.
OfClient(value) ==
    LET hex == ToHex(value)
    IN  CASE Len(hex) = 2 * HashSize[0] -> With([type |-> 0, data |-> FromHex(hex)])
          [] Len(hex) = 2 * HashSize[1] -> With([type |-> 1, data |-> FromHex(hex)])
          [] OTHER -> Invalid

\* The v1 hash counts if there is one, in operator== that of the left side.
First(torrent) == IF torrent[0] # << >> THEN 0 ELSE 1

\* mutant: two torrents without hash are equal
EqualInvalid(t, u) == t[First(t)] = u[First(t)]

\* Torrent::operator==
Equal(t, u) == t[First(t)] # << >> /\ t[First(t)] = u[First(t)]

\* ToxExtAnnounce::tick: what friends are told of a torrent
Announced(torrent) ==
    IF torrent[First(torrent)] = << >> THEN << >>
    ELSE <<[type |-> First(torrent), data |-> torrent[First(torrent)]]>>

\* std::hash<Torrent> depends on these bytes; how it mixes them is left open.
Mixed(torrent) == SubSeq(torrent[First(torrent)], 1, WordSize)

=============================================================================
