--------------------------- MODULE AnnouncePackage ---------------------------
(***************************************************************************)
(* The bytes of an announce package: AnnounceInfoHashPackage::to and       *)
(* ::from (ext_announce.cpp).  A package is a list of info hashes, each    *)
(* one a byte for its type, 0 for v1 and 1 for v2, and its data.           *)
(***************************************************************************)
EXTENDS InfoHash, SequencesExt

CONSTANTS
    MaxHashes,  \* info_hashes_max_size (4)
    MaxSize     \* bound: length of the buffers that are parsed

ASSUME AnnouncePackageAssumption == MaxHashes \in Nat \ {0} /\ MaxSize \in Nat

\* AnnounceInfoHashPackage::to for a package that is not empty
To(hashes) == FlattenSeq([i \in DOMAIN hashes |-> <<hashes[i].type>> \o hashes[i].data])

VARIABLES
    buff,           \* what arrived; it never changes
    curr_buff,      \* the index of the next byte
    info_hashes,    \* what has been parsed
    result          \* "parsing", or what from returned

vars == <<buff, curr_buff, info_hashes, result>>

Init ==
    /\ buff \in BoundedSeq(Bytes, MaxSize)
    /\ curr_buff = 1
    /\ info_hashes = << >>
    /\ result = "parsing"

buff_end == Len(buff) + 1

\* mutant: one hash too many
MoreThanMax == buff # << >> /\ curr_buff < buff_end /\ Len(info_hashes) <= MaxHashes

\* the condition of the loop
More == buff # << >> /\ curr_buff < buff_end /\ Len(info_hashes) < MaxHashes

Type == buff[curr_buff]

Parse ==
    /\ result = "parsing" /\ More
    /\ Type \in Types
    /\ curr_buff + HashSize[Type] < buff_end
    /\ info_hashes' = Append(info_hashes,
            [type |-> Type, data |-> SubSeq(buff, curr_buff + 1, curr_buff + HashSize[Type])])
    /\ curr_buff' = curr_buff + 1 + HashSize[Type]
    /\ UNCHANGED <<buff, result>>

\* "error parsing aihp" and "error parsing aihp type"
Fail ==
    /\ result = "parsing" /\ More
    /\ Type \in Types => curr_buff + HashSize[Type] >= buff_end
    /\ result' = "false"
    /\ UNCHANGED <<buff, curr_buff, info_hashes>>

\* mutant: whatever follows the hashes is ignored
ReturnTrue ==
    /\ result = "parsing" /\ ~More
    /\ result' = IF buff # << >> THEN "true" ELSE "false"
    /\ UNCHANGED <<buff, curr_buff, info_hashes>>

\* A buffer without bytes is refused first of all.
Return ==
    /\ result = "parsing" /\ ~More
    /\ result' = IF buff # << >> /\ curr_buff = buff_end THEN "true" ELSE "false"
    /\ UNCHANGED <<buff, curr_buff, info_hashes>>

Next == Parse \/ Fail \/ Return

Spec == Init /\ [][Next]_vars

-----------------------------------------------------------------------------
(* Properties. *)

TypeOK ==
    /\ buff \in Seq(Bytes)
    /\ curr_buff \in 1 .. buff_end
    /\ info_hashes \in Seq(Hashes) /\ Len(info_hashes) <= MaxHashes
    /\ result \in {"parsing", "true", "false"}

\* from accepts exactly what to makes of a package of 1 to MaxHashes hashes,
\* and makes that package of it again.
Packages == UNION {[1 .. n -> Hashes] : n \in 1 .. MaxHashes}

Decodes ==
    /\ result = "true" => info_hashes \in Packages /\ To(info_hashes) = buff
    /\ result = "false" => \A hashes \in Packages : To(hashes) # buff

\* What a friend announced and what the torrent client announces are one key of
\* the database exactly if they are the same bytes, though the client's go
\* through hex digits; the client's process then announces the hash itself,
\* both are looked for in one place, and either may be the left side of ==.
\* Nothing is announced of a torrent that equals not even itself.
Values == UNION {[1 .. n -> Bytes] : n \in 0 .. MaxSize}

SameTorrent ==
    \A i \in DOMAIN info_hashes : \A value \in Values :
        LET friends == OfFriend(info_hashes[i])
            clients == OfClient(value)
        IN  /\ Equal(friends, clients) <=> value = info_hashes[i].data
            /\ Equal(friends, clients) <=> Announced(clients) = <<info_hashes[i]>>
            /\ Equal(clients, friends) <=> Equal(friends, clients)
            /\ Equal(friends, clients) => Mixed(friends) = Mixed(clients)
            /\ Announced(clients) = << >> <=> ~Equal(clients, clients)

=============================================================================
