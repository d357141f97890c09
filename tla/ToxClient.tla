------------------------------ MODULE ToxClient ------------------------------
(***************************************************************************)
(* The tox client process (tox_client.cpp, tox_client_private.cpp,         *)
(* tox_chat_commands.cpp): its thread's loop, what the tox callbacks and   *)
(* the chat commands change, the save file, and crashes and restarts.      *)
(*                                                                         *)
(* A save holds the identity of the process and the public keys of its     *)
(* friends, which get their numbers anew when it is loaded.  What else is  *)
(* kept by friend numbers is the subject of FriendNumbers.                 *)
(*                                                                         *)
(* One iteration of the thread, under _tox_client_mutex, is some callbacks *)
(* ("iterating") and then a save, or none ("saving"); between two of them  *)
(* it sleeps ("asleep").                                                   *)
(***************************************************************************)
EXTENDS ToxFriends

CONSTANTS SaveTicks \* save_interval, in iterations (900000)

ASSUME ToxClientAssumption == SaveTicks \in Nat \ {0}

\* ToxClient::PermLevel
NONE == 0
USER == 1
ADMIN == 2
Levels == NONE .. ADMIN

VARIABLES
    process,    \* what the tox thread is doing; "down" when there is none
    identity,   \* the identity tox runs under
    perms,      \* friend_perms; USER, the default, stands for a missing key
    dirty,      \* state_dirty_save_soon
    timer,      \* save_timer, in iterations
    file,       \* the save file, ttt.tox
    born,       \* an identity has been made
    accepted,   \* friends that were accepted by friend_request_cb
    torn        \* a crash came upon a save that was not complete

ram == <<identity, friends, perms, dirty, timer, accepted>>
history == <<born, torn>>
clientVars == <<process, ram, file, history>>

Absent == [kind |-> "absent", identity |-> "none", keys |-> << >>]

\* ToxClient's initial values.  Its {0, ADMIN} makes the first friend admin.
FirstIsAdmin == [n \in Numbers |-> IF n = 0 THEN ADMIN ELSE USER]

ClientInit ==
    /\ process = "down"
    /\ identity = "none"
    /\ friends = NoFriends
    /\ perms = FirstIsAdmin
    /\ dirty = FALSE
    /\ timer = 0
    /\ file = Absent
    /\ born = FALSE
    /\ accepted = {}
    /\ torn = FALSE

-----------------------------------------------------------------------------
(* tox_client_start *)

\* mutant: without the first save
StartUnsaved(id, keys) ==
    /\ process = "down"
    /\ process' = "iterating"
    /\ identity' = id
    /\ born' = TRUE
    /\ friends' = Numbered(keys)
    /\ perms' = FirstIsAdmin
    /\ dirty' = FALSE
    /\ timer' = SaveTicks \div 2
    /\ accepted' = {}
    /\ UNCHANGED <<file, torn>>

\* tox_client_setup ends with a save ("immediatly save")
Start(id, keys) ==
    /\ process = "down"
    /\ process' = "saving"
    /\ identity' = id
    /\ born' = TRUE
    /\ friends' = Numbered(keys)
    /\ perms' = FirstIsAdmin
    /\ dirty' = FALSE
    /\ timer' = SaveTicks \div 2
    /\ accepted' = {}
    /\ UNCHANGED <<file, torn>>

\* An empty file counts as none.
StartFresh ==
    /\ file.kind \in {"absent", "empty"}
    /\ Start(IF born THEN "other" ELSE "first", << >>)

StartFromSave ==
    /\ file.kind = "whole"
    /\ Start(file.identity, file.keys)

\* tox refuses a save that is cut off ("tox_new failed"), and nothing changes,
\* unless it is cut between two sections.
StartFromPart ==
    /\ file.kind = "partial"
    /\ Start(file.identity, << >>)

\* What was in memory is gone.
End ==
    /\ process' = "down"
    /\ identity' = "none"
    /\ friends' = NoFriends
    /\ perms' = FirstIsAdmin
    /\ dirty' = FALSE
    /\ timer' = 0
    /\ accepted' = {}
    /\ UNCHANGED <<file, born>>

\* tox_client_stop.  It destroys a std::thread it has not joined, which is
\* std::terminate; before that it takes the mutex, so no save is cut off.
Stop ==
    /\ process = "asleep"
    /\ End
    /\ UNCHANGED torn

Crash ==
    /\ process # "down"
    /\ End
    /\ torn' = (torn \/ (process \in {"saving", "writing"} /\ file.kind # "whole"))

-----------------------------------------------------------------------------
(* The callbacks *)

\* self_connection_status_cb, and friend_connection_status_cb with the
\* requests for negotiation it sends
ConnectionStatus ==
    /\ process = "iterating"
    /\ dirty' = TRUE
    /\ UNCHANGED <<process, identity, friends, perms, timer, accepted,
                   file, history>>

\* mutant: the save is left to the timer
FriendRequestUnsaved(k) ==
    /\ process = "iterating"
    /\ friends' = AddFriend(friends, k)
    /\ accepted' = accepted \cup {k}
    /\ UNCHANGED <<process, identity, perms, dirty, timer, file, history>>

\* friend_request_cb
FriendRequest(k) ==
    /\ process = "iterating"
    /\ friends' = AddFriend(friends, k)
    /\ accepted' = accepted \cup {k}
    /\ dirty' = TRUE
    /\ UNCHANGED <<process, identity, perms, timer, file, history>>

\* mutant: any friend but one without permissions
MayBeUser(n) == n \in DOMAIN friends /\ perms[n] >= USER

\* friend_message_cb and friend_handle_chat_command: a command of friend n
\* that is for an ADMIN
May(n) == n \in DOMAIN friends /\ perms[n] >= ADMIN

\* chat_command_friend_add.  Unlike a request it leaves the save to the timer.
CommandAdd(n, k) ==
    /\ process = "iterating"
    /\ May(n)
    /\ friends' = AddFriend(friends, k)
    /\ UNCHANGED <<process, identity, perms, dirty, timer, accepted, file, history>>

\* chat_command_friend_remove.  What is kept by the number stays.
CommandRemove(n, k) ==
    /\ process = "iterating"
    /\ May(n)
    /\ k \in Range(friends)
    /\ friends' = RemoveFriend(friends, k)
    /\ accepted' = accepted \ {k}
    /\ UNCHANGED <<process, identity, perms, dirty, timer, file, history>>

\* chat_command_friend_permission_set
CommandPermission(n, m, level) ==
    /\ process = "iterating"
    /\ May(n)
    /\ m \in DOMAIN friends
    /\ perms' = [perms EXCEPT ![m] = level]
    /\ UNCHANGED <<process, identity, friends, dirty, timer, accepted,
                   file, history>>

-----------------------------------------------------------------------------
(* The rest of tox_client_thread_fn, and tox_client_save *)

NoSave ==
    /\ process = "iterating"
    /\ timer < SaveTicks /\ ~dirty
    /\ process' = "asleep"
    /\ UNCHANGED <<ram, file, history>>

\* mutant: the timer is not set back
BeginSaveUntimed ==
    /\ process = "iterating"
    /\ timer >= SaveTicks \/ dirty
    /\ process' = "saving"
    /\ dirty' = FALSE
    /\ UNCHANGED <<identity, friends, perms, timer, accepted, file, history>>

BeginSave ==
    /\ process = "iterating"
    /\ timer >= SaveTicks \/ dirty
    /\ process' = "saving"
    /\ timer' = 0
    /\ dirty' = FALSE
    /\ UNCHANGED <<identity, friends, perms, accepted, file, history>>

\* std::ofstream truncates what is there.
Truncate ==
    /\ process = "saving"
    /\ process' = "writing"
    /\ file' = [Absent EXCEPT !.kind = "empty"]
    /\ UNCHANGED <<ram, history>>

Savedata == [kind |-> "whole", identity |-> identity, keys |-> InOrder(friends)]

\* The buffer of the stream is written when it is full and when it is closed.
WritePart ==
    /\ process = "writing"
    /\ file.kind = "empty"
    /\ file' = [Savedata EXCEPT !.kind = "partial", !.keys = << >>]
    /\ UNCHANGED <<process, ram, history>>

CloseFile ==
    /\ process = "writing"
    /\ file' = Savedata
    /\ process' = "asleep"
    /\ UNCHANGED <<ram, history>>

\* mutant: a timer that starts anew in each round of the loop
SleepUncounted ==
    /\ process = "asleep"
    /\ process' = "iterating"
    /\ UNCHANGED <<ram, file, history>>

Sleep ==
    /\ process = "asleep"
    /\ process' = "iterating"
    /\ timer' = timer + 1
    /\ UNCHANGED <<identity, friends, perms, dirty, accepted, file, history>>

-----------------------------------------------------------------------------
Callback ==
    \/ ConnectionStatus
    \/ \E k \in Keys : FriendRequest(k)
    \/ \E n \in Numbers :
        \/ \E k \in Keys : CommandAdd(n, k) \/ CommandRemove(n, k)
        \/ \E m \in Numbers, level \in Levels : CommandPermission(n, m, level)

Loop == NoSave \/ BeginSave \/ Truncate \/ WritePart \/ CloseFile \/ Sleep

ClientNext ==
    \/ StartFresh \/ StartFromSave \/ StartFromPart
    \/ Stop \/ Crash
    \/ Callback
    \/ Loop

\* The thread leaves its loop only with the process, and an iteration has an
\* end.
ClientSpec == ClientInit /\ [][ClientNext]_clientVars /\ WF_clientVars(Loop)

-----------------------------------------------------------------------------
(* Properties. *)

ClientTypeOK ==
    /\ process \in {"down", "iterating", "saving", "writing", "asleep"}
    /\ identity \in {"none", "first", "other"}
    /\ DOMAIN friends \subseteq Numbers
    /\ friends \in [DOMAIN friends -> Keys]
    /\ IsInjective(friends)
    /\ perms \in [Numbers -> Levels]
    /\ dirty \in BOOLEAN
    /\ timer \in 0 .. SaveTicks
    /\ file \in [kind : {"absent", "empty", "partial", "whole"},
                identity : {"none", "first", "other"}, keys : Seq(Keys)]
    /\ accepted \subseteq Range(friends)
    /\ born \in BOOLEAN /\ torn \in BOOLEAN

\* A process keeps the tox identity its friends know it by over every crash
\* and restart, unless a crash came upon a save that was not complete.
IdentityLasts == ~torn => identity \in {"none", "first"}

\* Whoever asked to be a friend and was accepted is in the save file before
\* the mutex is freed, and the save file is whole then: what the callbacks
\* change is not lost by a crash between two iterations.
RequestsPersist ==
    process = "asleep" =>
        /\ ~dirty
        /\ file.kind = "whole" /\ file.identity = identity
        /\ accepted \subseteq Range(file.keys)

\* Without a friend that has the permissions nobody is removed and no
\* permission changes, until the process ends.
AdminsOnly ==
    [][(~\E n \in DOMAIN friends : perms[n] = ADMIN)
        => process' = "down"
           \/ (perms' = perms /\ Range(friends) \subseteq Range(friends'))]_clientVars

\* A friend that is added and stays, whether by request or by command, gets
\* into the save file for good.
FriendsGetSaved ==
    \A k \in Keys :
        <>[](k \in Range(friends)) =>
            /\ []<>(file.kind = "whole")
            /\ <>[](file.kind = "whole" => k \in Range(file.keys))

=============================================================================
