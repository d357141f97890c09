# ttt in TLA+

ttt lets BitTorrent clients of tox friends find and reach each other. The local
torrent client announces its torrents to an http tracker inside of ttt; ttt tells
its tox friends about them, opens a local UDP port per friend, forwards what
arrives there over tox, and answers announces with the ports of the friends that
share the torrent. This directory holds TLA+ modules for the parts of the program
that carry its own logic, TLC configurations that check them on small instances,
and theorems, checked by TLAPS, that hold for all instances.

Paths below are relative to the repository; `tracker.cpp` stands for
`src/tracker.cpp` and so on. `PROJECT.json` maps each definition to its lines.

## 1. The system

### Threads and locks

| thread | code | mutexes it takes |
| --- | --- | --- |
| main | `standalone.cpp`: starts the tox client, then the tracker, then sleeps | through the API functions |
| tox client thread | `tox_client_thread_fn`: `tox_iterate` and `toxext_iterate` (all callbacks), the `tick` of both extensions, a save, 1 ms of sleep | `_tox_client_mutex` around an iteration; under it `torrent_db_mutex` (ticks, callbacks, the command `list`) or `_tracker_mutex` (the command `tunnel_host_set`) |
| tracker thread | `http_tracker_thread_fn`: look at the command queue, `mg_mgr_poll` | `_tracker_mutex`; in the handlers of `/announce` and `/list` also `torrent_db_mutex` |
| callers of the API | `tracker_start`, `_stop`, `_restart`, `_set_*`, `tox_client_start`, `_stop` | one at a time |

`TorrentDB` (`torrent_db.hpp`) is the state the tox client thread and the tracker
thread share: `torrents`, an entry per torrent with `self` and the friends known
to have it, and `peers`, the local port of each friend's tunnel.

### Components

| component | its state | its operations | modules |
| --- | --- | --- | --- |
| tunnel lifecycle (`ToxExtTunnelUDP2`) | `friend_compatible`, `_tunnels`, bound ports, `torrent_db.peers` | negotiation callback, destroy and create blocks of `tick` | `Tunnel`, `PortDirectory` |
| tunnel transport (`ToxExtTunnelUDP2`) | socket queues, `reasseble_buffer`, `outbound_address` | receive block of `tick`, `friend_custom_pkg_cb`, the commands `torrent_client_host_set` and `_port_set` | `Transport` |
| announce scheduling (`ToxExtAnnounce`) | `friend_compatible`, `friend_announce_timer` | negotiation callback, `tick` | `Announce` |
| announce packages, torrents | the buffer and the cursor of the parser | `AnnounceInfoHashPackage::to`, `::from`; `Hash`, `Torrent` and their hex form | `AnnouncePackage`, `InfoHash` |
| torrent database | `torrent_db.torrents`, `torrent_db.peers` | `http_handle_announce`, `announce_recv_callback`, the tunnels' advertisements | `Swarm`, `Rendezvous` |
| http handlers | the database, the connections | `http_fn`, `http_handle_announce` | `HttpTracker` |
| tracker lifecycle | `_tracker`, its command queue and thread | `tracker_start`, `_stop`, `_restart`, `_set_tunnel_host`, the thread function | `Tracker` |
| tox client | the tox instance, friend numbers, `friend_perms`, `save_timer`, `state_dirty_save_soon`, the save file | start, stop, the loop, the callbacks, the chat commands, the save | `ToxClient`, `ToxFriends` |
| what is kept by friend number | `friend_compatible` of both extensions, `_tunnels`, `torrents[t].friends` | callbacks, `friend_add`, `friend_remove`, the tunnels' `tick`, restarts | `FriendNumbers`, `ToxFriends` |
| mutexes | three mutexes and a join | lock, unlock, join | `Mutexes` |

They interact as follows. `friend_connection_status_cb` asks toxext to negotiate
each extension; the answers set the two `friend_compatible` maps the ticks read.
The tracker thread writes `torrents[t].self`, which the announce tick reads; the
package it sends arrives in `announce_recv_callback` of the friend, which writes
`torrents[t].friends`. The tunnel tick writes `peers`. `http_handle_announce`
answers with `peers` of `torrents[t].friends`. What a torrent client then sends to
such a port is read by the tunnel tick, sent over tox, and handed on by
`friend_custom_pkg_cb` of the friend.

### What is hard here, and what makes each part correct

* Tunnels. The tick takes `torrent_db_mutex` only to write `peers`; between these
  sections it opens and closes sockets, while the tracker answers announces and
  other programs take ports. Correct: an answer names open ports of the right
  friends, no socket is leaked, a friend that stays keeps its port, and one that
  goes loses everything.
* Transport. A datagram is one lossy packet or several lossless fragments, the last
  one told by being short. Lossy packets get lost and arrive twice, fragments meet a
  tunnel that is not there yet, sends fail half-way. Correct: damage stays within the
  datagram that was interrupted, and no fragment is handed on twice.
* Announcing. Per friend and torrent a float grows by `announce_interval` and a new
  torrent starts at `initial_time`. Correct: nothing starves, the time means what it
  is taken for, a friend that restarts is told again.
* Database. Torrents heard of and torrents shared live in one map. Correct: nothing
  heard of is passed on, friends that share a torrent meet.
* Torrents. The key of the database is made of a friend's bytes on the one way and of
  a query, over hex digits, on the other one. Correct: same bytes, same key.
* Http. A torrent client acts on what it was told last while tunnels come and go, and
  the handlers write replies after errors and after the answer. Correct: the reply a
  client reads belongs to its request and was right since it asked, and a client
  that keeps asking ends up with the right ports.
* Tracker lifecycle. Stop and restart are three steps, two of them under the mutex.
  Correct: the thread never runs without its object, calls return, a stop leaves
  nothing, a restarted tracker serves.
* Tox client. Everything is kept by friend number; the save truncates the file
  before it writes; some changes ask for a save and some do not. Correct: identity
  and friends outlive crashes, permissions are only changed by those who may.
* Friend numbers. tox gives the number of a removed friend to the next one, and
  removing a friend clears nothing that is kept by its number. Correct: no tunnel
  serves a friend it was not made for, and only numbers that were freed mislead.
* Mutexes. Three threads nest three mutexes, and a join waits for a thread that
  needs one of them. Correct: nobody waits in a circle.

`PROJECT.json` lists the hazards one by one, each at its line.

## 2. Plan

The modules were written in the order of the table above, tunnels first because
they are the program's core; each component has one module, and the proofs are in
modules of their own: one per component, but for two that share the module of a
component they belong with (`Mutexes` that of `Tracker`, `ToxClient` that of
`FriendNumbers`). Two abstract specifications say what components promise together:
`PortDirectory` (of `Tunnel`) and `Rendezvous` (of `Swarm`).

The modules are cut along the locks. `Swarm` takes from `Announce` that each shared
torrent gets into packages again and again (`EveryFriendLearns` there, a fairness
condition here) and from `Tunnel` that a connected friend gets advertised and one
that is not does not stay advertised (`TunnelComesUp`, `TunnelGoesDown`). All
modules take from `Mutexes` that critical sections come to an end.

Done: all modules of the table, and a theorem for every safety property the runs
check.

Left, in this order:

1. `Swarm` composed with the choice of `Announce`, so that its packages are the ones
   the timers pick.
2. Both directions of a tunnel at once, with the two ticks of `Tunnel` deciding when
   `Transport` has a tunnel.

## 3. The modules and the code

### Tunnel, PortDirectory

`conn` is what `tox_friend_get_connection_status` says, `friend_compatible`,
`tunnels` and `peers` are the maps of that name (`NoPort`, `"unknown"`: no key),
`owner` says which program a port is bound by. `pc`, `todo`, `cur` and `port` are
the position of the tick: which block, which friends of its loop are left, the
friend and the port it is at. `BeginDestroy`, `StopAdvertising`, `CloseTunnel` are
the block that destroys tunnels, `BeginCreate`, `ForgetOffline`, `BeginScan`,
`BindPort`, `NextPort`, `GiveUp`, `Advertise`, `EndTick` the one that creates them.
`FriendOnline`, `FriendOffline` and `NegotiateAnswer` are the callbacks, which run
only between two ticks because they run on the same thread. `OtherBinds` and
`OtherCloses` are the rest of the machine. A state of the module is a state in
which `torrent_db_mutex` is free, so that an invariant holds for all the tracker
can read.

`PortDirectory` knows ports that are held and ports that are published: a port is
published only while it is held and given back only when it is retracted. `Tunnel`
implements it with `holder` read off `owner` and `published` being `peers`.

### Transport

One direction of one tunnel, between processes A and B. `inbox` is the receive
queue of A's socket, `lossy` and `lossless` what is on the way, the former as copies
of each datagram, for tox may deliver a lossy packet not at all or more than once
(`SendLossy`); the code hands each copy on. `buffer` is B's
`reasseble_buffer`, `out` what B's torrent client got. `outbound` tells of the host
and of the port of B's `outbound_address` whether it is that of B's torrent client:
localhost and 51413, the default, may be it or not, and `SetOutbound` is the commands
that set one of them and keep the other. What is handed on to another address is
gone. `DropOversized`,
`ForwardSmall` and `ForwardLarge` are the three branches of the receive block,
`ReceiveSmall`, `Reassemble` and `DropFragment` those of `friend_custom_pkg_cb`. A
datagram is its name and its size, a fragment the name and its index. `breaks`
counts what interrupted the stream of fragments. How tunnels come and go is
`Tunnel`'s business and coarse here.

`TransportAssumption` says that no datagram that is cut up ends on a full fragment.
The code takes this for granted: with the sizes in it, 1372 and 2047, it is so if
the segments of toxext, whose source is not in the repository, have 1025 to 1373
bytes.

### Announce

`timer[f]` and `times[f]` are `friend_announce_timer[f].timer` and
`.torrent_timers`, in ticks and in intervals: a float is compared with, set to and
added whole intervals only. `BeginTick` starts the loop over the friends, `Count`,
`NothingToAnnounce` and `AnnounceTo` are a visit to one, with all it does under the
mutex. `HttpAnnounce` and `HttpAnnounceInvalid` are the tracker thread, between two
visits. The sort is `Highest`: any set of the right size of which no member has a
lower time than a torrent outside, because `std::sort` leaves the order of equal
times open. `passed` and `learned` are history: how often in a row a torrent was
passed over, and what the friend was told.

A torrent without info hash, which the handler makes of an invalid announce, equals
no torrent, so the timers get a new entry for it with each package; these entries
are the numbers `Slots`.

### AnnouncePackage, InfoHash

`AnnouncePackage` is the parser, a step per info hash, over any buffer of bytes.
`InfoHash` is what becomes of a hash. `OfFriend` is the torrent
`announce_recv_callback` makes of it, `OfClient` the one `http_handle_announce` makes
of a decoded query value: `std::to_string` turns the bytes into hex, the length of
that tells the type, and the constructor of `Hash` turns it into bytes again.
`Equal` is `Torrent::operator==`, which looks at the v1 hash of its left side first;
it is symmetric because no code makes a torrent of two hashes. `Announced` is what
the announce tick puts into a package, `Mixed` what `std::hash` looks at.

### Swarm, Rendezvous

Several processes with the sessions between them (`online`), the database of each
(`torrents`, and the keys of `peers`) and the packages on the way. `Held` is what
`announce_recv_callback` makes of a database and `Owned` what `http_handle_announce`
does, `Answer` the peers it returns. A node stands for the number its friends have
for it. `ever` is history: what each torrent client announced over all restarts of
its process. `Rendezvous` knows what each node shares and what it knows of others;
a node learns only from the one that shares.

### HttpTracker

One torrent client and the handlers. `holder` and `published` are the variables of
`PortDirectory`, an instance of which is the environment: `Tunnel` implements it, so
what holds here holds with the real tick. `holders`, `self` and `hashless` are
`torrent_db.torrents`. A query is the sequence of the values of its `info_hash`
pieces; everything else in it is skipped by `split` and the loop after it or never looked at. A value with a % that is not followed by two hex digits does not
decode: `url_decode` takes the -1 of `mg_url_decode` for a size, `resize` throws on
the tracker thread, and the process ends and has to be started again (`ProcessEnds`).
Of several values the last one counts; of none, `query_map["info_hash"]`
is empty and the announce goes on as one with a value of a wrong size: it gets two
errors and then an answer without peers. `Replies` is all that `http_fn` writes,
including the 404 it appends to every announce. `Handle` is one request, `ThreadEnds`
and `ThreadStarts` the tracker thread, which takes its connections with it. The
client (`Ask`, `Take`) takes the first reply for the answer; `Reuse` says whether it
keeps the connection. `known` is what it was told last, `possible` is history: every
answer that was right since it asked.

### Tracker

`tracker` and `joinable` are the pointer and the thread handle, `queued` says that a
STOP is in the queue (no other command exists, and none is ever taken out, so the
queue, which has no bound, is empty or it is not), `worker` is the position of the
tracker thread, `call` that of each caller. `tracker_stop` is `Stop`, `JoinToStop`, `Reset`
and `tracker_restart` is `Restart`, `JoinToRestart`, `Respawn`: push under the
mutex, join without it, the rest under it. `crash` tells how the process ended: by
following a null `_tracker`, by joining what cannot be joined, or by destroying the
handle of a running thread. (The end of the process by a value that does not decode is
`HttpTracker`'s.) Two overlapping joins of one handle are undefined; here
either may be the one that joins, and the other one then finds what it finds.

### ToxClient

`friends`, declared in `ToxFriends`, maps numbers to keys; `perms` is `friend_perms`. `Start*` are the four cases
of the save file: none, empty, whole, cut off. A save is `Truncate`, `WritePart`, `CloseFile`, so that a crash can
come between them. `FriendRequest` sets `state_dirty_save_soon` and `CommandAdd` does
not. `accepted`, `born` and `torn` are history. `tox_client_stop` destroys a
`std::thread` nobody joined, which ends the process: `Stop` is an end like a crash,
between two saves.

### FriendNumbers, ToxFriends

`ToxFriends` is tox's list of friends (`friends`) as the program meets it: the lowest free number
for a new friend, a removed one's number is free, and the friends of a save get
numbers in the order they had. `FriendNumbers` follows numbers through all that is
kept by them. `entries` and `tunnels` have, as history, the friend the entry or
tunnel was made for. An iteration is callbacks and chat commands in any order
(`Befriend`, `Delete`, `Online`, `Offline`, `NegotiateAnnounce`, `NegotiateTunnel`,
`ReceiveAnnounce`), then `Tick`, the second and third block of the tunnels' tick in
one: nothing else touches these variables meanwhile. `Restart` numbers the friends
anew and empties the rest, which is in memory only. `told` and `freed` are history.
One thing is assumed of tox: a friend that was added within an iteration (`fresh`)
is not online before the next one, since it has to be found first.

### Mutexes

What each thread holds and asks for, with nothing of what it does meanwhile. The
threads are those of tox and the tracker and any others that call the API
(`ApiThreads`).
`ToxAsks`, `HttpAsks` and `CallerAsks` say, from the code, which mutex a thread that
holds some may ask for next.

## 4. The runs

Each `MC` module extends its component; its `.cfg` gives the constants their values.

| run | instance | what it shows |
| --- | --- | --- |
| `tunnel` | 3 friends, 2 ports | `AdvertisedIsOpen`: what the tracker can read is an open tunnel of the right friend. `SocketsAccounted`: no socket leaks. `TickSettles`: a tick ends with exactly the open tunnels advertised. `KeepWhileOnline`. `ImplementsDirectory`. `TunnelComesUp`, `TunnelGoesDown` (liveness) |
| `announce` | 1 friend, 4 torrents, packages of 2, interval of 2 ticks, 1 invalid announce | `RotationFair`: of n shared torrents none is passed over more than (n - 1) div 2 times in a row. `TimesTellPassed`: the times packages are sorted by say just that. `EveryFriendLearns` (liveness) |
| `tracker` | 3 callers, every function | `WorkerHasTracker`, `OnePastJoin`, `TurnsAreSafe`: calls that do not overlap cannot end the process. `StopLeavesNothing`. `CallsReturn` (liveness) |
| `transport` | 4 datagrams: 1, 2 and 3 packets, and one too large; up to 2 copies of a lossy packet; 4 outbound addresses | `BoundedDamage`. `FragmentsOnce`: whatever is left in the buffer, nothing that was cut up is handed on twice. `LargeArrives` (liveness) |
| `swarm` | 2 processes, 2 torrents, packages of 1 | `NoGossip`, `ImplementsRendezvous`, `FriendsMeet` (liveness) |
| `tox_client` | 3 keys, a save every 2 iterations | `IdentityLasts`, `RequestsPersist`, `AdminsOnly`, `FriendsGetSaved` (liveness) |
| `numbers` | 3 keys, 2 friends at a time | `TunnelsOfTheirFriends`: nothing goes to a friend through a tunnel made for another. `MistakenByReuseOnly`: what else is kept by number is right unless a friend was removed from that number |
| `http` | 2 friends, 2 ports, 1 torrent; no query, and queries without info hash, with a proper one, and with a proper and a bad one in both orders, and with one that does not decode | `FirstReplyFits`: a client that reads one reply can rely on it. `AnswersAreFresh`: an answer was exactly right at some time since the request. `AnswersSettle` (liveness): the client ends up with the right port of each friend and no other |
| `mutexes` | 3 callers | `NoDeadlock` over all sets of threads |
| `package` | 3 byte values, hashes of 1 and 2 bytes, at most 2 of them, buffers up to 6 bytes | `Decodes`: `from` accepts what `to` makes and nothing else. `SameTorrent`: friend and torrent client mean the same torrent exactly if they send the same bytes |
| `announce_hashless`, `tracker_restart` | small | what the code does against what it says, see section 7 |

Every passing run also checks the module's `TypeOK` (`ClientTypeOK`), except `numbers`,
`mutexes`, `package` and `tracker`, for whose modules it is a theorem only. For each property
`PROJECT.json` names a mutant, a plausible bug in one definition, that breaks it.

Why the bounds are enough to be of interest: three friends and two ports run out of
ports; with four torrents and packages of two, torrents wait, are overtaken by new
ones, and tie; three callers let two be in the join while a third one starts the
tracker; 2 and 3 fragments give a datagram a head, a middle and a tail; three keys
and places for two friends let one friend get the number of another and be numbered
anew at a restart; two ports let a friend change its port, or get another's, between
request and answer; the byte 33 has two different hex digits; three mutexes need three threads for the
longest circle and get five. `MaxHashless`, `MaxSlots`, `MaxFriends` and `MaxCopies` bound
the invalid announces, the timers they make, the friends at a time and how often a
lossy packet arrives; steps beyond the bound are not taken. One friend is enough for a
rotation, as no friend has an effect on another one's timers, but it does not show
an addition between the visits to two; the theorems `RotationIsFair` and
`TimesAlwaysTell`, about any number of friends, cover that. Two processes are enough for a torrent to be sent back to where it came from,
the shortest relay; the theorem covers longer ones.

Deadlock is checked but for `tracker`, where the process may have ended, and
`package`, where parsing ends.

## 5. Fairness

* `Tunnel`: `WF_vars(Tick)`. `tox_client_thread_fn` never leaves its loop, and each
  step of the tick ends. Nothing is assumed of friends or other programs;
  `TunnelComesUp` has a port that stays free, or the friend's, as a hypothesis.
* `Announce`: the loop goes on, and strong fairness of a package with t in it that
  is sent: a send that is tried for ever does not fail for ever. `EveryFriendLearns`
  is about runs without invalid announces; with `info_hashes_max_size` of them no
  package would have room for anything else.
* `Tracker`: the operating system runs the tracker thread and lets a call continue
  when it can. `CallsReturn` asks that no other call is on its way and the STOP in
  the queue: of two threads that stop the tracker, the later one may find it started
  anew and wait for a thread nobody told to stop.
* `Transport`: A's tick reads what is there; tox delivers lossless packets while the
  session lasts. Nothing is assumed of lossy ones, which may arrive never or twice.
* `Swarm`: both threads of each process run, tox delivers, each shared torrent gets
  its turn (shown by `announce`), the tunnels follow the sessions (shown by
  `tunnel`), and torrent clients announce again and again, as the interval in each
  answer tells them to.
* `HttpTracker`: the tracker thread handles what is there and the client reads what it
  is sent (weak), and the client announces each torrent it can announce again and
  again (strong): the answers tell it to, with an interval of 60 seconds, and the
  thread that is started and stopped for ever is up again and again. Nothing is
  assumed of friends and tunnels; `AnswersSettle` is about those that stay.
* `FriendNumbers`: none; its properties are about safety.
* `ToxClient`: `WF_clientVars(Loop)`, the thread's loop. The callbacks are not fair.

## 6. Proofs

Each `_proofs` module extends its component, `Tracker_proofs` also `Mutexes` and
`FriendNumbers_proofs` also `ToxClient`, whose names differ for that (`LocksSpec`,
`ClientSpec`). All theorems follow the same argument: an inductive invariant, which
TLC checked before it was proved, that it holds at the start, that each action keeps
it, and `PTL`. The only assumptions are the `ASSUME`s of the modules, which say what
constants are and which the runs evaluate.

* `Tunnel_proofs`, for any set of friends and any range of ports. `IInv` adds to
  `SocketsAccounted` where the tick is: `PeersMatch` says that an advertisement is
  that of a tunnel except while it is being set up or taken down, and `LoopInv` that
  friends still to visit in the create block have no tunnel, and so on. Without it
  `TickSettles` does not follow: only the whole loop makes it true. Theorems
  `TypeCorrect`, `AdvertisedAlwaysOpen`, `NoSocketLeaks`, `TickAlwaysSettles`,
  `OnlineFriendsKeepTheirPort`, and `TunnelImplementsDirectory`, step by step.
* `Tracker_proofs`, for any number of callers with any set of functions each. The
  handle is a token: `HandleInv` says that a tracker that is not joinable has a
  caller past the join. With `OnePastJoin` this is inductive. Theorems `TypeCorrect`,
  `WorkerAlwaysHasTracker`, `JoinIsExclusive`, `TurnsAreAlwaysSafe`,
  `StopAlwaysLeavesNothing`.

  And of `Mutexes`, for any number of callers. `Ordered`: who waits holds only
  mutexes before the one it waits for, and who joins holds none. A waiting circle
  would need an order of three mutexes that rises for ever; the proof goes down
  `db`, `tracker`, `client` and needs no induction. Theorems `LockTypes`,
  `DeadlockFree`.
* `Announce_proofs`, for any number of friends and torrents and any size of packages.
  `RotationFair` alone is not inductive: that a torrent was passed over k times says
  nothing of the package after. `BehindPassed` adds who is behind it: at least
  `Batch * k` timers are lower than its own. A package that passes it over takes
  `Batch` torrents whose timers are not lower, sets these to 0, and adds the interval
  to all others, which keeps those behind it there: `Batch` more. There are no more
  timers than torrents that are shared, which is the bound. `BehindPassed` holds with
  invalid announces too, whose timers then count as torrents; what they take is the
  finding of section 7. Theorems `TypeCorrect`, `RotationIsFair`, `TimesAlwaysTell`.
* `Transport_proofs`, for any number of datagrams of any sizes. The two properties
  speak of what was handed on, the invariant of the `Stream`, B's buffer and after it
  what is on the way. A seam is a place in it where two fragments meet that were not
  cut one after the other. `SeamsCounted` says that damaged datagrams and seams
  together are no more than the breaks: a break makes at most one seam, and what is
  cut off the head of the stream at a last fragment is a whole datagram, unless there
  is a seam in it, which then is gone (`WholeWithoutSeams`). For `FragmentsOnce`, a
  datagram is at one place until it is cut up (`OnePlace`, `CutUp`) and each of its
  fragments is once in the stream or once in what was handed on (`Once`). Theorems
  `TypeCorrect`, `FragmentsOnceEver`, `DamageIsBounded`.
* `Swarm_proofs`, for any number of processes, friendships and torrents. `NoGossip`
  speaks of packages on the way as well as of databases, which makes it inductive
  with the types. Theorems `TypeCorrect`, `NothingIsRelayed`,
  `SwarmImplementsRendezvous`.
* `HttpTracker_proofs`, for any number of friends, ports and torrents and any set of
  queries. The invariant is `Carries`: without `Reuse` there is at most one request on
  the connection, which is the one the client waits with, or else replies of which the
  first one fits the request and, if that was a proper announce, has peers out of
  `possible`. Theorems
  `TypeCorrect`, and, for `Reuse = FALSE`, `FirstReplyAlwaysFits` and
  `AnswersAreAlwaysFresh`.
* `FriendNumbers_proofs`, for any finite set of keys. `TunnelsMade` adds
  that the tunnel at a friend's number is that friend's unless the friend is fresh,
  hence offline, and that all tunnels are of online friends when the tick is over,
  which clears the others. `KeptOfFriends` adds what `MistakenByReuseOnly` leaves out:
  numbers that were never freed and are no friend's have nothing kept. That a
  restart keeps every friend (`RestartKeepsFriends`) is a pigeonhole argument: the
  ranks of numbers differ (`RanksDiffer`) and are as many as the friends, so they
  fill an interval (`RanksFill`). Theorems `TypeCorrect`,
  `TunnelsAlwaysOfTheirFriends`, `MistakenOnlyByReuse`.

  And of `ToxClient`, for any save interval. `Kept` says what `RequestsPersist` is about while the callbacks run, too:
  the file is whole, and it has everybody who was accepted unless the state is dirty,
  so a save that is left out loses nobody. `Lasts` adds the identity in the file, and
  that after the end of a process that was not in a save there is a whole file; with
  it no start makes another identity. `DownIsNew` says that a start gives and takes no
  permission. That a save and the start from it keep each friend once is
  `SavedFriends` and `LoadedFriends`. Theorems `ClientTypeCorrect`,
  `ClientIdentityLasts`, `ClientRequestsPersist`, `ClientAdminsOnly`.
* `AnnouncePackage_proofs`, for hashes of all sizes and buffers of all lengths. That
  hex digits give back their bytes is arithmetic on each byte (`HexRoundTrip`); with
  it `ClientTorrent` tells the torrent of a query value from its length alone, which
  needs that the two sizes differ. For `Decodes` the invariant relates each step of
  the parser to `To`: what was read is the package of the hashes so far (`Read`), and
  if the buffer is a package, these are its first ones (`Follows`), so that the parser
  fails on no package (`ComesNext`). Theorems `TypeCorrect`, `AlwaysTheSameTorrent`,
  `AlwaysDecodes`.

Induction over data, which `Transport` (fragments up to the next last one) and
`AnnouncePackage` (hashes of a package, and the recursive function in `FlattenSeq`)
need, is done without the library's induction theorems: they take an operator as a
parameter, which the provers cannot instantiate. Instead, of the numbers for which a
statement fails there is a least one (`Least`, from the well-foundedness of `<`), and
that one is refuted.

Only model-checked: all liveness (`TunnelComesUp`, `TunnelGoesDown`,
`EveryFriendLearns`, `CallsReturn`, `LargeArrives`, `FriendsMeet`,
`FriendsGetSaved`, `AnswersSettle`), which needs `ENABLED` and fairness, out of the
provers' reach.

## 7. Where the code differs from what it says

* `announce_hashless`: an announce with a bad `info_hash` is answered with an error
  and stored all the same (`tracker.cpp:210`); it takes a place in every package.
* `tracker_restart`: `tracker_restart` leaves its STOP in the queue, so the thread it
  starts ends at once (`tracker.cpp:357`).

Also visible in the models, without a run of their own:

* "all functions are thread save" (`tracker.hpp:11`): `tunnel_host_set` before
  `tracker_start` follows a null pointer (`tracker.cpp:150`), and `standalone.cpp:53`
  starts the tox client, which runs that command, first (`SetTunnelHost` of `Tracker`;
  `TurnsAreSafe` allows for it); two threads that stop the tracker at the same time
  may end the process (`Crash("join")` of `Tracker`).
* "if an entry exists, negotiantion has been done at least once"
  (`ext_announce.hpp:36`): an entry of `friend_compatible` outlives its friend and is
  taken over by the next one with the number; so are its place among the friends of a
  torrent and its permissions (`MistakenByReuseOnly` says when).
* Every announce is followed by a 404, "huh?" (`tracker.cpp:306`): over a connection
  that is kept, a client takes it for the answer to its next request. `FirstReplyFits`
  is violated with `Reuse = TRUE`.
* A datagram whose head was dropped for want of a tunnel is handed on without it
  (`Damaged` of `Transport`, bounded by `BoundedDamage`).
* An announce with a value that does not decode ends the process (`tracker.cpp:47`,
  `ProcessEnds` of `HttpTracker`).
* `tox_client_stop` never returns (`Stop` of `ToxClient`).
* A restart numbers friends anew and makes number 0 admin (`FirstIsAdmin` of
  `ToxClient`), whoever it is then.

## 8. Not modelled

* `ToxExtTunnelUDP` (`ext_tunnel_udp.cpp`): never instantiated. Its extension has the
  UUID of `ToxExtTunnelUDP2`, so the two could not run side by side.
* tox, toxext and sodium, which are external, and mongoose and zed_net, which are
  vendored: the modules have what the code gets from them (sessions, packets, friend
  numbers, save data, requests, decoded values, sockets).
* Strings: characters of queries and bencoded answers, parsing of chat commands. A
  query value is a torrent, one of a wrong size, or one that does not decode.
* The chat commands that only answer, logging, the DHT bootstrap: no state. (A reply
  longer than a tox message is not sent.)
* Torrents with both hashes: the program makes none.
* The build.
