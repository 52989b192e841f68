----------------------------- MODULE Conntrack -----------------------------
(***************************************************************************)
(* The connection tracker of a QUIC endpoint: `Conntrack` and its two GC   *)
(* threads in librad/src/net/quic/connection/tracking.rs, with the calls   *)
(* connection.rs, stream.rs and endpoint.rs make on it.                    *)
(*                                                                         *)
(* Two concurrent maps refer to the same connections: `connections` owns   *)
(* them, `peer_connections` holds weak references, each at most once, of   *)
(* which `get` takes the last and the model any. Each map operation is     *)
(* atomic, but nothing spans the two, so `connected`, `tickle`,            *)
(* `disconnect_peer`, `disconnect_all` and the sweeps are several steps.   *)
(*                                                                         *)
(* Only the distance of a connection's epoch from the current GC epoch     *)
(* matters. `lead[c]` is `tracked.epoch - epoch`: the reaper's             *)
(* `fetch_add` lowers every lead, and also the epoch a concurrent call     *)
(* has loaded. Anything below 0 is equally overdue, so leads stop at -1.   *)
(***************************************************************************)
EXTENDS Integers, FiniteSets

CONSTANTS
    Conns,                \* connections, each established at most once
    Peers,
    PeerOf,               \* [Conns -> Peers], remote_peer_id()
    MaxPeerConnections    \* MAX_PEER_CONNECTIONS

ASSUME ConntrackAssumption ==
    PeerOf \in [Conns -> Peers] /\ MaxPeerConnections \in Nat \ {0}

VARIABLES
    pc,         \* progress of `connected`: "none", "open", "loaded", "inserted", "done"
    lead,       \* keys of `connections`, with their epochs
    lists,      \* `peer_connections`: the weak references per peer
    closed,     \* connections on which close() was called
    loaded,     \* epochs loaded by `connected` and `tickle` and not yet stored
    tickling,   \* connections whose entry is locked by a `tickle`
    dropping,   \* connections `disconnect_peer` has yet to remove
    sweep,      \* the reaper thread: connections it has yet to visit
    prune,      \* the other GC thread: peers it has yet to prune
    empty,      \* ... and the ones it found empty
    shutdown,   \* Endpoint::close: "no", "closed", "cleared", "done"
    idle        \* history: bumps of the epoch since the connection was last used

vars == <<pc, lead, lists, closed, loaded, tickling, dropping, sweep, prune, empty,
          shutdown, idle>>

gcVars   == <<sweep, prune, empty>>
callVars == <<loaded, tickling, dropping>>

Tracked == DOMAIN lead
Entries == DOMAIN lists

\* `Weak::upgrade(weak).is_some()`
Live(c) == c \in Tracked \cup dropping

Sweeping == sweep \cap Tracked # {}

Lower(n) == IF n <= 0 THEN -1 ELSE n - 1

\* Beyond two bumps a connection is just old.
Older(n) == IF n = 2 THEN 2 ELSE n + 1

\* What `retain` leaves of a list.
Retain(conns) == {c \in conns : Live(c)}

Without(f, S) == [x \in DOMAIN f \ S |-> f[x]]

With(f, x, y) == [z \in DOMAIN f \cup {x} |-> IF z = x THEN y ELSE f[z]]

Init ==
    /\ pc = [c \in Conns |-> "none"]
    /\ lead = <<>>
    /\ lists = <<>>
    /\ closed = {}
    /\ loaded = <<>>
    /\ tickling = {}
    /\ dropping = {}
    /\ sweep = {}
    /\ prune = {}
    /\ empty = {}
    /\ shutdown = "no"
    /\ idle = [c \in Conns |-> 2]

-----------------------------------------------------------------------------
(***************************************************************************)
(* connected: load the epoch, insert into `connections`, then enter the    *)
(* list of the peer, whose older connections may have to go.               *)
(***************************************************************************)

Establish(c) ==
    /\ pc[c] = "none"
    /\ shutdown = "no"
    /\ pc' = [pc EXCEPT ![c] = "open"]
    /\ UNCHANGED <<lead, lists, closed, callVars, gcVars, shutdown, idle>>

ConnectedLoad(c) ==
    /\ pc[c] = "open"
    /\ pc' = [pc EXCEPT ![c] = "loaded"]
    /\ loaded' = With(loaded, c, 0)
    /\ UNCHANGED <<lead, lists, closed, tickling, dropping, gcVars, shutdown, idle>>

\* A sweep in progress may or may not get to see the new entry.
ConnectedInsert(c) ==
    /\ pc[c] = "loaded"
    /\ pc' = [pc EXCEPT ![c] = "inserted"]
    /\ lead' = With(lead, c, loaded[c])
    /\ loaded' = Without(loaded, {c})
    /\ sweep' \in IF Sweeping THEN {sweep, sweep \cup {c}} ELSE {sweep}
    /\ UNCHANGED <<lists, closed, tickling, dropping, prune, empty, shutdown, idle>>

ConnectedList(c) ==
    LET conns == IF PeerOf[c] \in Entries THEN Retain(lists[PeerOf[c]]) ELSE {}
        full  == Cardinality(conns) >= MaxPeerConnections
    IN  /\ pc[c] = "inserted"
        /\ pc' = [pc EXCEPT ![c] = "done"]
        /\ lists' = With(lists, PeerOf[c], IF full THEN {c} ELSE conns \cup {c})
        /\ closed' = IF full THEN closed \cup conns ELSE closed
        /\ UNCHANGED <<lead, callVars, gcVars, shutdown, idle>>

-----------------------------------------------------------------------------
(***************************************************************************)
(* get, tickle and the ways to disconnect.                                 *)
(***************************************************************************)

Get(p) ==
    LET conns == Retain(lists[p])
    IN  /\ p \in Entries
        /\ lists' = IF conns = {} THEN Without(lists, {p}) ELSE With(lists, p, conns)
        /\ UNCHANGED <<pc, lead, closed, callVars, gcVars, shutdown, idle>>

\* Any activity on a stream of c. The entry stays locked until the new
\* epoch is stored.
TickleLoad(c) ==
    /\ c \in Tracked \ tickling
    /\ tickling' = tickling \cup {c}
    /\ loaded' = With(loaded, c, 1)
    /\ idle' = [idle EXCEPT ![c] = 0]
    /\ UNCHANGED <<pc, lead, lists, closed, dropping, gcVars, shutdown>>

TickleStore(c) ==
    /\ c \in tickling
    /\ tickling' = tickling \ {c}
    /\ lead' = [lead EXCEPT ![c] = IF loaded[c] > @ THEN loaded[c] ELSE @]
    /\ loaded' = Without(loaded, {c})
    /\ UNCHANGED <<pc, lists, closed, dropping, gcVars, shutdown, idle>>

\* A stream failed, or the connection was closed by a caller.
Disconnect(c) ==
    /\ c \in Tracked \ tickling
    /\ lead' = Without(lead, {c})
    /\ closed' = closed \cup {c}
    /\ UNCHANGED <<pc, lists, callVars, gcVars, shutdown, idle>>

DisconnectPeer(p) ==
    /\ p \in Entries
    /\ lists' = Without(lists, {p})
    /\ dropping' = dropping \cup Retain(lists[p])
    /\ UNCHANGED <<pc, lead, closed, loaded, tickling, gcVars, shutdown, idle>>

DisconnectPeerDrop(c) ==
    /\ c \in dropping \ tickling
    /\ dropping' = dropping \ {c}
    /\ lead' = Without(lead, {c})
    /\ UNCHANGED <<pc, lists, closed, loaded, tickling, gcVars, shutdown, idle>>

\* Endpoint::close: quinn closes every connection, then both maps are cleared.
Close ==
    /\ shutdown = "no"
    /\ shutdown' = "closed"
    /\ closed' = {c \in Conns : pc[c] # "none"}
    /\ UNCHANGED <<pc, lead, lists, callVars, gcVars, idle>>

DisconnectAllConns ==
    /\ shutdown = "closed"
    /\ tickling = {}
    /\ shutdown' = "cleared"
    /\ lead' = <<>>
    /\ UNCHANGED <<pc, lists, closed, callVars, gcVars, idle>>

DisconnectAllPeers ==
    /\ shutdown = "cleared"
    /\ shutdown' = "done"
    /\ lists' = <<>>
    /\ UNCHANGED <<pc, lead, closed, callVars, gcVars, idle>>

-----------------------------------------------------------------------------
(***************************************************************************)
(* The reaper: bump the epoch, then visit the connections one by one.      *)
(***************************************************************************)

SweepBump ==
    /\ ~Sweeping
    /\ lead' = [c \in Tracked |-> Lower(lead[c])]
    /\ loaded' = [c \in DOMAIN loaded |-> Lower(loaded[c])]
    /\ sweep' = Tracked
    /\ idle' = [c \in Conns |-> Older(idle[c])]
    /\ UNCHANGED <<pc, lists, closed, tickling, dropping, prune, empty, shutdown>>

\* Mutant: the sweep also closes what has just been tickled.
SweepVisitEarly(c) ==
    /\ c \in (sweep \cap Tracked) \ tickling
    /\ sweep' = sweep \ {c}
    /\ IF lead[c] <= 0
       THEN /\ lead' = Without(lead, {c})
            /\ closed' = closed \cup {c}
       ELSE UNCHANGED <<lead, closed>>
    /\ UNCHANGED <<pc, lists, callVars, prune, empty, shutdown, idle>>

\* Mutant: an overdue connection is closed but not removed.
SweepVisitKeep(c) ==
    /\ c \in (sweep \cap Tracked) \ tickling
    /\ sweep' = sweep \ {c}
    /\ closed' = IF lead[c] < 0 THEN closed \cup {c} ELSE closed
    /\ UNCHANGED <<pc, lead, lists, callVars, prune, empty, shutdown, idle>>

\* `tracked_epoch <= prev_epoch` is a negative lead over the bumped epoch;
\* the others are at the current epoch or ahead of it already.
SweepVisit(c) ==
    /\ c \in (sweep \cap Tracked) \ tickling
    /\ sweep' = sweep \ {c}
    /\ IF lead[c] < 0
       THEN /\ lead' = Without(lead, {c})
            /\ closed' = closed \cup {c}
       ELSE UNCHANGED <<lead, closed>>
    /\ UNCHANGED <<pc, lists, callVars, prune, empty, shutdown, idle>>

-----------------------------------------------------------------------------
(***************************************************************************)
(* The other thread: prune every list, then remove the empty ones.         *)
(***************************************************************************)

PruneStart ==
    /\ prune \cap Entries = {}
    /\ empty = {}
    /\ prune' = Entries
    /\ UNCHANGED <<pc, lead, lists, closed, callVars, sweep, empty, shutdown, idle>>

PrunePeer(p) ==
    LET conns == Retain(lists[p])
    IN  /\ p \in prune \cap Entries
        /\ prune' = prune \ {p}
        /\ lists' = With(lists, p, conns)
        /\ empty' = IF conns = {} THEN empty \cup {p} ELSE empty
        /\ UNCHANGED <<pc, lead, closed, callVars, sweep, shutdown, idle>>

\* Mutant: removes the entry without looking again.
PruneEvictBlindly(p) ==
    /\ prune \cap Entries = {}
    /\ p \in empty
    /\ empty' = empty \ {p}
    /\ lists' = Without(lists, {p})
    /\ UNCHANGED <<pc, lead, closed, callVars, sweep, prune, shutdown, idle>>

\* Mutant: never removes an entry.
PruneEvictNever(p) ==
    /\ prune \cap Entries = {}
    /\ p \in empty
    /\ empty' = empty \ {p}
    /\ UNCHANGED <<pc, lead, lists, closed, callVars, sweep, prune, shutdown, idle>>

PruneEvict(p) ==
    /\ prune \cap Entries = {}
    /\ p \in empty
    /\ empty' = empty \ {p}
    /\ lists' = IF p \in Entries /\ lists[p] = {} THEN Without(lists, {p}) ELSE lists
    /\ UNCHANGED <<pc, lead, closed, callVars, sweep, prune, shutdown, idle>>

-----------------------------------------------------------------------------

Gc == \/ SweepBump
      \/ \E c \in Conns : SweepVisit(c)

Prune == \/ PruneStart
         \/ \E p \in Peers : PrunePeer(p) \/ PruneEvict(p)

Next ==
    \/ \E c \in Conns :
          \/ Establish(c) \/ ConnectedLoad(c) \/ ConnectedInsert(c) \/ ConnectedList(c)
          \/ TickleLoad(c) \/ TickleStore(c)
          \/ Disconnect(c) \/ DisconnectPeerDrop(c)
    \/ \E p \in Peers : Get(p) \/ DisconnectPeer(p)
    \/ Close \/ DisconnectAllConns \/ DisconnectAllPeers
    \/ Gc \/ Prune

Spec == Init /\ [][Next]_vars

\* The two GC threads keep running, and a call that has begun returns. The
\* reaper waits for the shard locks that tickles take for an instant, and
\* gets each of them some time.
Fairness ==
    /\ SF_vars(Gc)
    /\ WF_vars(Prune)
    /\ \A c \in Conns : WF_vars(TickleStore(c)) /\ WF_vars(DisconnectPeerDrop(c))

FairSpec == Spec /\ Fairness

-----------------------------------------------------------------------------

\* Every variable has its type; no list outgrows MAX_PEER_CONNECTIONS or
\* holds a connection of another peer.
TypeOK ==
    /\ pc \in [Conns -> {"none", "open", "loaded", "inserted", "done"}]
    /\ Tracked \subseteq Conns /\ \A c \in Tracked : lead[c] \in -1 .. 1
    /\ DOMAIN loaded \subseteq Conns /\ \A c \in DOMAIN loaded : loaded[c] \in -1 .. 1
    /\ Entries \subseteq Peers
    /\ \A p \in Entries :
          /\ IsFiniteSet(lists[p]) /\ Cardinality(lists[p]) <= MaxPeerConnections
          /\ lists[p] \subseteq {c \in Conns : PeerOf[c] = p}
    /\ tickling \subseteq Tracked /\ dropping \subseteq Conns
    /\ closed \cup sweep \subseteq Conns
    /\ idle \in [Conns -> 0 .. 2]
    /\ prune \cup empty \subseteq Peers
    /\ shutdown \in {"no", "closed", "cleared", "done"}

\* `get` can find every usable connection: once `connected` has returned, a
\* tracked connection that nobody has closed or is about to drop is in the
\* list of its peer, whatever the GC threads do to the lists meanwhile.
NoOrphan ==
    \A c \in Tracked \ (closed \cup dropping) :
        pc[c] = "done" => PeerOf[c] \in Entries /\ c \in lists[PeerOf[c]]

\* `get` never hands out a connection we have closed: a listed connection
\* that is still tracked has not been closed, unless the endpoint has.
GetYieldsOpen ==
    \A p \in Entries : \A c \in lists[p] \cap closed :
        c \in Tracked => shutdown # "no"

Reaped(c) == c \in sweep \ sweep' /\ c \notin DOMAIN lead'

\* "Indicate activity on the given connection. Will prevent the connection
\* from being dropped due to inactivity": the reaper only closes what was not
\* used for a whole period, from one bump of the epoch to the next.
ReaperSparesActive == [][ \A c \in Tracked : Reaped(c) => idle[c] = 2 ]_vars

\* A connection that was not used for a while is used again, or reaped.
Idles(c) == c \in Tracked /\ idle[c] > 0

IdleIsReaped == \A c \in Conns : Idles(c) ~> ~Idles(c)

\* The corner case the second GC thread is there for: the entry of a peer all
\* of whose connections are gone does not stay forever.
IsDead(p) == p \in Entries /\ \A c \in lists[p] : ~Live(c)

DeadEntriesReclaimed == \A p \in Peers : IsDead(p) ~> ~IsDead(p)

\* What the two GC threads are for: idle connections and dead entries go.
GarbageIsCollected == IdleIsReaped /\ DeadEntriesReclaimed
=============================================================================
