-------------------------- MODULE ConntrackProofs --------------------------
(***************************************************************************)
(* Proofs about the connection tracker, for any connections, any peers and *)
(* any limit, under every interleaving of the calls and the GC threads.    *)
(***************************************************************************)
EXTENDS Conntrack, FiniteSetTheorems, TLAPS

\* The stages of `connected` in which a connection is in neither map.
Unlisted == {"none", "open", "loaded"}

\* The variables are typed; an epoch is loaded by `connected` or by a `tickle`.
MapsOK ==
    /\ pc \in [Conns -> Unlisted \cup {"inserted", "done"}]
    /\ lead \in [Tracked -> -1 .. 1] /\ Tracked \subseteq Conns
    /\ loaded \in [DOMAIN loaded -> -1 .. 1]
    /\ DOMAIN loaded = {c \in Conns : pc[c] = "loaded"} \cup tickling
    /\ lists \in [Entries -> SUBSET Conns] /\ Entries \subseteq Peers
    /\ tickling \subseteq Tracked /\ dropping \subseteq Conns
    /\ closed \subseteq Conns /\ sweep \subseteq Conns
    /\ prune \subseteq Peers /\ empty \subseteq Peers
    /\ idle \in [Conns -> 0 .. 2]
    /\ shutdown \in {"no", "closed", "cleared", "done"}

\* A connection is listed for its peer only, once `connected` has returned, and
\* tracked and used only once it was inserted.
StagesOK ==
    /\ \A p \in Entries : \A c \in lists[p] : PeerOf[c] = p /\ pc[c] = "done"
    /\ \A c \in Conns : pc[c] \in Unlisted => c \notin Tracked /\ idle[c] = 2

\* Until the endpoint closes, what is closed is not tracked any more, or was evicted
\* from the list of its peer for good. The endpoint closes all there are.
ClosedOK ==
    IF shutdown = "no"
    THEN \A c \in closed :
            /\ pc[c] \notin Unlisted
            /\ c \in Tracked => pc[c] = "done" /\ \A p \in Entries : c \notin lists[p]
    ELSE \A c \in Conns : pc[c] # "none" => c \in closed

\* The epoch of a connection, or the one a `tickle` is about to store, is ahead of
\* the current one by no less than the time since its last use allows.
Ahead(c) == IF c \in tickling /\ loaded[c] > lead[c] THEN loaded[c] ELSE lead[c]
EpochsOK == \A c \in Tracked : Ahead(c) >= 1 - idle[c]

ConnInv == MapsOK /\ StagesOK /\ ClosedOK /\ EpochsOK /\ NoOrphan

\* No list outgrows MAX_PEER_CONNECTIONS.
ListsBounded ==
    \A p \in Entries : IsFiniteSet(lists[p]) /\ Cardinality(lists[p]) <= MaxPeerConnections

-----------------------------------------------------------------------------
(***************************************************************************)
(* connected                                                               *)
(***************************************************************************)

\* A new connection is not in any map yet.
LEMMA EstablishKeeps ==
    ASSUME ConnInv, NEW c \in Conns, Establish(c)
    PROVE  ConnInv'
<1> USE DEF ConnInv, Establish, callVars, gcVars, Tracked, Entries, Unlisted
<1>1. MapsOK'
  BY DEF MapsOK
<1>2. StagesOK'
  BY DEF MapsOK, StagesOK
<1>3. ClosedOK'
  BY DEF MapsOK, ClosedOK
<1>4. EpochsOK'
  BY DEF EpochsOK, Ahead
<1>5. NoOrphan'
  BY DEF MapsOK, NoOrphan
<1> QED
  BY <1>1, <1>2, <1>3, <1>4, <1>5

\* `connected` loads the epoch before the connection is in any map.
LEMMA ConnectedLoadKeeps ==
    ASSUME ConnInv, NEW c \in Conns, ConnectedLoad(c)
    PROVE  ConnInv'
<1> USE DEF ConnInv, ConnectedLoad, gcVars, Tracked, Entries, Unlisted
<1>0. c \notin tickling /\ c \notin Tracked
  BY DEF MapsOK, StagesOK
<1>1. MapsOK'
  BY DEF MapsOK, With
<1>2. StagesOK'
  BY DEF MapsOK, StagesOK
<1>3. ClosedOK'
  BY DEF MapsOK, ClosedOK
<1>4. EpochsOK'
  BY <1>0 DEF MapsOK, EpochsOK, Ahead, With
<1>5. NoOrphan'
  BY DEF MapsOK, NoOrphan
<1> QED
  BY <1>1, <1>2, <1>3, <1>4, <1>5

\* `connected` inserts into `connections`: tracked, but not yet due in a list.
LEMMA ConnectedInsertKeeps ==
    ASSUME ConnInv, NEW c \in Conns, ConnectedInsert(c)
    PROVE  ConnInv'
<1> USE DEF ConnInv, ConnectedInsert, Tracked, Entries, Unlisted
<1>0. c \notin tickling /\ c \notin Tracked /\ c \in DOMAIN loaded /\ idle[c] = 2
  BY DEF MapsOK, StagesOK
<1>1. MapsOK'
  BY <1>0 DEF MapsOK, With, Without
<1>2. StagesOK'
  BY DEF MapsOK, StagesOK, With
<1>3. ClosedOK'
  BY DEF MapsOK, ClosedOK, With
<1>4. EpochsOK'
  BY <1>0 DEF MapsOK, EpochsOK, Ahead, With, Without
<1>5. NoOrphan'
  BY DEF MapsOK, NoOrphan, With
<1> QED
  BY <1>1, <1>2, <1>3, <1>4, <1>5

\* The peer's list is full and all its connections are closed, or it has room.
LEMMA ConnectedListKeeps ==
    ASSUME ConnInv, NEW c \in Conns, ConnectedList(c)
    PROVE  ConnInv'
<1> USE DEF ConnInv, Tracked, Entries, Unlisted
<1> DEFINE p == PeerOf[c]
           conns == IF p \in Entries THEN Retain(lists[p]) ELSE {}
           full == Cardinality(conns) >= MaxPeerConnections
           list == IF full THEN {c} ELSE conns \cup {c}
<1>0. /\ pc[c] = "inserted" /\ pc' = [pc EXCEPT ![c] = "done"]
      /\ lists' = With(lists, p, list)
      /\ closed' = IF full THEN closed \cup conns ELSE closed
      /\ UNCHANGED <<lead, loaded, tickling, dropping, sweep, prune, empty, shutdown, idle>>
  BY DEF ConnectedList, callVars, gcVars
<1>a. p \in Peers /\ conns \subseteq Conns /\ c \notin conns /\ list \subseteq Conns /\ c \in list
  <2>1. p \in Peers
    BY ConntrackAssumption
  <2>2. conns \subseteq Conns
    BY DEF MapsOK, Retain
  <2>3. c \notin conns
    BY <1>0 DEF StagesOK, Retain
  <2> QED
    BY <2>1, <2>2, <2>3
<1>b. /\ \A d \in conns : p \in Entries /\ d \in lists[p]
      /\ p \in Entries => \A d \in lists[p] : d \in Tracked => d \in conns
      /\ full => list = {c}
      /\ ~full => list = conns \cup {c}
  BY DEF Retain, Live
<1> HIDE DEF conns, full, list
<1>c. /\ Entries' = Entries \cup {p} /\ lists'[p] = list
      /\ \A q \in Entries : q # p => lists'[q] = lists[q]
      /\ lists' \in [Entries' -> SUBSET Conns]
  BY <1>0, <1>a DEF MapsOK, With
<1> HIDE DEF p
<1>1. MapsOK'
  BY <1>0, <1>a, <1>c DEF MapsOK
<1>2. StagesOK'
  BY <1>0, <1>a, <1>b, <1>c DEF MapsOK, StagesOK, p
<1>3. ClosedOK'
  <2>1. CASE shutdown = "no"
    <3> SUFFICES ASSUME NEW d \in closed'
                 PROVE  /\ pc'[d] \notin Unlisted
                        /\ d \in Tracked => pc'[d] = "done" /\ \A q \in Entries' : d \notin lists'[q]
      BY <1>0, <2>1 DEF ClosedOK
    <3>1. CASE d \in closed
      <4>1. /\ pc[d] \notin Unlisted
            /\ d \in Tracked => pc[d] = "done" /\ \A q \in Entries : d \notin lists[q]
        BY <2>1, <3>1 DEF ClosedOK
      <4>2. d \in Tracked => d # c
        BY <4>1, <1>0
      <4> QED
        BY <4>1, <4>2, <1>0, <1>a, <1>b, <1>c DEF MapsOK
    <3>2. CASE d \notin closed
      <4>1. full /\ d \in conns /\ d \in lists[p] /\ p \in Entries
        BY <3>2, <1>0, <1>b
      <4>2. PeerOf[d] = p /\ pc[d] = "done" /\ d # c
        BY <4>1, <1>a DEF StagesOK
      <4>3. \A q \in Entries : q # p => d \notin lists[q]
        BY <4>2 DEF StagesOK
      <4> QED
        BY <4>1, <4>2, <4>3, <1>0, <1>a, <1>b, <1>c DEF MapsOK
    <3> QED
      BY <3>1, <3>2
  <2>2. CASE shutdown # "no"
    BY <2>2, <1>0 DEF MapsOK, ClosedOK
  <2> QED
    BY <2>1, <2>2
<1>4. EpochsOK'
  BY <1>0 DEF EpochsOK, Ahead
<1>5. NoOrphan'
  <2> SUFFICES ASSUME NEW d \in Tracked \ (closed' \cup dropping), pc'[d] = "done"
               PROVE  PeerOf[d] \in Entries' /\ d \in lists'[PeerOf[d]]
    BY <1>0 DEF NoOrphan
  <2>1. CASE d = c
    BY <2>1, <1>a, <1>c DEF p
  <2>2. CASE d # c
    <3>1. pc[d] = "done" /\ d \notin closed /\ d \in Conns
      BY <2>2, <1>0 DEF MapsOK
    <3>2. PeerOf[d] \in Entries /\ d \in lists[PeerOf[d]]
      BY <3>1 DEF NoOrphan
    <3>3. PeerOf[d] = p => d \in conns /\ ~full
      BY <3>2, <1>0, <1>b
    <3> QED
      BY <3>2, <3>3, <1>b, <1>c
  <2> QED
    BY <2>1, <2>2
<1> QED
  BY <1>1, <1>2, <1>3, <1>4, <1>5

-----------------------------------------------------------------------------
(***************************************************************************)
(* Steps that only shorten lists, and keep what is tracked in them.        *)
(***************************************************************************)

\* A step that drops from the lists nothing but what is dead, closed or about to
\* be dropped keeps the invariant.
LEMMA ListsShrink ==
    ASSUME ConnInv, Entries' \subseteq Entries, lists' \in [Entries' -> SUBSET Conns],
           \A p \in Entries' : lists'[p] \subseteq lists[p],
           UNCHANGED <<pc, lead, closed, loaded, tickling, idle>>, sweep' \subseteq Conns,
           shutdown' \in {"no", "closed", "cleared", "done"}, (shutdown' = "no") <=> (shutdown = "no"),
           dropping \subseteq dropping', dropping' \subseteq Conns,
           \A p \in Entries : \A c \in lists[p] \cap Tracked :
               c \in dropping' \cup closed \/ (p \in Entries' /\ c \in lists'[p]),
           prune' \subseteq Peers, empty' \subseteq Peers
    PROVE  ConnInv'
<1> USE DEF ConnInv, Tracked, Entries
<1>1. MapsOK'
  BY DEF MapsOK
<1>2. StagesOK'
  BY DEF StagesOK
<1>3. ClosedOK'
  BY DEF ClosedOK
<1>4. EpochsOK'
  BY DEF EpochsOK, Ahead
<1>5. NoOrphan'
  BY DEF NoOrphan
<1> QED
  BY <1>1, <1>2, <1>3, <1>4, <1>5

\* `get` retains what is alive.
LEMMA GetKeeps ==
    ASSUME ConnInv, NEW p \in Peers, Get(p)
    PROVE  ConnInv'
<1> DEFINE conns == Retain(lists[p])
<1>1. /\ p \in Entries
      /\ lists' = IF conns = {} THEN Without(lists, {p}) ELSE With(lists, p, conns)
      /\ UNCHANGED <<pc, lead, closed, loaded, tickling, dropping, sweep, prune, empty, shutdown, idle>>
  BY DEF Get, callVars, gcVars
<1>2. conns \subseteq lists[p] /\ (lists[p] \cap Tracked) \subseteq conns
  BY DEF Retain, Live
<1>3. MapsOK
  BY DEF ConnInv
<1> HIDE DEF conns
<1>4. CASE conns = {}
  BY <1>1, <1>2, <1>3, <1>4, ListsShrink DEF MapsOK, Tracked, Entries, Without
<1>5. CASE conns # {}
  BY <1>1, <1>2, <1>3, <1>5, ListsShrink DEF MapsOK, Tracked, Entries, With
<1> QED
  BY <1>4, <1>5

\* `disconnect_peer` takes the list away and will drop what it had.
LEMMA DisconnectPeerKeeps ==
    ASSUME ConnInv, NEW p \in Peers, DisconnectPeer(p)
    PROVE  ConnInv'
<1>1. /\ p \in Entries
      /\ lists' = Without(lists, {p})
      /\ dropping' = dropping \cup Retain(lists[p])
      /\ UNCHANGED <<pc, lead, closed, loaded, tickling, sweep, prune, empty, shutdown, idle>>
  BY DEF DisconnectPeer, gcVars
<1>2. Retain(lists[p]) \subseteq lists[p] /\ (lists[p] \cap Tracked) \subseteq Retain(lists[p])
  BY DEF Retain, Live
<1>3. MapsOK
  BY DEF ConnInv
<1> QED
  BY <1>1, <1>2, <1>3, ListsShrink DEF MapsOK, Tracked, Entries, Without

\* `disconnect_all` clears the lists once the endpoint has closed.
LEMMA DisconnectAllPeersKeeps ==
    ASSUME ConnInv, DisconnectAllPeers
    PROVE  ConnInv'
<1>1. /\ shutdown = "cleared" /\ shutdown' = "done" /\ lists' = <<>>
      /\ UNCHANGED <<pc, lead, closed, loaded, tickling, dropping, sweep, prune, empty, idle>>
  BY DEF DisconnectAllPeers, callVars, gcVars
<1>2. \A p \in Entries : \A c \in lists[p] \cap Tracked : c \in closed
  BY <1>1 DEF ConnInv, MapsOK, StagesOK, ClosedOK
<1>3. Entries' = {} /\ lists' \in [Entries' -> SUBSET Conns]
  BY <1>1 DEF Entries
<1>4. MapsOK
  BY DEF ConnInv
<1> QED
  BY <1>1, <1>2, <1>3, <1>4, ListsShrink DEF MapsOK, Tracked

\* The second GC thread prunes the lists, and removes what is still empty.
LEMMA PruneKeeps ==
    ASSUME ConnInv, Prune
    PROVE  ConnInv'
<1>1. MapsOK
  BY DEF ConnInv
<1>2. CASE PruneStart
  BY <1>1, <1>2, ListsShrink DEF PruneStart, callVars, MapsOK, Tracked, Entries
<1>3. ASSUME NEW p \in Peers, PrunePeer(p)
      PROVE  ConnInv'
  <2> DEFINE conns == Retain(lists[p])
  <2>1. /\ p \in Entries /\ lists' = With(lists, p, conns)
        /\ prune' = prune \ {p} /\ empty' = IF conns = {} THEN empty \cup {p} ELSE empty
        /\ UNCHANGED <<pc, lead, closed, loaded, tickling, dropping, sweep, shutdown, idle>>
    BY <1>3 DEF PrunePeer, callVars
  <2>2. conns \subseteq lists[p] /\ (lists[p] \cap Tracked) \subseteq conns
    BY DEF Retain, Live
  <2> HIDE DEF conns
  <2> QED
    BY <1>1, <2>1, <2>2, ListsShrink DEF MapsOK, Tracked, Entries, With
<1>4. ASSUME NEW p \in Peers, PruneEvict(p)
      PROVE  ConnInv'
  <2>1. /\ lists' = IF p \in Entries /\ lists[p] = {} THEN Without(lists, {p}) ELSE lists
        /\ empty' = empty \ {p}
        /\ UNCHANGED <<pc, lead, closed, loaded, tickling, dropping, sweep, prune, shutdown, idle>>
    BY <1>4 DEF PruneEvict, callVars
  <2> QED
    BY <1>1, <2>1, ListsShrink DEF MapsOK, Tracked, Entries, Without
<1> QED
  BY <1>2, <1>3, <1>4 DEF Prune

-----------------------------------------------------------------------------
(***************************************************************************)
(* Steps that only stop to track connections, and close some of these.     *)
(***************************************************************************)

\* A step that stops to track some connections, whether closed or not, keeps the
\* invariant, as long as no `tickle` holds them.
LEMMA TrackedShrinks ==
    ASSUME ConnInv, NEW S, lead' = Without(lead, S), S \cap tickling = {},
           closed \subseteq closed', closed' \subseteq closed \cup (S \cap Tracked),
           dropping' \subseteq dropping, dropping \subseteq dropping' \cup S,
           UNCHANGED <<pc, lists, loaded, tickling, idle, prune, empty>>,
           shutdown' \in {"no", "closed", "cleared", "done"}, (shutdown' = "no") <=> (shutdown = "no"),
           sweep' \subseteq Conns
    PROVE  ConnInv'
<1> USE DEF ConnInv, Entries
<1>0. Tracked' = Tracked \ S /\ (\A c \in Tracked' : lead'[c] = lead[c]) /\ Tracked \subseteq Conns
  BY DEF Tracked, MapsOK, Without
<1>1. MapsOK'
  BY <1>0 DEF MapsOK, Tracked, Without
<1>2. StagesOK'
  BY <1>0 DEF StagesOK
<1>3. ClosedOK'
  BY <1>0 DEF ClosedOK, StagesOK
<1>4. EpochsOK'
  BY <1>0 DEF EpochsOK, Ahead
<1>5. NoOrphan'
  BY <1>0 DEF NoOrphan
<1> QED
  BY <1>1, <1>2, <1>3, <1>4, <1>5

\* `disconnect`, the drop of `disconnect_peer` and a visit of the reaper.
LEMMA DisconnectKeeps ==
    ASSUME ConnInv, NEW c \in Conns, Disconnect(c) \/ DisconnectPeerDrop(c) \/ SweepVisit(c)
    PROVE  ConnInv'
<1>0. MapsOK
  BY DEF ConnInv
<1>1. CASE Disconnect(c)
  <2>1. /\ c \in Tracked \ tickling /\ lead' = Without(lead, {c}) /\ closed' = closed \cup {c}
        /\ UNCHANGED <<pc, lists, loaded, tickling, dropping, sweep, prune, empty, shutdown, idle>>
    BY <1>1 DEF Disconnect, callVars, gcVars
  <2> QED
    BY <1>0, <2>1, TrackedShrinks DEF MapsOK
<1>2. CASE DisconnectPeerDrop(c)
  <2>1. /\ c \in dropping \ tickling /\ lead' = Without(lead, {c}) /\ dropping' = dropping \ {c}
        /\ UNCHANGED <<pc, lists, closed, loaded, tickling, sweep, prune, empty, shutdown, idle>>
    BY <1>2 DEF DisconnectPeerDrop, gcVars
  <2> QED
    BY <1>0, <2>1, TrackedShrinks DEF MapsOK
<1>3. CASE SweepVisit(c) /\ lead[c] < 0
  <2>1. /\ c \in Tracked \ tickling /\ lead' = Without(lead, {c}) /\ closed' = closed \cup {c}
        /\ sweep' = sweep \ {c}
        /\ UNCHANGED <<pc, lists, loaded, tickling, dropping, prune, empty, shutdown, idle>>
    BY <1>3 DEF SweepVisit, callVars
  <2> QED
    BY <1>0, <2>1, TrackedShrinks DEF MapsOK
<1>4. CASE SweepVisit(c) /\ ~(lead[c] < 0)
  <2>1. /\ sweep' = sweep \ {c}
        /\ UNCHANGED <<pc, lead, lists, closed, loaded, tickling, dropping, prune, empty, shutdown, idle>>
    BY <1>4 DEF SweepVisit, callVars
  <2> QED
    BY <1>0, <2>1, ListsShrink DEF MapsOK, Tracked, Entries
<1> QED
  BY <1>1, <1>2, <1>3, <1>4

\* `disconnect_all` clears the connections once the endpoint has closed.
LEMMA DisconnectAllConnsKeeps ==
    ASSUME ConnInv, DisconnectAllConns
    PROVE  ConnInv'
<1>0. MapsOK
  BY DEF ConnInv
<1>1. /\ shutdown = "closed" /\ tickling = {} /\ shutdown' = "cleared" /\ lead' = <<>>
      /\ UNCHANGED <<pc, lists, closed, loaded, tickling, dropping, sweep, prune, empty, idle>>
  BY DEF DisconnectAllConns, callVars, gcVars
<1>2. lead' = Without(lead, Tracked)
  BY <1>1 DEF Without, Tracked
<1> QED
  BY <1>0, <1>1, <1>2, TrackedShrinks DEF MapsOK

\* Endpoint::close closes all there are.
LEMMA CloseKeeps ==
    ASSUME ConnInv, Close
    PROVE  ConnInv'
<1> USE DEF ConnInv, Close, callVars, gcVars, Tracked, Entries
<1>1. MapsOK'
  BY DEF MapsOK
<1>2. StagesOK'
  BY DEF StagesOK
<1>3. ClosedOK'
  BY DEF ClosedOK
<1>4. EpochsOK'
  BY DEF EpochsOK, Ahead
<1>5. NoOrphan'
  BY DEF NoOrphan, MapsOK
<1> QED
  BY <1>1, <1>2, <1>3, <1>4, <1>5

-----------------------------------------------------------------------------
(***************************************************************************)
(* Steps that only concern epochs.                                         *)
(***************************************************************************)

\* A step that moves only epochs keeps the rest of the invariant.
LEMMA EpochsMove ==
    ASSUME ConnInv, MapsOK', EpochsOK', Tracked' = Tracked,
           UNCHANGED <<pc, lists, closed, dropping, shutdown>>,
           \A c \in Conns : pc[c] \in Unlisted => idle'[c] = 2
    PROVE  ConnInv'
<1> USE DEF ConnInv, Entries
<1>1. StagesOK'
  BY DEF StagesOK
<1>2. ClosedOK'
  BY DEF ClosedOK
<1>3. NoOrphan'
  BY DEF NoOrphan
<1> QED
  BY <1>1, <1>2, <1>3

\* `tickle` loads the epoch, with the entry locked.
LEMMA TickleLoadKeeps ==
    ASSUME ConnInv, NEW c \in Conns, TickleLoad(c)
    PROVE  ConnInv'
<1>0. MapsOK /\ EpochsOK /\ StagesOK
  BY DEF ConnInv
<1>1. /\ c \in Tracked \ tickling /\ tickling' = tickling \cup {c}
      /\ loaded' = With(loaded, c, 1) /\ idle' = [idle EXCEPT ![c] = 0]
      /\ UNCHANGED <<pc, lead, lists, closed, dropping, sweep, prune, empty, shutdown>>
  BY DEF TickleLoad, gcVars
<1>2. MapsOK'
  BY <1>0, <1>1 DEF MapsOK, Tracked, Entries, Unlisted, With
<1>3. EpochsOK'
  BY <1>0, <1>1, <1>2 DEF MapsOK, EpochsOK, Ahead, Tracked, With
<1> QED
  BY <1>0, <1>1, <1>2, <1>3, EpochsMove DEF MapsOK, StagesOK, Tracked

\* `tickle` stores the larger of two epochs.
LEMMA TickleStoreKeeps ==
    ASSUME ConnInv, NEW c \in Conns, TickleStore(c)
    PROVE  ConnInv'
<1>0. MapsOK /\ EpochsOK /\ StagesOK
  BY DEF ConnInv
<1>1. /\ c \in tickling /\ tickling' = tickling \ {c}
      /\ lead' = [lead EXCEPT ![c] = IF loaded[c] > @ THEN loaded[c] ELSE @]
      /\ loaded' = Without(loaded, {c})
      /\ UNCHANGED <<pc, lists, closed, dropping, sweep, prune, empty, shutdown, idle>>
  BY DEF TickleStore, gcVars
<1>2. /\ c \in Tracked /\ c \in DOMAIN loaded /\ pc[c] # "loaded"
      /\ Tracked' = Tracked /\ lead'[c] = Ahead(c) /\ Ahead(c) \in -1 .. 1
      /\ \A d \in Tracked : d # c => lead'[d] = lead[d]
  BY <1>0, <1>1 DEF MapsOK, StagesOK, Ahead, Tracked, Unlisted
<1>3. MapsOK'
  BY <1>0, <1>1, <1>2 DEF MapsOK, Tracked, Entries, Unlisted, Without
<1>4. EpochsOK'
  <2> SUFFICES ASSUME NEW d \in Tracked
               PROVE  Ahead(d)' >= 1 - idle[d]
    BY <1>1, <1>2 DEF EpochsOK
  <2>1. Ahead(d) >= 1 - idle[d]
    BY <1>0 DEF EpochsOK
  <2>2. Ahead(d)' = Ahead(d)
    <3>1. CASE d = c
      BY <3>1, <1>1, <1>2 DEF Ahead
    <3>2. CASE d # c
      <4>1. d \in tickling => d \in DOMAIN loaded /\ loaded'[d] = loaded[d]
        BY <3>2, <1>0, <1>1 DEF MapsOK, Without
      <4> QED
        BY <3>2, <4>1, <1>1, <1>2 DEF Ahead
    <3> QED
      BY <3>1, <3>2
  <2> QED
    BY <2>1, <2>2
<1> QED
  BY <1>0, <1>1, <1>2, <1>3, <1>4, EpochsMove DEF StagesOK

\* The reaper bumps the epoch, and with it the age of every connection.
LEMMA SweepBumpKeeps ==
    ASSUME ConnInv, SweepBump
    PROVE  ConnInv'
<1>0. MapsOK /\ EpochsOK /\ StagesOK
  BY DEF ConnInv
<1>1. /\ lead' = [c \in Tracked |-> Lower(lead[c])]
      /\ loaded' = [c \in DOMAIN loaded |-> Lower(loaded[c])]
      /\ sweep' = Tracked /\ idle' = [c \in Conns |-> Older(idle[c])]
      /\ UNCHANGED <<pc, lists, closed, tickling, dropping, prune, empty, shutdown>>
  BY DEF SweepBump
<1>2. Tracked' = Tracked /\ DOMAIN loaded' = DOMAIN loaded
  BY <1>1 DEF Tracked
<1>3. \A n \in -1 .. 1 : Lower(n) \in -1 .. 1
  BY DEF Lower
<1>4. \A n \in 0 .. 2 : Older(n) \in 0 .. 2
  BY DEF Older
<1>5. MapsOK'
  BY <1>0, <1>1, <1>2, <1>3, <1>4 DEF MapsOK, Tracked, Entries
<1>6. EpochsOK'
  <2> SUFFICES ASSUME NEW c \in Tracked
               PROVE  Ahead(c)' >= 1 - idle'[c]
    BY <1>2 DEF EpochsOK
  <2>1. c \in Conns /\ idle[c] \in 0 .. 2 /\ lead[c] \in -1 .. 1 /\ idle'[c] = Older(idle[c])
    BY <1>0, <1>1 DEF MapsOK
  <2>2. lead'[c] = Lower(lead[c])
    BY <1>1
  <2>3. Ahead(c) >= 1 - idle[c]
    BY <1>0 DEF EpochsOK
  <2>4. CASE c \in tickling
    <3>1. loaded[c] \in -1 .. 1 /\ loaded'[c] = Lower(loaded[c])
      BY <2>4, <1>0, <1>1 DEF MapsOK
    <3> QED
      BY <2>1, <2>2, <2>3, <2>4, <3>1, <1>1 DEF Ahead, Lower, Older
  <2>5. CASE c \notin tickling
    BY <2>1, <2>2, <2>3, <2>5, <1>1 DEF Ahead, Lower, Older
  <2> QED
    BY <2>4, <2>5
<1> QED
  BY <1>0, <1>1, <1>2, <1>5, <1>6, EpochsMove DEF MapsOK, StagesOK, Older

-----------------------------------------------------------------------------
(***************************************************************************)
(* The theorems.                                                           *)
(***************************************************************************)

\* Nothing is tracked at first.
LEMMA InitConnInv == Init => ConnInv
<1> SUFFICES ASSUME Init PROVE ConnInv
  OBVIOUS
<1>1. Tracked = {} /\ Entries = {} /\ DOMAIN loaded = {}
  BY DEF Init, Tracked, Entries
<1>2. lead \in [{} -> -1 .. 1] /\ loaded \in [{} -> -1 .. 1] /\ lists \in [{} -> SUBSET Conns]
  BY DEF Init
<1>3. MapsOK
  BY <1>1, <1>2 DEF Init, MapsOK, Unlisted
<1>4. StagesOK /\ ClosedOK /\ EpochsOK /\ NoOrphan
  BY <1>1 DEF Init, StagesOK, ClosedOK, EpochsOK, NoOrphan, Unlisted
<1> QED
  BY <1>3, <1>4 DEF ConnInv

\* The invariant is inductive.
LEMMA NextConnInv == ConnInv /\ [Next]_vars => ConnInv'
<1> SUFFICES ASSUME ConnInv, [Next]_vars PROVE ConnInv'
  OBVIOUS
<1>1. ASSUME NEW c \in Conns,
             Establish(c) \/ ConnectedLoad(c) \/ ConnectedInsert(c) \/ ConnectedList(c)
      PROVE  ConnInv'
  BY <1>1, EstablishKeeps, ConnectedLoadKeeps, ConnectedInsertKeeps, ConnectedListKeeps
<1>2. ASSUME NEW c \in Conns,
             TickleLoad(c) \/ TickleStore(c) \/ Disconnect(c) \/ DisconnectPeerDrop(c) \/ SweepVisit(c)
      PROVE  ConnInv'
  BY <1>2, TickleLoadKeeps, TickleStoreKeeps, DisconnectKeeps
<1>3. ASSUME NEW p \in Peers, Get(p) \/ DisconnectPeer(p)
      PROVE  ConnInv'
  BY <1>3, GetKeeps, DisconnectPeerKeeps
<1>4. CASE Close \/ DisconnectAllConns \/ DisconnectAllPeers \/ SweepBump \/ Prune
  BY <1>4, CloseKeeps, DisconnectAllConnsKeeps, DisconnectAllPeersKeeps, SweepBumpKeeps, PruneKeeps
<1>5. CASE UNCHANGED vars
  <2>1. UNCHANGED <<pc, lead, lists, closed, loaded, tickling, dropping, sweep, prune, empty, shutdown, idle>>
    BY <1>5 DEF vars
  <2> QED
    BY <2>1, ListsShrink DEF ConnInv, MapsOK, Tracked, Entries
<1> QED
  BY <1>1, <1>2, <1>3, <1>4, <1>5 DEF Next, Gc

\* For any connections and peers: `get` finds every usable connection, whatever
\* the GC threads and the other calls do to the two maps meanwhile (NoOrphan).
THEOREM UsableAreListed == Spec => []NoOrphan
<1>1. ConnInv => NoOrphan
  BY DEF ConnInv
<1> QED
  BY <1>1, InitConnInv, NextConnInv, PTL DEF Spec

\* For any connections and peers: `get` hands out no connection that was closed by
\* the reaper, by an eviction or by a caller, before the endpoint closes.
THEOREM ListedAreOpen == Spec => []GetYieldsOpen
<1>1. ConnInv => GetYieldsOpen
  BY DEF ConnInv, ClosedOK, GetYieldsOpen, MapsOK
<1> QED
  BY <1>1, InitConnInv, NextConnInv, PTL DEF Spec

\* The SAFETY of `tickle`: for any connections, the reaper closes only those that
\* were not used between two bumps of the epoch, although a tickle loads the epoch
\* before it stores it.
THEOREM ActiveAreSpared == Spec => ReaperSparesActive
<1>1. ConnInv /\ [Next]_vars => [\A c \in Tracked : Reaped(c) => idle[c] = 2]_vars
  <2> SUFFICES ASSUME ConnInv, Next, NEW c \in Tracked, Reaped(c)
               PROVE  idle[c] = 2
    BY DEF vars
  <2>0. c \in Conns /\ c \in sweep /\ c \notin sweep' /\ c \notin DOMAIN lead'
    BY DEF Reaped, ConnInv, MapsOK
  <2>1. ASSUME NEW d \in Conns, SweepVisit(d)
        PROVE  idle[c] = 2
    <3>1. d = c /\ c \notin tickling
      BY <2>0, <2>1 DEF SweepVisit
    <3>2. lead[c] < 0
      BY <3>1, <2>0, <2>1 DEF SweepVisit, Tracked
    <3>3. lead[c] >= 1 - idle[c] /\ lead[c] \in -1 .. 1 /\ idle[c] \in 0 .. 2
      BY <3>1, <2>0 DEF ConnInv, EpochsOK, Ahead, MapsOK
    <3> QED
      BY <3>2, <3>3
  <2>2. CASE SweepBump
    BY <2>0, <2>2 DEF SweepBump
  <2>3. ASSUME NEW d \in Conns, ConnectedInsert(d)
        PROVE  FALSE
    BY <2>0, <2>3 DEF ConnectedInsert
  <2>4. ASSUME NEW d \in Conns,
               \/ Establish(d) \/ ConnectedLoad(d) \/ ConnectedList(d)
               \/ TickleLoad(d) \/ TickleStore(d) \/ Disconnect(d) \/ DisconnectPeerDrop(d)
        PROVE  sweep' = sweep
    BY <2>4 DEF Establish, ConnectedLoad, ConnectedList, TickleLoad, TickleStore,
       Disconnect, DisconnectPeerDrop, gcVars
  <2>5. ASSUME NEW p \in Peers, Get(p) \/ DisconnectPeer(p) \/ PrunePeer(p) \/ PruneEvict(p)
        PROVE  sweep' = sweep
    BY <2>5 DEF Get, DisconnectPeer, PrunePeer, PruneEvict, gcVars
  <2>6. CASE Close \/ DisconnectAllConns \/ DisconnectAllPeers \/ PruneStart
    BY <2>0, <2>6 DEF Close, DisconnectAllConns, DisconnectAllPeers, PruneStart, gcVars
  <2> QED
    BY <2>0, <2>1, <2>2, <2>3, <2>4, <2>5, <2>6 DEF Next, Gc, Prune
<1> QED
  BY <1>1, InitConnInv, NextConnInv, PTL DEF Spec, ReaperSparesActive

\* For any limit: every variable keeps its type, and in particular no list of a peer
\* outgrows MAX_PEER_CONNECTIONS or holds a connection of another peer.
THEOREM TypeCorrect == Spec => []TypeOK
<1>1. Init => ListsBounded
  BY DEF Init, ListsBounded, Entries
<1>2. ConnInv /\ ListsBounded /\ [Next]_vars => ListsBounded'
  <2> SUFFICES ASSUME ConnInv, ListsBounded, [Next]_vars PROVE ListsBounded'
    OBVIOUS
  <2>0. lists \in [Entries -> SUBSET Conns] /\ MaxPeerConnections \in Nat \ {0}
    BY ConntrackAssumption DEF ConnInv, MapsOK
  <2>1. ASSUME NEW p \in Entries
        PROVE  /\ Retain(lists[p]) \subseteq lists[p] /\ IsFiniteSet(Retain(lists[p]))
               /\ Cardinality(Retain(lists[p])) \in Nat
               /\ Cardinality(Retain(lists[p])) <= MaxPeerConnections
    <3>1. Retain(lists[p]) \in SUBSET lists[p]
      BY DEF Retain
    <3>2. IsFiniteSet(lists[p]) /\ Cardinality(lists[p]) <= MaxPeerConnections
      BY DEF ListsBounded
    <3>3. /\ IsFiniteSet(Retain(lists[p]))
          /\ Cardinality(Retain(lists[p])) <= Cardinality(lists[p])
      BY <3>1, <3>2, FS_Subset
    <3>4. Cardinality(Retain(lists[p])) \in Nat /\ Cardinality(lists[p]) \in Nat
      BY <3>2, <3>3, FS_CardinalityType
    <3> QED
      BY <3>1, <3>2, <3>3, <3>4, <2>0
  <2>2. ASSUME Entries' \subseteq Entries,
               \A p \in Entries' : lists'[p] \in {lists[p], Retain(lists[p])}
        PROVE  ListsBounded'
    BY <2>1, <2>2 DEF ListsBounded
  <2>3. ASSUME NEW c \in Conns, ConnectedList(c)
        PROVE  ListsBounded'
    <3> DEFINE p == PeerOf[c]
               conns == IF p \in Entries THEN Retain(lists[p]) ELSE {}
               list == IF Cardinality(conns) >= MaxPeerConnections THEN {c} ELSE conns \cup {c}
    <3>1. lists' = With(lists, p, list)
      BY <2>3 DEF ConnectedList
    <3>2. IsFiniteSet(conns) /\ Cardinality(conns) \in Nat
      BY <2>1, FS_EmptySet
    <3>3. IsFiniteSet(list) /\ Cardinality(list) <= MaxPeerConnections
      <4>1. IsFiniteSet({c}) /\ Cardinality({c}) = 1
        BY FS_Singleton, Zenon
      <4>2. /\ IsFiniteSet(conns \cup {c})
            /\ Cardinality(conns \cup {c}) = IF c \in conns THEN Cardinality(conns) ELSE Cardinality(conns) + 1
        BY <3>2, FS_AddElement
      <4> HIDE DEF conns
      <4> QED
        BY <2>0, <3>2, <4>1, <4>2
    <3> HIDE DEF list
    <3>4. /\ Entries' = Entries \cup {p} /\ lists'[p] = list
          /\ \A q \in Entries : q # p => lists'[q] = lists[q]
      BY <3>1 DEF Entries, With
    <3> QED
      BY <3>3, <3>4 DEF ListsBounded
  <2>4. ASSUME NEW p \in Peers, Get(p) \/ DisconnectPeer(p) \/ PrunePeer(p) \/ PruneEvict(p)
        PROVE  ListsBounded'
    <3>1. \/ lists' = lists \/ lists' = Without(lists, {p})
          \/ p \in Entries /\ lists' = With(lists, p, Retain(lists[p]))
      BY <2>4 DEF Get, DisconnectPeer, PrunePeer, PruneEvict
    <3>2. CASE lists' = lists
      BY <2>2, <3>2 DEF Entries
    <3>3. CASE lists' = Without(lists, {p})
      BY <2>2, <3>3 DEF Entries, Without
    <3>4. CASE p \in Entries /\ lists' = With(lists, p, Retain(lists[p]))
      BY <2>2, <3>4 DEF Entries, With
    <3> QED
      BY <3>1, <3>2, <3>3, <3>4
  <2>5. CASE DisconnectAllPeers
    BY <2>5 DEF DisconnectAllPeers, ListsBounded, Entries
  <2>6. CASE lists' = lists
    BY <2>2, <2>6 DEF Entries
  <2>7. ASSUME NEW c \in Conns,
               \/ Establish(c) \/ ConnectedLoad(c) \/ ConnectedInsert(c) \/ TickleLoad(c)
               \/ TickleStore(c) \/ Disconnect(c) \/ DisconnectPeerDrop(c) \/ SweepVisit(c)
        PROVE  lists' = lists
    BY <2>7 DEF Establish, ConnectedLoad, ConnectedInsert, TickleLoad, TickleStore,
       Disconnect, DisconnectPeerDrop, SweepVisit
  <2>8. CASE Close \/ DisconnectAllConns \/ SweepBump \/ PruneStart \/ UNCHANGED vars
    BY <2>6, <2>8 DEF Close, DisconnectAllConns, SweepBump, PruneStart, vars
  <2> QED
    BY <2>3, <2>4, <2>5, <2>6, <2>7, <2>8 DEF Next, Gc, Prune
<1>3. ConnInv /\ ListsBounded => TypeOK
  BY DEF ConnInv, MapsOK, StagesOK, ListsBounded, TypeOK, Unlisted, Tracked, Entries
<1> QED
  BY <1>1, <1>2, <1>3, InitConnInv, NextConnInv, PTL DEF Spec
=============================================================================
