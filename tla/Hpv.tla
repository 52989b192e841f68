-------------------------------- MODULE Hpv ---------------------------------
EXTENDS Integers, Sequences, FiniteSets

-----------------------------------------------------------------------------
(***************************************************************************)
(* The partial view of the network a peer keeps: `PartialView` of          *)
(* librad/src/net/protocol/membership/partial_view.rs.                     *)
(*                                                                         *)
(* A view is a record of sets of peer ids:                                 *)
(*   active    the keys of the `active` map;                               *)
(*   complete  the active peers whose `PartialPeerInfo` carries an         *)
(*             advertisement, ie. whose `sequence()` is `Some`;            *)
(*   passive   the keys of the `passive` map (always complete infos).      *)
(* Addresses are abstracted away.                                          *)
(*                                                                         *)
(* The code draws from a random number generator, so every operation is    *)
(* the SET of its possible outcomes, an outcome being the resulting view   *)
(* and the sequence of transitions returned to the caller.                 *)
(***************************************************************************)
CONSTANTS
    Peers,        \* all peer ids, the local one included
    MaxActive,    \* Params::max_active
    MaxPassive    \* Params::max_passive

ASSUME PeersAssumption   == IsFiniteSet(Peers)
ASSUME MaxActiveAssumption  == MaxActive \in Nat \ {0}
ASSUME MaxPassiveAssumption == MaxPassive \in Nat \ {0}

View == [active : SUBSET Peers, complete : SUBSET Peers, passive : SUBSET Peers]

\* A transition never concerns the local peer.
Transition(local) == [kind : {"Promoted", "Demoted", "Evicted"}, peer : Peers \ {local}]

Promoted(p) == [kind |-> "Promoted", peer |-> p]
Demoted(p)  == [kind |-> "Demoted",  peer |-> p]
Evicted(p)  == [kind |-> "Evicted",  peer |-> p]

Outcome(v, ts) == [view |-> v, trans |-> ts]

EmptyView == [active |-> {}, complete |-> {}, passive |-> {}]

IsKnown(v, p) == p \in v.active \cup v.passive

IsActiveFull(v) == Cardinality(v.active) >= MaxActive

-----------------------------------------------------------------------------

Evict(v, p) ==
    IF p \in v.passive
    THEN Outcome([v EXCEPT !.passive = @ \ {p}], <<Evicted(p)>>)
    ELSE Outcome(v, <<>>)

EvictRandom(v) ==
    IF v.passive = {} THEN {Outcome(v, <<>>)} ELSE {Evict(v, p) : p \in v.passive}

\* Mutant: forgets that the local peer is never added.
AddPassiveSelf(local, v, p) ==
    IF p \in v.active
    THEN {Outcome(v, <<>>)}
    ELSE {Outcome([o.view EXCEPT !.passive = @ \cup {p}], o.trans) :
            o \in IF Cardinality(v.passive) >= MaxPassive
                  THEN EvictRandom(v)
                  ELSE {Outcome(v, <<>>)}}

\* A full passive view evicts a random entry before the peer is inserted,
\* whether or not the peer already has an entry.
AddPassive(local, v, p) ==
    IF p = local \/ p \in v.active
    THEN {Outcome(v, <<>>)}
    ELSE {Outcome([o.view EXCEPT !.passive = @ \cup {p}], o.trans) :
            o \in IF Cardinality(v.passive) >= MaxPassive
                  THEN EvictRandom(v)
                  ELSE {Outcome(v, <<>>)}}

\* `active.remove(p)`
Without(v, p) == [v EXCEPT !.active = @ \ {p}, !.complete = @ \ {p}]

\* Mutant: a partially known peer is dropped without a word.
DemoteSilently(local, v, p) ==
    IF p \notin v.active
    THEN {Outcome(v, <<>>)}
    ELSE IF p \notin v.complete
    THEN {Outcome(Without(v, p), <<>>)}
    ELSE {Outcome(o.view, <<Demoted(p)>> \o o.trans) :
            o \in AddPassive(local, Without(v, p), p)}

\* A peer of which only partial info is known leaves the view altogether.
Demote(local, v, p) ==
    IF p \notin v.active
    THEN {Outcome(v, <<>>)}
    ELSE IF p \notin v.complete
    THEN {Outcome(Without(v, p), <<Evicted(p)>>)}
    ELSE {Outcome(o.view, <<Demoted(p)>> \o o.trans) :
            o \in AddPassive(local, Without(v, p), p)}

DemoteRandom(local, v) ==
    IF v.active = {}
    THEN {Outcome(v, <<>>)}
    ELSE UNION {Demote(local, v, p) : p \in v.active}

\* Mutant: the promoted peer keeps its passive entry.
AddActiveKeepsPassive(local, v, p, complete) ==
    IF p = local \/ p \in v.active
    THEN {Outcome(v, <<>>)}
    ELSE {Outcome([o.view EXCEPT !.active = @ \cup {p},
                                 !.complete = IF complete THEN @ \cup {p} ELSE @],
                  <<Promoted(p)>> \o o.trans) :
            o \in IF IsActiveFull(v) THEN DemoteRandom(local, v)
                                     ELSE {Outcome(v, <<>>)}}

\* `complete` says whether the info handed in carries an advertisement.
AddActive(local, v, p, complete) ==
    IF p = local \/ p \in v.active
    THEN {Outcome(v, <<>>)}
    ELSE {Outcome([active   |-> o.view.active \cup {p},
                   complete |-> IF complete THEN o.view.complete \cup {p}
                                            ELSE o.view.complete,
                   passive  |-> o.view.passive \ {p}],
                  <<Promoted(p)>> \o o.trans) :
            o \in IF IsActiveFull(v) THEN DemoteRandom(local, v)
                                     ELSE {Outcome(v, <<>>)}}

-----------------------------------------------------------------------------

\* What every operation must preserve: the view is bounded, a peer is in at
\* most one of the two maps, and the local peer is in neither.
ViewInv(local, v) ==
    /\ v \in View
    /\ v.complete \subseteq v.active
    /\ v.active \cap v.passive = {}
    /\ ~IsKnown(v, local)
    /\ Cardinality(v.active) <= MaxActive
    /\ Cardinality(v.passive) <= MaxPassive

-----------------------------------------------------------------------------
(***************************************************************************)
(* The operations of the HyParView membership protocol on one partial      *)
(* view: `HpvInner` of librad/src/net/protocol/membership/hpv.rs, with the *)
(* messages of rpc.rs and the ticks of tick.rs.                            *)
(*                                                                         *)
(* As above, an operation is the set of its possible results. A   *)
(* result is the `TnT` returned to the caller together with the new view:  *)
(* `trans` are the transitions of the view and `ticks` the effects the     *)
(* caller must perform. Every operation runs under the write lock of       *)
(* `Hpv`, so each is one atomic step of the modules that use it.           *)
(***************************************************************************)
CONSTANTS
    ActiveRandomWalkLength,   \* Params::active_random_walk_length
    ShuffleSampleSize         \* Params::shuffle_sample_size

ASSUME WalkAssumption   == ActiveRandomWalkLength \in Nat
ASSUME SampleAssumption == ShuffleSampleSize \in Nat

\* rpc::Message. The advertised info of Join and Neighbour is abstracted.
Join                      == [type |-> "Join"]
ForwardJoin(joined, ttl)  == [type |-> "ForwardJoin", joined |-> joined, ttl |-> ttl]
Neighbour(prio)           == [type |-> "Neighbour", prio |-> prio]
Disconnect                == [type |-> "Disconnect"]
Shuffle(origin, ps, ttl)  == [type |-> "Shuffle", origin |-> origin, peers |-> ps, ttl |-> ttl]
ShuffleReply(ps)          == [type |-> "ShuffleReply", peers |-> ps]

\* tick::Tick. The recipients of All are a set.
All(ps, msg)   == [type |-> "All", recipients |-> ps, msg |-> msg]
Reply(to, msg) == [type |-> "Reply", to |-> to, msg |-> msg]
Try(to, msg)   == [type |-> "Try", to |-> to, msg |-> msg]
Connect(to)    == [type |-> "Connect", to |-> to]
Forget(p)      == [type |-> "Forget", peer |-> p]

\* `impl From<Transition> for Option<Tick>`
TickOf(t) == IF t.kind = "Demoted" THEN Try(t.peer, Disconnect) ELSE Forget(t.peer)

\* `filter_map`: the ticks of those that call for one.
TicksOf(ts) ==
    LET fold[i \in 0 .. Len(ts)] ==
            IF i = 0 THEN <<>>
            ELSE IF ts[i].kind = "Promoted" THEN fold[i - 1]
            ELSE Append(fold[i - 1], TickOf(ts[i]))
    IN  fold[Len(ts)]

\* `TnT` with the view it leaves behind.
TnT(v, trans, ticks) == [view |-> v, trans |-> trans, ticks |-> ticks]

\* `collect::<TnT<_>>()`: the ticks are the ones the transitions call for.
Collect(outcomes) == {TnT(o.view, o.trans, TicksOf(o.trans)) : o \in outcomes}

-----------------------------------------------------------------------------

\* `choose_multiple(n)`: n elements, or all of them, in any order.
ChooseMultiple(S, n) ==
    LET k == IF Cardinality(S) < n THEN Cardinality(S) ELSE n
    IN  {f \in [1 .. k -> S] : \A i, j \in 1 .. k : f[i] = f[j] => i = j}

\* Mutant: proposes a full view's worth of peers.
ChooseTooMany(v) == ChooseMultiple(v.passive, MaxActive)

\* The view is never over-full here (an `assert!` of the code).
ChoosePassiveToPromote(v) == ChooseMultiple(v.passive, MaxActive - Cardinality(v.active))

\* Peers whose info is complete first, topped up from the passive view.
Sample(v, sz) ==
    UNION {IF Len(s) < ShuffleSampleSize
           THEN {s \o t : t \in ChooseMultiple(v.passive, sz - Len(s))}
           ELSE {s} :
             s \in ChooseMultiple(v.complete, sz)}

BroadcastRecipients(v, exclude) == v.active \ exclude

\* A random hop other than the sender: at most one `All` tick.
ForwardTo(v, from, msg) ==
    LET hops == BroadcastRecipients(v, {from})
    IN  IF hops = {} THEN {<<>>} ELSE {<<All({h}, msg)>> : h \in hops}

Hello(v) ==
    IF v.active = {} /\ v.passive = {} THEN Join
    ELSE Neighbour(IF v.active = {} THEN "High" ELSE "Normal")

\* Fold of `add_passive` over a list of peers.
AddPassiveAll(local, v, ps) ==
    LET step(o, p) == {Outcome(x.view, o.trans \o x.trans) : x \in AddPassive(local, o.view, p)}
        fold[i \in 0 .. Len(ps)] ==
            IF i = 0 THEN {Outcome(v, <<>>)}
            ELSE UNION {step(o, ps[i]) : o \in fold[i - 1]}
    IN  fold[Len(ps)]

-----------------------------------------------------------------------------

\* Mutant: looks for free slots before the lost peer is demoted.
ConnectionLostEarly(local, v, p) ==
    UNION {IF o.trans = <<>>
           THEN {TnT(v, <<>>, <<>>)}
           ELSE {TnT(o.view, o.trans, [i \in DOMAIN s |-> Connect(s[i])]) :
                   s \in ChoosePassiveToPromote(v)} :
             o \in Demote(local, v, p)}

\* The transitions of a demotion are reported, but its ticks are not kept:
\* they are replaced by attempts to fill the free slots.
ConnectionLost(local, v, p) ==
    UNION {IF o.trans = <<>>
           THEN {TnT(v, <<>>, <<>>)}
           ELSE {TnT(o.view, o.trans, [i \in DOMAIN s |-> Connect(s[i])]) :
                   s \in ChoosePassiveToPromote(o.view)} :
             o \in Demote(local, v, p)}

ConnectionEstablished(local, v, p, complete) == Collect(AddActive(local, v, p, complete))

\* The periodic shuffle: the recipient and the message, if there is anything
\* to shuffle.
ShuffleRequests(local, v) ==
    {[to |-> r, msg |-> Shuffle(local, SelectSeq(s, LAMBDA p : p # r), ActiveRandomWalkLength)] :
        r \in v.active, s \in Sample(v, ShuffleSampleSize)}

NonEmptyShuffles(local, v) == {r \in ShuffleRequests(local, v) : r.msg.peers # <<>>}

\* `Err(Error::JoinWhileConnected)`
JoinWhileConnected(v, from, msg) == msg.type = "Join" /\ from \in v.active

\* Everybody else in the active view is told of the newcomer.
Announce(v, from) ==
    LET fwd == BroadcastRecipients(v, {from})
    IN  IF fwd = {} THEN <<>> ELSE <<All(fwd, ForwardJoin(from, ActiveRandomWalkLength))>>

ApplyJoin(local, v, from) ==
    {TnT(o.view, o.trans, TicksOf(o.trans) \o Announce(o.view, from)) :
       o \in AddActive(local, v, from, TRUE)}

\* Mutant: a peer may be asked to connect to itself.
ApplyForwardJoinSelf(local, v, from, msg) ==
    IF (msg.ttl = 0 \/ ~IsActiveFull(v)) /\ msg.joined \notin v.active
    THEN {TnT(v, <<>>, <<Connect(msg.joined)>>)}
    ELSE {TnT(v, <<>>, fwd) :
            fwd \in ForwardTo(v, from,
                      ForwardJoin(msg.joined, IF msg.ttl = 0 THEN 0 ELSE msg.ttl - 1))}

ApplyForwardJoin(local, v, from, msg) ==
    IF (msg.ttl = 0 \/ ~IsActiveFull(v)) /\ msg.joined \notin v.active /\ msg.joined # local
    THEN {TnT(v, <<>>, <<Connect(msg.joined)>>)}
    ELSE {TnT(o.view, o.trans, TicksOf(o.trans) \o fwd) :
            o \in IF msg.ttl = 0 THEN AddPassive(local, v, msg.joined)
                                 ELSE {Outcome(v, <<>>)},
            fwd \in ForwardTo(v, from,
                      ForwardJoin(msg.joined, IF msg.ttl = 0 THEN 0 ELSE msg.ttl - 1))}

ApplyNeighbour(local, v, from, msg) ==
    IF msg.prio = "High" \/ ~IsActiveFull(v)
    THEN Collect(AddActive(local, v, from, TRUE))
    ELSE {TnT(v, <<>>, <<Reply(from, Disconnect)>>)}

\* Mutant: the hops are not counted.
ApplyShuffleUncounted(local, v, from, msg) ==
    IF msg.ttl = 0 /\ msg.origin # local
    THEN {TnT(o.view, o.trans, TicksOf(o.trans)) : o \in AddPassiveAll(local, v, msg.peers)}
    ELSE {TnT(v, <<>>, fwd) : fwd \in ForwardTo(v, from, msg)}

ApplyShuffle(local, v, from, msg) ==
    IF msg.ttl = 0 /\ msg.origin # local
    THEN {TnT(o.view, o.trans,
              (IF s = <<>> THEN <<>> ELSE <<Try(msg.origin, ShuffleReply(s))>>)
                 \o TicksOf(o.trans)) :
            s \in Sample(v, Len(msg.peers)), o \in AddPassiveAll(local, v, msg.peers)}
    ELSE IF msg.ttl > 0
    THEN {TnT(v, <<>>, fwd) :
            fwd \in ForwardTo(v, from, Shuffle(msg.origin, msg.peers, msg.ttl - 1))}
    ELSE {TnT(v, <<>>, <<>>)}

\* Mutant: a peer reconnects to whoever disconnects it.
ApplyReconnecting(local, v, from, msg) ==
    CASE msg.type = "Join"         -> ApplyJoin(local, v, from)
      [] msg.type = "ForwardJoin"  -> ApplyForwardJoin(local, v, from, msg)
      [] msg.type = "Neighbour"    -> ApplyNeighbour(local, v, from, msg)
      [] msg.type = "Disconnect"   -> ConnectionLost(local, v, from)
      [] msg.type = "Shuffle"      -> ApplyShuffle(local, v, from, msg)
      [] msg.type = "ShuffleReply" -> Collect(AddPassiveAll(local, v, msg.peers))

Apply(local, v, from, msg) ==
    CASE msg.type = "Join"         -> ApplyJoin(local, v, from)
      [] msg.type = "ForwardJoin"  -> ApplyForwardJoin(local, v, from, msg)
      [] msg.type = "Neighbour"    -> ApplyNeighbour(local, v, from, msg)
      [] msg.type = "Disconnect"   -> Collect(Demote(local, v, from))
      [] msg.type = "Shuffle"      -> ApplyShuffle(local, v, from, msg)
      [] msg.type = "ShuffleReply" -> Collect(AddPassiveAll(local, v, msg.peers))
=============================================================================
