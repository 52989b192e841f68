------------------------------ MODULE HpvNode ------------------------------
(***************************************************************************)
(* One peer's membership state under arbitrary input: every call the rest  *)
(* of the protocol stack can make on `Hpv`, in any order, and every        *)
(* message a remote peer can send. This is what the `RwLock` of `Hpv`      *)
(* serialises when recv loops, tick interpreters, discovery and periodic   *)
(* tasks race for it.                                                      *)
(*                                                                         *)
(* `trans` and `ticks` hold what the last call returned.                   *)
(***************************************************************************)
EXTENDS Hpv

CONSTANTS
    Local,         \* the local peer id
    MaxShuffled    \* bound: length of the peer list of a Shuffle or ShuffleReply

ASSUME LocalAssumption       == Local \in Peers
ASSUME MaxShuffledAssumption == MaxShuffled \in Nat

VARIABLES
    view,      \* HpvInner::view
    trans,     \* TnT::trans of the last call
    ticks      \* TnT::ticks of the last call

vars == <<view, trans, ticks>>

Remotes == Peers \ {Local}

\* A peer list is a Sample of some view: nobody is listed twice.
PeerLists ==
    {ps \in UNION {[1 .. n -> Peers] : n \in 0 .. MaxShuffled} :
        \A i, j \in DOMAIN ps : ps[i] = ps[j] => i = j}

Message ==
    {Join, Disconnect}
    \cup {Neighbour(prio) : prio \in {"High", "Normal"}}
    \cup {ForwardJoin(p, ttl) : p \in Peers, ttl \in 0 .. ActiveRandomWalkLength}
    \cup {Shuffle(p, ps, ttl) : p \in Peers, ps \in PeerLists, ttl \in 0 .. ActiveRandomWalkLength}
    \cup {ShuffleReply(ps) : ps \in PeerLists}

-----------------------------------------------------------------------------

Init ==
    /\ view = EmptyView
    /\ trans = <<>>
    /\ ticks = <<>>

Return(r) ==
    /\ view' = r.view
    /\ trans' = r.trans
    /\ ticks' = r.ticks

\* A stream or a send to p failed, or the connection was closed.
LoseConnection(p) == \E r \in ConnectionLost(Local, view, p) : Return(r)

\* We dialled p and sent our hello: with complete info for a Connect tock,
\* with a partial one for a discovered peer.
EstablishConnection(p, complete) ==
    \E r \in ConnectionEstablished(Local, view, p, complete) : Return(r)

\* A membership message from p. JoinWhileConnected is an error: the recv
\* loop ends and the view is left alone.
Receive(p, msg) ==
    /\ ~JoinWhileConnected(view, p, msg)
    /\ \E r \in Apply(Local, view, p, msg) : Return(r)

\* The periodic tasks read the view and leave it as it is.
PeriodicShuffle ==
    /\ \E r \in NonEmptyShuffles(Local, view) : ticks' = <<All({r.to}, r.msg)>>
    /\ trans' = <<>>
    /\ UNCHANGED view

PeriodicPromotion ==
    /\ \E s \in ChoosePassiveToPromote(view) :
          /\ s # <<>>
          /\ ticks' = [i \in DOMAIN s |-> Try(s[i], Hello(view))]
    /\ trans' = <<>>
    /\ UNCHANGED view

Next ==
    \/ \E p \in Remotes : LoseConnection(p)
    \/ \E p \in Remotes, complete \in BOOLEAN : EstablishConnection(p, complete)
    \/ \E p \in Remotes, msg \in Message : Receive(p, msg)
    \/ PeriodicShuffle
    \/ PeriodicPromotion

Spec == Init /\ [][Next]_vars

-----------------------------------------------------------------------------

\* The view holds peers, and a transition reported to subscribers names a
\* remote peer, never the local one.
TypeOK ==
    /\ view \in View
    /\ trans \in Seq(Transition(Local))

\* However calls interleave, neither map of the view outgrows its limit (the
\* `assert!` in `choose_passive_to_promote`), no peer is active and passive
\* at once, and a peer never becomes its own neighbour.
ViewOK == ViewInv(Local, view)

Reported(kind) == {t.peer : t \in {u \in {trans[i] : i \in DOMAIN trans} : u.kind = kind}}

\* Subscribers learn of membership changes from the transitions only: in
\* every call the peers that enter the active view are exactly those reported
\* Promoted, those that leave it are reported Demoted or Evicted, and a peer
\* that leaves the view for good is reported Evicted.
TransitionsTellView ==
    [][ /\ view'.active \ view.active = Reported("Promoted")'
        /\ view.active \ view'.active
             \subseteq Reported("Demoted")' \cup Reported("Evicted")'
        /\ (view.active \cup view.passive) \ (view'.active \cup view'.passive)
             \subseteq Reported("Evicted")' ]_vars

ConnectTicks == {i \in DOMAIN ticks : ticks[i].type = "Connect"}

\* The reconnects proposed after a loss fit into the free slots of the active
\* view, so that carrying out all of them demotes nobody, and none of them is
\* to an active peer or to the local one. (A ForwardJoin at the end of its
\* walk may propose one more connection than there are slots.)
ReconnectsFitFreeSlots ==
    /\ \A i \in ConnectTicks : ticks[i].to \notin view.active \cup {Local}
    /\ \/ Cardinality(ConnectTicks) <= MaxActive - Cardinality(view.active)
       \/ Len(ticks) = 1
=============================================================================
