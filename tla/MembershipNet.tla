--------------------------- MODULE MembershipNet ---------------------------
(***************************************************************************)
(* Peers running the membership protocol with one another: the views of    *)
(* Hpv, the connections between the peers, and the tasks of each peer that *)
(* carry out the effects an operation on the view calls for.               *)
(*                                                                         *)
(* A task is a recv loop of a connection, the task that watches a          *)
(* connection end, the discovery loop or the loop of periodic tasks        *)
(* (net/protocol/{tick,io,accept}.rs). Each performs its tocks in order    *)
(* and takes up its next input only after the last one; tasks interleave   *)
(* freely. Between any two peers there is at most one connection at a      *)
(* time, and membership messages share one ordered stream per direction.   *)
(***************************************************************************)
EXTENDS Hpv

CONSTANT
    Scenarios   \* what the environment may do, one of:
                \*   discoverable  <<n, m>> such that n may discover m
                \*   discoveries   bound: peers found by discovery
                \*   closed        bound: connections that end by themselves
                \*   shuffles      bound: firings of the periodic shuffle
                \*   promotions    bound: firings of the periodic promotion
                \*   unreachable   bound: failed attempts to connect
                \*   breaches      bound: breaches of the rate limit for messages

ASSUME ScenariosAssumption ==
    \A s \in Scenarios :
       /\ s.discoverable \subseteq Peers \X Peers
       /\ {s.discoveries, s.closed, s.shuffles, s.promotions, s.unreachable, s.breaches}
             \subseteq Nat

VARIABLES
    view,    \* HpvInner::view of each peer
    conn,    \* the pairs {n, m} that are connected
    inbox,   \* inbox[n][m]: messages from m that the recv loop of n has yet to read
    deaf,    \* <<n, m>>: the recv loop of n for m has ended, the connection has not
    ended,   \* ended[n][m]: tasks of n that have yet to notice that a connection ended
    work,    \* work[n][task]: what is left to do for a task, a sequence of sets of tocks
    scenario,
    left     \* what is left of the scenario's bounds

vars == <<view, conn, inbox, deaf, ended, work, scenario, left>>

\* The tasks of a peer: for each remote peer a recv loop, which stands for the
\* task watching that connection too, and the loops of `accept`.
Tasks == Peers \cup {"disco", "periodic"}

\* tick::Tock, and the rest of a Connect or of a discovery once the hello is
\* sent: the latter starts to read from the connection only in the end. The
\* task that throttles a peer gives it up after it hung up.
SendConnected(to, msg) == [type |-> "SendConnected", to |-> to, msg |-> msg]
AttemptSend(to, msg)   == [type |-> "AttemptSend", to |-> to, msg |-> msg]
ConnectTo(to, msg)     == [type |-> "Connect", to |-> to, msg |-> msg]
Hangup(p)              == [type |-> "Disconnect", to |-> p]
Established(p, info)   == [type |-> "Established", to |-> p, complete |-> info]
GiveUp(p)              == [type |-> "GiveUp", to |-> p]
Incoming(p)            == [type |-> "Incoming", to |-> p]

\* `into_tocks`: the hello of a Connect is the one of the view at this time.
IntoTocks(v, tick) ==
    CASE tick.type = "Forget"  -> {Hangup(tick.peer)}
      [] tick.type = "Connect" -> {ConnectTo(tick.to, Hello(v))}
      [] tick.type = "Reply"   -> {SendConnected(tick.to, tick.msg)}
      [] tick.type = "Try"     -> {AttemptSend(tick.to, tick.msg)}
      [] tick.type = "All"     -> {SendConnected(p, tick.msg) : p \in tick.recipients}

TocksOf(v, ticks) == [i \in DOMAIN ticks |-> IntoTocks(v, ticks[i])]

Connected(n, m) == {n, m} \in conn

\* The first batch of a task's tocks: those it may perform next. A batch that
\* is done is dropped.
Performing(n, task) == IF work[n][task] = <<>> THEN {} ELSE Head(work[n][task])

\* The task performed `tock`; `more` are the tocks this gave rise to.
Done(n, task, tock, more) ==
    LET batch == (Performing(n, task) \ {tock}) \cup more
    IN  work' = [work EXCEPT ![n][task] =
                   IF batch = {} THEN Tail(@) ELSE <<batch>> \o Tail(@)]

\* The ticks a task follows up on without waiting for one another.
Batch(v, ticks) == UNION {IntoTocks(v, ticks[i]) : i \in DOMAIN ticks}

-----------------------------------------------------------------------------

Init ==
    /\ view = [n \in Peers |-> EmptyView]
    /\ conn = {}
    /\ inbox = [n \in Peers |-> [m \in Peers |-> <<>>]]
    /\ deaf = {}
    /\ ended = [n \in Peers |-> [m \in Peers |-> 0]]
    /\ work = [n \in Peers |-> [t \in Tasks |-> <<>>]]
    /\ scenario \in Scenarios
    /\ left = scenario

\* `send_rpc` of msg from n to m, over a connection that exists or that is
\* just being made. What a recv loop that has ended does not read is lost.
Deliver(n, m, msg) ==
    /\ conn' = conn \cup {{n, m}}
    /\ inbox' = IF <<m, n>> \in deaf THEN inbox
                ELSE [inbox EXCEPT ![m][n] = Append(@, msg)]

\* The connection of n and m ends. What was not read is lost; the tasks that
\* watch it, and the recv loops that were reading, will notice.
Close(n, m) ==
    /\ conn' = conn \ {{n, m}}
    /\ inbox' = [inbox EXCEPT ![n][m] = <<>>, ![m][n] = <<>>]
    /\ deaf' = deaf \ {<<n, m>>, <<m, n>>}
    /\ \E a, b \in {1, 2} : ended' = [ended EXCEPT ![n][m] = a, ![m][n] = b]

-----------------------------------------------------------------------------

\* `io::discovered`: the peer is dialled and sent our hello, and then added to
\* the active view with what little is known of it.
Discovered(n, m) ==
    /\ <<n, m>> \in left.discoverable
    /\ left.discoveries > 0
    /\ work[n]["disco"] = <<>>
    /\ ~Connected(n, m)
    /\ Deliver(n, m, Hello(view[n]))
    /\ work' = [work EXCEPT ![n]["disco"] = <<{Established(m, FALSE)}, {Incoming(m)}>>]
    /\ left' = [left EXCEPT !.discoveries = @ - 1]
    /\ UNCHANGED <<scenario, view, deaf, ended>>

\* The task for m is idle, and m is not being discovered.
Reading(n, m) ==
    /\ work[n][m] = <<>>
    /\ \A i \in DOMAIN work[n]["disco"] : Incoming(m) \notin work[n]["disco"][i]

\* A recv loop applies the next message and performs what that calls for.
Receive(n, m) ==
    LET msg == Head(inbox[n][m])
    IN  /\ inbox[n][m] # <<>>
        /\ Reading(n, m)
        /\ ~JoinWhileConnected(view[n], m, msg)
        /\ \E r \in Apply(n, view[n], m, msg) :
              /\ view' = [view EXCEPT ![n] = r.view]
              /\ work' = [work EXCEPT ![n][m] = TocksOf(r.view, r.ticks)]
        /\ inbox' = [inbox EXCEPT ![n][m] = Tail(@)]
        /\ UNCHANGED <<scenario, conn, deaf, ended, left>>

\* `Err(JoinWhileConnected)`: the loop ends, and with it the stream.
ReceiveError(n, m) ==
    /\ inbox[n][m] # <<>>
    /\ Reading(n, m)
    /\ JoinWhileConnected(view[n], m, Head(inbox[n][m]))
    /\ deaf' = deaf \cup {<<n, m>>}
    /\ inbox' = [inbox EXCEPT ![n][m] = <<>>]
    /\ UNCHANGED <<scenario, view, conn, ended, work, left>>

\* The rate limit is breached: the sender is told, hung up on and given up,
\* and the message is dropped.
ReceiveTooMuch(n, m) ==
    /\ left.breaches > 0
    /\ inbox[n][m] # <<>>
    /\ Reading(n, m)
    /\ work' = [work EXCEPT ![n][m] =
                  <<{SendConnected(m, Disconnect)}, {Hangup(m)}, {GiveUp(m)}>>]
    /\ deaf' = deaf \cup {<<n, m>>}
    /\ inbox' = [inbox EXCEPT ![n][m] = <<>>]
    /\ left' = [left EXCEPT !.breaches = @ - 1]
    /\ UNCHANGED <<scenario, view, conn, ended>>

\* A task notices that a connection ended: `recv::connection_lost`.
Lost(n, m) ==
    /\ ended[n][m] > 0
    /\ Reading(n, m)
    /\ ended' = [ended EXCEPT ![n][m] = @ - 1]
    /\ \E r \in ConnectionLost(n, view[n], m) :
          /\ view' = [view EXCEPT ![n] = r.view]
          /\ work' = [work EXCEPT ![n][m] = TocksOf(r.view, r.ticks)]
    /\ UNCHANGED <<scenario, conn, inbox, deaf, left>>

\* Idle timeout, network failure or garbage collection.
ConnectionEnds(n, m) ==
    /\ left.closed > 0
    /\ Connected(n, m)
    /\ ended[n][m] = 0 /\ ended[m][n] = 0
    /\ Close(n, m)
    /\ left' = [left EXCEPT !.closed = @ - 1]
    /\ UNCHANGED <<scenario, view, work>>

-----------------------------------------------------------------------------

\* SendConnected over a connection.
PerformSend(n, task, tock) ==
    /\ tock.type = "SendConnected"
    /\ Connected(n, tock.to)
    /\ Deliver(n, tock.to, tock.msg)
    /\ Done(n, task, tock, {})
    /\ UNCHANGED <<scenario, view, deaf, ended, left>>

\* SendConnected without a connection, or over a stream the other end stopped
\* reading: the peer counts as lost, as it does when it is given up.
PerformSendFails(n, task, tock) ==
    /\ \/ tock.type = "GiveUp"
       \/ tock.type = "SendConnected" /\ (~Connected(n, tock.to) \/ <<tock.to, n>> \in deaf)
    /\ \E r \in ConnectionLost(n, view[n], tock.to) :
          /\ view' = [view EXCEPT ![n] = r.view]
          /\ Done(n, task, tock, Batch(r.view, r.ticks))
    /\ UNCHANGED <<scenario, conn, inbox, deaf, ended, left>>

\* Mutant: a Connect ends once the hello is sent.
PerformAttemptOnly(n, task, tock) ==
    /\ tock.type \in {"AttemptSend", "Connect"}
    /\ Deliver(n, tock.to, tock.msg)
    /\ Done(n, task, tock, {})
    /\ UNCHANGED <<scenario, view, deaf, ended, left>>

\* AttemptSend, and the first half of Connect: `try_connect_and_send`.
PerformAttempt(n, task, tock) ==
    /\ tock.type \in {"AttemptSend", "Connect"}
    /\ Deliver(n, tock.to, tock.msg)
    /\ Done(n, task, tock, IF tock.type = "Connect" THEN {Established(tock.to, TRUE)} ELSE {})
    /\ UNCHANGED <<scenario, view, deaf, ended, left>>

\* The peer cannot be reached or does not read: there is nothing more to do.
PerformAttemptFails(n, task, tock) ==
    /\ tock.type \in {"AttemptSend", "Connect"}
    /\ IF Connected(n, tock.to)
       THEN <<tock.to, n>> \in deaf /\ UNCHANGED left
       ELSE left.unreachable > 0 /\ left' = [left EXCEPT !.unreachable = @ - 1]
    /\ Done(n, task, tock, {})
    /\ UNCHANGED <<scenario, view, conn, inbox, deaf, ended>>

\* The hello is sent: `connection_established`.
PerformEstablished(n, task, tock) ==
    /\ tock.type = "Established"
    /\ \E r \in ConnectionEstablished(n, view[n], tock.to, tock.complete) :
          /\ view' = [view EXCEPT ![n] = r.view]
          /\ Done(n, task, tock, Batch(r.view, r.ticks))
    /\ UNCHANGED <<scenario, conn, inbox, deaf, ended, left>>

PerformDisconnect(n, task, tock) ==
    /\ tock.type = "Disconnect"
    /\ IF Connected(n, tock.to) THEN Close(n, tock.to) ELSE UNCHANGED <<conn, inbox, deaf, ended>>
    /\ Done(n, task, tock, {})
    /\ UNCHANGED <<scenario, view, left>>

PerformIncoming(n, task, tock) ==
    /\ tock.type = "Incoming"
    /\ Done(n, task, tock, {})
    /\ UNCHANGED <<scenario, view, conn, inbox, deaf, ended, left>>

Perform(n, task) ==
    \E tock \in Performing(n, task) :
        \/ PerformSend(n, task, tock)
        \/ PerformSendFails(n, task, tock)
        \/ PerformAttempt(n, task, tock)
        \/ PerformAttemptFails(n, task, tock)
        \/ PerformEstablished(n, task, tock)
        \/ PerformDisconnect(n, task, tock)
        \/ PerformIncoming(n, task, tock)

-----------------------------------------------------------------------------

PeriodicShuffle(n) ==
    /\ left.shuffles > 0
    /\ work[n]["periodic"] = <<>>
    /\ \E s \in NonEmptyShuffles(n, view[n]) :
          work' = [work EXCEPT ![n]["periodic"] = <<{SendConnected(s.to, s.msg)}>>]
    /\ left' = [left EXCEPT !.shuffles = @ - 1]
    /\ UNCHANGED <<scenario, view, conn, inbox, deaf, ended>>

PeriodicPromotion(n) ==
    /\ left.promotions > 0
    /\ work[n]["periodic"] = <<>>
    /\ \E s \in ChoosePassiveToPromote(view[n]) :
          /\ s # <<>>
          /\ work' = [work EXCEPT ![n]["periodic"] =
                        [i \in DOMAIN s |-> {AttemptSend(s[i], Hello(view[n]))}]]
    /\ left' = [left EXCEPT !.promotions = @ - 1]
    /\ UNCHANGED <<scenario, view, conn, inbox, deaf, ended>>

Handle(n, m) ==
    \/ Receive(n, m)
    \/ ReceiveError(n, m)
    \/ ReceiveTooMuch(n, m)
    \/ Lost(n, m)

Protocol ==
    \/ \E n, m \in Peers : Handle(n, m)
    \/ \E n \in Peers, task \in Tasks : Perform(n, task)

Environment ==
    \/ \E n \in Peers : \E m \in Peers \ {n} : Discovered(n, m) \/ ConnectionEnds(n, m)
    \/ \E n \in Peers : PeriodicShuffle(n) \/ PeriodicPromotion(n)

Next == Protocol \/ Environment

Spec == Init /\ [][Next]_vars

\* All that coming to rest takes: some task goes on.
ProgressSpec == Spec /\ WF_vars(Protocol)

\* Nothing is assumed of the environment; a task of the protocol that can go
\* on does, the runtime polls every task that is ready.
FairSpec ==
    /\ Spec
    /\ \A n, m \in Peers : WF_vars(Handle(n, m))
    /\ \A n \in Peers, task \in Tasks : WF_vars(Perform(n, task))

-----------------------------------------------------------------------------

\* No task has anything to do, and no message travels.
Quiet ==
    /\ \A n, m \in Peers : inbox[n][m] = <<>> /\ ended[n][m] = 0
    /\ \A n \in Peers, task \in Tasks : work[n][task] = <<>>

Travelling(type) ==
    \/ \E n, m \in Peers : \E i \in DOMAIN inbox[n][m] : inbox[n][m][i].type = type
    \/ \E n \in Peers, task \in Tasks : \E i \in DOMAIN work[n][task] :
          \E tock \in work[n][task][i] :
             tock.type \in {"SendConnected", "AttemptSend"} /\ tock.msg.type = type

\* Every view stays within its bounds, every tock is for another peer than the
\* one performing it, and a connection joins two peers.
TypeOK ==
    /\ \A n \in Peers : ViewInv(n, view[n])
    /\ \A pair \in conn : Cardinality(pair) = 2
    /\ \A n \in Peers, task \in Tasks : \A i \in DOMAIN work[n][task] :
          \A tock \in work[n][task][i] : tock.to \in Peers \ {n}

\* No connection failed so far, no attempt to connect, and nobody was throttled.
NothingFailed ==
    /\ left.closed = scenario.closed
    /\ left.unreachable = scenario.unreachable
    /\ left.breaches = scenario.breaches

\* While there is room in every active view and nothing has failed, being
\* neighbours is mutual once everything is quiet, and neighbours are connected:
\* a hello that was sent was answered in kind, whichever of the two dialled,
\* and however discovery, Connect tocks and ForwardJoins raced.
QuietIsMutual ==
    Quiet /\ NothingFailed =>
       \A n \in Peers : \A m \in view[n].active :
          n \in view[m].active /\ Connected(n, m)

\* A peer that lost its neighbours, but knows of others that could be reached
\* every time, has a neighbour again once everything is quiet: however many
\* tasks notice the end of a connection, and whenever they do, the last of
\* them reconnects. This is about connections that end: a peer whose only
\* neighbour tells it to Disconnect does not reconnect, it waits for the next
\* periodic promotion. No scenario of three peers that is checked gets there.
NotIsolated ==
    Quiet /\ left.unreachable = scenario.unreachable =>
       \A n \in Peers : view[n].passive # {} => view[n].active # {}

\* The protocol comes to rest once it is left alone: peers that compete for the
\* slots of a full active view, and reconnect with high priority to whoever
\* dropped them, do not drive one another out for ever.
Settles == <>[]Quiet

\* A shuffle travels a bounded number of hops, whatever the views are on its
\* way: it does not travel for ever, not even beside a ForwardJoin that does.
ShufflesEnd == []<>(~Travelling("Shuffle"))

-----------------------------------------------------------------------------

\* params.rs documents `active_random_walk_length`: "The number of hops a
\* `ForwardJoin` or `Shuffle` should be propagated." So a ForwardJoin does not
\* travel for ever either.
ForwardJoinsEnd == []<>(~Travelling("ForwardJoin"))
=============================================================================
