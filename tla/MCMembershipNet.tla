-------------------------- MODULE MCMembershipNet --------------------------
(***************************************************************************)
(* What happens in networks of three peers.                                *)
(***************************************************************************)
EXTENDS MembershipNet

CONSTANTS a, b, c

\* Anybody may discover anybody.
Everybody == {<<n, m>> \in Peers \X Peers : n # m}

\* Two peers dial the same third one, which may be dialling as well.
Rivals == {<<a, b>>, <<c, a>>, <<c, b>>}

\* Any two dials among three peers are some pair of these, up to renaming the
\* peers: back and forth, by one peer, to one peer, and in a row.
TwoDials == {{<<a, b>>, x} : x \in {<<b, a>>, <<a, c>>, <<c, b>>, <<b, c>>}}

Nothing == [discoverable |-> Everybody, discoveries |-> 0, closed |-> 0, shuffles |-> 0,
            promotions |-> 0, unreachable |-> 0, breaches |-> 0]

Dialling == [Nothing EXCEPT !.discoveries = 3]

Losing(dials) == [Nothing EXCEPT !.discoverable = dials, !.discoveries = 2, !.closed = 1,
                                 !.unreachable = 1]

Promoting == [Nothing EXCEPT !.discoveries = 1, !.closed = 1, !.promotions = 1]

\* All three may become neighbours of each other: a ForwardJoin that never ends
\* may travel along with the shuffle.
Shuffling == [Nothing EXCEPT !.discoverable = Rivals, !.discoveries = 3, !.shuffles = 1]

\* A peer is throttled.
Throttling == [Nothing EXCEPT !.discoverable = Rivals, !.discoveries = 2, !.breaches = 1]

\* A peer with a single slot dials two others, who then compete for it.
Competing == [Nothing EXCEPT !.discoverable = {<<c, a>>, <<c, b>>}, !.discoveries = 2]

Roomy == {Dialling, Promoting, Shuffling, Throttling} \cup {Losing(d) : d \in TwoDials}

Joining == {Dialling}

Crowded == {Competing}
=============================================================================
