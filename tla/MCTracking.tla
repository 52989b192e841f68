---------------------------- MODULE MCTracking ----------------------------
(***************************************************************************)
(* An instance of Tracking: a peer's entry and the default entry, two      *)
(* configurations, and the calls two processes make; and beside it the     *)
(* fusion of TrackPolicy, a batch of any length.  A behaviour is one of    *)
(* either.                                                                 *)
(***************************************************************************)
EXTENDS Tracking

CONSTANTS peer, default, c1, c2

TwoNames == {peer, default}

Order == <<peer, default>>

TwoConfigs == {c1, c2}

Swap == [c \in TwoConfigs |-> IF c = c1 THEN c2 ELSE c1]

PeerTracked == [n \in TwoNames |-> IF n = peer THEN c1 ELSE None]

On(n, a) == [name |-> n, action |-> a]

TrackCall(n, p, c) == [fn |-> "track", name |-> n, policy |-> p, config |-> c]

UntrackCall(n, p, prune) == [fn |-> "untrack", name |-> n, policy |-> p, prune |-> prune]

UntrackAllCall(p, prune) == [fn |-> "untrack_all", policy |-> p, prune |-> prune]

ModifyCall(n) == [fn |-> "modify", name |-> n]

BatchCall(actions) == [fn |-> "batch", actions |-> actions]

\* Writers that contend for both entries.
MixedCalls ==
    { TrackCall(peer, "any", c2),
      TrackCall(default, "must_not_exist", c1),
      ModifyCall(peer),
      UntrackCall(peer, "must_exist", TRUE),
      UntrackAllCall("must_match", FALSE),
      UntrackAllCall("any", FALSE),
      BatchCall(<<On(default, TrackAction("any", c2)),
                  On(peer, TrackAction("must_exist", c2)),
                  On(peer, UntrackAction("must_exist"))>>),
      BatchCall(<<On(peer, TrackAction("must_exist", c1)),
                  On(default, TrackAction("must_not_exist", c2))>>) }

-----------------------------------------------------------------------------
VARIABLE part

PartInit == part \in {"calls", "batch"} /\ Init /\ FusionInit

PartNext ==
    /\ \/ part = "calls" /\ Next /\ UNCHANGED <<reduction, entries>>
       \/ part = "batch" /\ FusionNext /\ UNCHANGED vars
    /\ UNCHANGED part

PartSpec ==
    /\ PartInit /\ [][PartNext]_<<part, vars, reduction, entries>>
    /\ \A p \in Proc : WF_vars(part = "calls" /\ Proceed(p))
=============================================================================
