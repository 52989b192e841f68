---------------------------- MODULE TrackPolicy ----------------------------
(***************************************************************************)
(* The policies of the tracking store (crate link-tracking): under which   *)
(* condition one tracking entry may be written or removed, and how a batch *)
(* fuses consecutive actions on the same entry into one.                   *)
(*                                                                         *)
(* An entry is a configuration, or None when the reference does not exist. *)
(* An action is a track with a policy and a configuration, or an untrack   *)
(* with a policy.  A Reduction is the sequence of actions that are left:   *)
(* one (Simple) or two (Stuck).                                            *)
(***************************************************************************)
EXTENDS Sequences

CONSTANTS Config, None

ASSUME NoneAssumption == None \notin Config

Entry == Config \cup {None}

TrackPolicies == {"any", "must_not_exist", "must_exist"}

UntrackPolicies == {"any", "must_exist"}

TrackActions == [kind: {"track"}, policy: TrackPolicies, config: Config]

UntrackActions == [kind: {"untrack"}, policy: UntrackPolicies]

Actions == TrackActions \cup UntrackActions

TrackAction(p, c) == [kind |-> "track", policy |-> p, config |-> c]

UntrackAction(p) == [kind |-> "untrack", policy |-> p]

-----------------------------------------------------------------------------
\* PreviousValue: the condition an update puts on the value it replaces.  The
\* variant IfExistsMustMatch is never built by the tracking operations.

PreviousAny == [on |-> "any", oid |-> None]

PreviousMustExist == [on |-> "must_exist", oid |-> None]

PreviousMustNotExist == [on |-> "must_not_exist", oid |-> None]

PreviousMatches(c) == [on |-> "must_match", oid |-> c]

PreviousValues == {PreviousAny, PreviousMustExist, PreviousMustNotExist}
                    \cup {PreviousMatches(c) : c \in Config}

\* PreviousValue::guard: is the update accepted when the entry is e?
Guard(previous, e) ==
    \/ previous.on = "any"
    \/ previous.on = "must_exist" /\ e # None
    \/ previous.on = "must_not_exist" /\ e = None
    \/ previous.on = "must_match" /\ e # None /\ e = previous.oid

TrackPrevious(policy) ==
    CASE policy = "any"            -> PreviousAny
      [] policy = "must_not_exist" -> PreviousMustNotExist
      [] policy = "must_exist"     -> PreviousMustExist

UntrackPrevious(policy) ==
    CASE policy = "any"        -> PreviousAny
      [] policy = "must_exist" -> PreviousMustExist

-----------------------------------------------------------------------------
(***************************************************************************)
(* Composition, "first then second".                                       *)
(***************************************************************************)

\* A plausible slip: the untrack is forgotten whatever follows it.
TrackAfterUntrackForgotten(first, second) ==
    IF second.policy = "must_exist"
    THEN second
    ELSE TrackAction("any", second.config)

\* A plausible slip: the two cases that get stuck are swapped.
ComposeTracksSwapped(first, second) ==
    CASE second.policy = "any" -> <<second>>
      [] second.policy = "must_not_exist" /\ first.policy # "must_not_exist" -> <<first>>
      [] second.policy = "must_not_exist" /\ first.policy = "must_not_exist" -> <<first, second>>
      [] second.policy = "must_exist" /\ first.policy = "must_exist" -> <<second>>
      [] second.policy = "must_exist" /\ first.policy # "must_exist" ->
            <<TrackAction("any", first.config)>>

\* track p' c' . track p c.  Where the second must find an entry and the first
\* creates it, the fused action carries the configuration of the FIRST.
ComposeTracks(first, second) ==
    CASE second.policy = "any" -> <<second>>
      [] second.policy = "must_not_exist" /\ first.policy # "must_exist" -> <<first>>
      [] second.policy = "must_not_exist" /\ first.policy = "must_exist" -> <<first, second>>
      [] second.policy = "must_exist" /\ first.policy = "must_exist" -> <<second>>
      [] second.policy = "must_exist" /\ first.policy # "must_exist" ->
            <<TrackAction("any", first.config)>>

UntrackAfterTrack == UntrackAction("any")

UntrackAfterUntrack(first, second) ==
    IF second.policy = "any" \/ first.policy = "any"
    THEN UntrackAction("any")
    ELSE UntrackAction("must_exist")

TrackAfterUntrack(first, second) ==
    IF second.policy = "must_exist"
    THEN first
    ELSE TrackAction("any", second.config)

Compose(first, second) ==
    CASE first.kind = "track" /\ second.kind = "track" -> ComposeTracks(first, second)
      [] first.kind = "untrack" /\ second.kind = "track" -> <<TrackAfterUntrack(first, second)>>
      [] first.kind = "track" /\ second.kind = "untrack" -> <<UntrackAfterTrack>>
      [] first.kind = "untrack" /\ second.kind = "untrack" -> <<UntrackAfterUntrack(first, second)>>

\* Reduction::compose.  Of a stuck pair the second absorbs the new action, and
\* the first absorbs what comes out; that the second always reduces is what
\* the code's unreachable!() relies on.
ComposeReduction(r, a) ==
    IF Len(r) = 1
    THEN Compose(r[1], a)
    ELSE Compose(r[1], Compose(r[2], a)[1])

-----------------------------------------------------------------------------
(***************************************************************************)
(* One entry of a batch, as fuse builds it: the actions on the entry       *)
(* arrive one after another and each is composed with the reduction of     *)
(* those before it.  Beside it runs the reference: the same actions        *)
(* applied one at a time, from every value the entry may have had.  Both   *)
(* are finite whatever the length of the batch.                            *)
(***************************************************************************)

VARIABLES reduction,  \* what fuse holds for the entry, <<>> before any action
          entries     \* [initial entry -> the entry the actions lead to]

fusionVars == <<reduction, entries>>

\* The reference: one action applied alone to the entry e.
Apply(a, e) ==
    IF a.kind = "track"
    THEN IF Guard(TrackPrevious(a.policy), e) THEN a.config ELSE e
    ELSE IF Guard(UntrackPrevious(a.policy), e) THEN None ELSE e

\* What is left of the reduction, applied in order.
Replay(r, e) ==
    CASE Len(r) = 0 -> e
      [] Len(r) = 1 -> Apply(r[1], e)
      [] Len(r) = 2 -> Apply(r[2], Apply(r[1], e))

FusionInit ==
    /\ reduction = << >>
    /\ entries = [e \in Entry |-> e]

AddAction(a) ==
    /\ reduction' = IF reduction = << >> THEN <<a>> ELSE ComposeReduction(reduction, a)
    /\ entries' = [e \in Entry |-> Apply(a, entries[e])]

FusionNext == \E a \in Actions : AddAction(a)

FusionSpec == FusionInit /\ [][FusionNext]_fusionVars

-----------------------------------------------------------------------------
\* The SAFETY comment of Reduction::compose: a stuck pair is a track that must
\* find an entry followed by one that must not, so its second half composes
\* with any action to a single one and the unreachable!() is unreachable,
\* however long the batch.
SecondReduces ==
    Len(reduction) = 2 =>
        /\ reduction[1].kind = "track" /\ reduction[1].policy = "must_exist"
        /\ reduction[2].kind = "track" /\ reduction[2].policy = "must_not_exist"
        /\ \A a \in Actions : Len(Compose(reduction[2], a)) = 1

\* Fusion does not change whether the entry is tracked: what is left of a
\* batch leaves an entry exactly when its actions, applied one by one, do,
\* from whatever the entry was before.
FusionKeepsExistence ==
    \A e \in Entry : (Replay(reduction, e) = None) <=> (entries[e] = None)
=============================================================================
