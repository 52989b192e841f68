--------------------------- MODULE TrackingProofs ---------------------------
(***************************************************************************)
(* For any number of processes, entries and configurations, any calls and  *)
(* any crashes: every update is committed under the lock of its process    *)
(* and with its guard true of the entry it replaces; modify is atomic; no  *)
(* lock outlives its call; and what a call reports is what it did.  For    *)
(* batches of any length: what fusion makes of them.                       *)
(***************************************************************************)
EXTENDS Tracking, FiniteSetTheorems, NaturalsInduction, WellFoundedInduction, TLAPS

-----------------------------------------------------------------------------
(***************************************************************************)
(* For every set of configurations and batches of every length: the        *)
(* unreachable!() of Reduction::compose is unreachable, and fusion never   *)
(* changes whether an entry is tracked.                                    *)
(***************************************************************************)
\* The one stuck pair.
StuckPair(a, b) ==
    /\ a \in TrackActions /\ a.policy = "must_exist"
    /\ b \in TrackActions /\ b.policy = "must_not_exist"

\* The reductions fuse can hold.
Reduced(r) ==
    \/ r = << >>
    \/ \E a \in Actions : r = <<a>>
    \/ \E a, b \in Actions : StuckPair(a, b) /\ r = <<a, b>>

\* Applying an action to an entry gives an entry.
LEMMA ApplyType ==
    ASSUME NEW a \in Actions, NEW e \in Entry
    PROVE  Apply(a, e) \in Entry
  BY DEF Apply, Actions, TrackActions, UntrackActions, Entry

\* Whether an entry is left depends only on whether there was one.
LEMMA ApplyExistence ==
    ASSUME NEW a \in Actions, NEW e \in Entry, NEW f \in Entry, (e = None) <=> (f = None)
    PROVE  (Apply(a, e) = None) <=> (Apply(a, f) = None)
<1>1. CASE a \in TrackActions
  <2>1. CASE a.policy = "any"
    BY <1>1, <2>1, NoneAssumption DEF Apply, TrackActions, Guard, TrackPrevious, PreviousAny
  <2>2. CASE a.policy = "must_not_exist"
    BY <1>1, <2>2, NoneAssumption DEF Apply, TrackActions, Guard, TrackPrevious, PreviousMustNotExist
  <2>3. CASE a.policy = "must_exist"
    BY <1>1, <2>3, NoneAssumption DEF Apply, TrackActions, Guard, TrackPrevious, PreviousMustExist
  <2> QED BY <1>1, <2>1, <2>2, <2>3 DEF TrackActions, TrackPolicies
<1>2. CASE a \in UntrackActions
  <2>1. CASE a.policy = "any"
    BY <1>2, <2>1 DEF Apply, UntrackActions, Guard, UntrackPrevious, PreviousAny
  <2>2. CASE a.policy = "must_exist"
    BY <1>2, <2>2 DEF Apply, UntrackActions, Guard, UntrackPrevious, PreviousMustExist
  <2> QED BY <1>2, <2>1, <2>2 DEF UntrackActions, UntrackPolicies
<1> QED BY <1>1, <1>2 DEF Actions

\* What one track leaves, policy by policy.
LEMMA ApplyTrack ==
    ASSUME NEW a \in TrackActions, NEW e \in Entry
    PROVE  /\ a.policy = "any" => Apply(a, e) = a.config
           /\ a.policy = "must_not_exist" => Apply(a, e) = IF e = None THEN a.config ELSE e
           /\ a.policy = "must_exist" => Apply(a, e) = IF e # None THEN a.config ELSE e
           /\ a.config # None
  BY NoneAssumption DEF Apply, TrackActions, Guard, TrackPrevious, PreviousAny,
     PreviousMustExist, PreviousMustNotExist

\* An untrack, whatever its policy, leaves no entry.
LEMMA ApplyUntrack ==
    ASSUME NEW a \in UntrackActions, NEW e \in Entry
    PROVE  Apply(a, e) = None
  BY DEF Apply, UntrackActions, UntrackPolicies, Guard, UntrackPrevious, PreviousAny,
     PreviousMustExist

\* Two actions compose to one action, or they are the stuck pair and stay.
LEMMA ComposeShape ==
    ASSUME NEW a \in Actions, NEW b \in Actions
    PROVE  \/ \E c \in Actions : Compose(a, b) = <<c>>
           \/ StuckPair(a, b) /\ Compose(a, b) = <<a, b>>
<1>1. CASE a \in TrackActions /\ b \in TrackActions
  <2>1. Compose(a, b) = ComposeTracks(a, b)
    BY <1>1 DEF Compose, TrackActions
  <2>2. TrackAction("any", a.config) \in Actions
    BY <1>1 DEF TrackAction, TrackActions, TrackPolicies, Actions
  <2>3. CASE b.policy = "any"
    BY <2>1, <2>3 DEF ComposeTracks
  <2>4. CASE b.policy = "must_not_exist" /\ a.policy # "must_exist"
    BY <2>1, <2>4 DEF ComposeTracks
  <2>5. CASE b.policy = "must_not_exist" /\ a.policy = "must_exist"
    BY <1>1, <2>1, <2>5 DEF ComposeTracks, StuckPair
  <2>6. CASE b.policy = "must_exist" /\ a.policy = "must_exist"
    BY <2>1, <2>6 DEF ComposeTracks
  <2>7. CASE b.policy = "must_exist" /\ a.policy # "must_exist"
    BY <2>1, <2>2, <2>7 DEF ComposeTracks
  <2> QED BY <1>1, <2>3, <2>4, <2>5, <2>6, <2>7 DEF TrackActions, TrackPolicies
<1>2. CASE a \in UntrackActions /\ b \in TrackActions
  BY <1>2 DEF Compose, TrackAfterUntrack, TrackAction, TrackActions, UntrackActions,
     TrackPolicies, Actions
<1>3. CASE a \in TrackActions /\ b \in UntrackActions
  BY <1>3 DEF Compose, UntrackAfterTrack, UntrackAction, TrackActions, UntrackActions,
     UntrackPolicies, Actions
<1>4. CASE a \in UntrackActions /\ b \in UntrackActions
  BY <1>4 DEF Compose, UntrackAfterUntrack, UntrackAction, UntrackActions, UntrackPolicies,
     Actions
<1> QED BY <1>1, <1>2, <1>3, <1>4 DEF Actions

\* Replaying a single action.
LEMMA ReplayOne ==
    ASSUME NEW a \in Actions, NEW e \in Entry
    PROVE  Replay(<<a>>, e) = Apply(a, e)
  BY DEF Replay

\* Replaying a pair.
LEMMA ReplayTwo ==
    ASSUME NEW a \in Actions, NEW b \in Actions, NEW e \in Entry
    PROVE  Replay(<<a, b>>, e) = Apply(b, Apply(a, e))
  BY DEF Replay

\* Composing two actions keeps whether an entry is left.
LEMMA ComposeKeepsExistence ==
    ASSUME NEW a \in Actions, NEW b \in Actions, NEW e \in Entry
    PROVE  (Replay(Compose(a, b), e) = None) <=> (Apply(b, Apply(a, e)) = None)
<1>0. Apply(a, e) \in Entry
  BY ApplyType
<1>1. CASE a \in TrackActions /\ b \in TrackActions
  <2>1. Compose(a, b) = ComposeTracks(a, b)
    BY <1>1 DEF Compose, TrackActions
  <2>2. /\ TrackAction("any", a.config) \in TrackActions
        /\ TrackAction("any", a.config).policy = "any"
        /\ TrackAction("any", a.config).config = a.config
    BY <1>1 DEF TrackAction, TrackActions, TrackPolicies
  <2>3. CASE b.policy = "any"
    <3>1. Replay(Compose(a, b), e) = Apply(b, e)
      BY <2>1, <2>3, ReplayOne DEF ComposeTracks
    <3> QED BY <1>0, <1>1, <2>3, <3>1, ApplyTrack
  <2>4. CASE b.policy = "must_not_exist" /\ a.policy # "must_exist"
    <3>1. a.policy = "any" \/ a.policy = "must_not_exist"
      BY <1>1, <2>4 DEF TrackActions, TrackPolicies
    <3>2. Replay(Compose(a, b), e) = Apply(a, e)
      BY <2>1, <2>4, ReplayOne DEF ComposeTracks
    <3>3. Apply(a, e) # None
      BY <1>1, <3>1, ApplyTrack
    <3> QED BY <1>0, <1>1, <2>4, <3>2, <3>3, ApplyTrack
  <2>5. CASE b.policy = "must_not_exist" /\ a.policy = "must_exist"
    BY <2>1, <2>5, ReplayTwo DEF ComposeTracks
  <2>6. CASE b.policy = "must_exist" /\ a.policy = "must_exist"
    <3>1. Replay(Compose(a, b), e) = Apply(b, e)
      BY <2>1, <2>6, ReplayOne DEF ComposeTracks
    <3> QED BY <1>0, <1>1, <2>6, <3>1, ApplyTrack
  <2>7. CASE b.policy = "must_exist" /\ a.policy # "must_exist"
    <3>1. a.policy = "any" \/ a.policy = "must_not_exist"
      BY <1>1, <2>7 DEF TrackActions, TrackPolicies
    <3>2. Replay(Compose(a, b), e) = Apply(TrackAction("any", a.config), e)
      BY <2>1, <2>2, <2>7, ReplayOne DEF ComposeTracks, Actions
    <3>3. Replay(Compose(a, b), e) # None
      BY <1>1, <2>2, <3>2, ApplyTrack
    <3>4. Apply(a, e) # None
      BY <1>1, <3>1, ApplyTrack
    <3> QED BY <1>0, <1>1, <2>7, <3>3, <3>4, ApplyTrack
  <2> QED BY <1>1, <2>3, <2>4, <2>5, <2>6, <2>7 DEF TrackActions, TrackPolicies
<1>2. CASE a \in UntrackActions /\ b \in TrackActions
  <2>1. Compose(a, b) = <<TrackAfterUntrack(a, b)>>
    BY <1>2 DEF Compose, TrackActions, UntrackActions
  <2>2. Apply(a, e) = None /\ None \in Entry
    BY <1>2, ApplyUntrack DEF Entry
  <2>3. CASE b.policy = "must_exist"
    <3>1. Replay(Compose(a, b), e) = Apply(a, e)
      BY <2>1, <2>3, ReplayOne DEF TrackAfterUntrack
    <3> QED BY <1>2, <2>2, <2>3, <3>1, ApplyTrack
  <2>4. CASE b.policy # "must_exist"
    <3>1. /\ TrackAction("any", b.config) \in TrackActions
          /\ TrackAction("any", b.config).policy = "any"
      BY <1>2 DEF TrackAction, TrackActions, TrackPolicies
    <3>2. Replay(Compose(a, b), e) # None
      <4>1. Replay(Compose(a, b), e) = Apply(TrackAction("any", b.config), e)
        BY <2>1, <2>4, <3>1, ReplayOne DEF TrackAfterUntrack, Actions
      <4> QED BY <3>1, <4>1, ApplyTrack
    <3>3. b.policy = "any" \/ b.policy = "must_not_exist"
      BY <1>2, <2>4 DEF TrackActions, TrackPolicies
    <3> QED BY <1>2, <2>2, <3>2, <3>3, ApplyTrack
  <2> QED BY <2>3, <2>4
<1>3. CASE b \in UntrackActions
  <2>1. \E c \in UntrackActions : Compose(a, b) = <<c>>
    <3>1. CASE a \in TrackActions
      BY <1>3, <3>1 DEF Compose, UntrackAfterTrack, UntrackAction, TrackActions,
         UntrackActions, UntrackPolicies
    <3>2. CASE a \in UntrackActions
      BY <1>3, <3>2 DEF Compose, UntrackAfterUntrack, UntrackAction, UntrackActions,
         UntrackPolicies
    <3> QED BY <3>1, <3>2 DEF Actions
  <2>2. PICK c \in UntrackActions : Compose(a, b) = <<c>>
    BY <2>1
  <2>3. Replay(Compose(a, b), e) = Apply(c, e)
    BY <2>2, ReplayOne DEF Actions
  <2>4. Apply(c, e) = None /\ Apply(b, Apply(a, e)) = None
    BY <1>0, <1>3, ApplyUntrack
  <2> QED BY <2>3, <2>4
<1> QED BY <1>1, <1>2, <1>3 DEF Actions

\* Composing a reduction with an action keeps its shape, and replaying the
\* result leaves an entry exactly when the action does after the reduction.
LEMMA ComposeReductionSound ==
    ASSUME NEW r, Reduced(r), r # << >>, NEW b \in Actions, NEW e \in Entry
    PROVE  /\ Reduced(ComposeReduction(r, b))
           /\ Replay(r, e) \in Entry
           /\ (Replay(ComposeReduction(r, b), e) = None) <=> (Apply(b, Replay(r, e)) = None)
<1>1. CASE \E a \in Actions : r = <<a>>
  <2>1. PICK a \in Actions : r = <<a>>
    BY <1>1
  <2>2. ComposeReduction(r, b) = Compose(a, b)
    BY <2>1 DEF ComposeReduction
  <2>3. Reduced(Compose(a, b))
    BY ComposeShape DEF Reduced
  <2>4. Replay(r, e) = Apply(a, e)
    BY <2>1, ReplayOne
  <2>5. (Replay(Compose(a, b), e) = None) <=> (Apply(b, Apply(a, e)) = None)
    BY ComposeKeepsExistence
  <2> QED BY <2>2, <2>3, <2>4, <2>5, ApplyType
<1>2. CASE \E x, y \in Actions : StuckPair(x, y) /\ r = <<x, y>>
  <2>1. PICK x \in Actions, y \in Actions : StuckPair(x, y) /\ r = <<x, y>>
    BY <1>2
  <2>2. PICK c \in Actions : Compose(y, b) = <<c>>
    <3>1. ~ StuckPair(y, b)
      BY <2>1 DEF StuckPair
    <3> QED BY <3>1, ComposeShape
  <2>3. ComposeReduction(r, b) = Compose(x, c)
    <3>1. Len(r) # 1 /\ r[1] = x /\ r[2] = y
      BY <2>1
    <3> QED BY <2>2, <3>1 DEF ComposeReduction
  <2>4. Reduced(Compose(x, c))
    BY ComposeShape DEF Reduced
  <2>5. Apply(x, e) \in Entry /\ Apply(y, Apply(x, e)) \in Entry
    BY ApplyType
  <2>6. Replay(r, e) = Apply(y, Apply(x, e))
    BY <2>1, ReplayTwo
  <2>7. (Replay(Compose(x, c), e) = None) <=> (Apply(c, Apply(x, e)) = None)
    BY ComposeKeepsExistence
  <2>8. (Apply(c, Apply(x, e)) = None) <=> (Apply(b, Apply(y, Apply(x, e))) = None)
    <3>1. Replay(Compose(y, b), Apply(x, e)) = Apply(c, Apply(x, e))
      BY <2>2, <2>5, ReplayOne
    <3>2. (Replay(Compose(y, b), Apply(x, e)) = None)
              <=> (Apply(b, Apply(y, Apply(x, e))) = None)
      BY <2>5, ComposeKeepsExistence
    <3> QED BY <3>1, <3>2
  <2> QED BY <2>3, <2>4, <2>5, <2>6, <2>7, <2>8
<1> QED BY <1>1, <1>2 DEF Reduced

-----------------------------------------------------------------------------
\* The inductive invariant: the shape of the reduction, the type of the
\* reference, and that the two agree on existence.
FusionInv == /\ Reduced(reduction)
        /\ entries \in [Entry -> Entry]
        /\ FusionKeepsExistence

\* The invariant holds of an empty batch.
LEMMA FusionInitInv == FusionInit => FusionInv
<1> SUFFICES ASSUME FusionInit PROVE FusionInv
  OBVIOUS
<1>1. reduction = << >> /\ entries = [e \in Entry |-> e]
  BY DEF FusionInit
<1>2. FusionKeepsExistence
  BY <1>1 DEF FusionKeepsExistence, Replay
<1> QED BY <1>1, <1>2 DEF FusionInv, Reduced

\* The invariant is preserved by each further action of the batch.
LEMMA FusionNextInv == FusionInv /\ [FusionNext]_fusionVars => FusionInv'
<1> SUFFICES ASSUME FusionInv, [FusionNext]_fusionVars PROVE FusionInv'
  OBVIOUS
<1>1. CASE FusionNext
  <2>1. PICK b \in Actions : AddAction(b)
    BY <1>1 DEF FusionNext
  <2>2. entries' \in [Entry -> Entry]
    BY <2>1, ApplyType DEF FusionInv, AddAction
  <2>3. CASE reduction = << >>
    <3>1. reduction' = <<b>>
      BY <2>1, <2>3 DEF AddAction
    <3>2. ASSUME NEW e \in Entry
          PROVE  (Replay(reduction', e) = None) <=> (entries'[e] = None)
      <4>1. (e = None) <=> (entries[e] = None)
        BY <2>3 DEF FusionInv, FusionKeepsExistence, Replay
      <4>2. entries[e] \in Entry
        BY DEF FusionInv
      <4>3. entries'[e] = Apply(b, entries[e])
        BY <2>1 DEF AddAction
      <4>4. Replay(reduction', e) = Apply(b, e)
        BY <3>1, ReplayOne
      <4> QED BY <4>1, <4>2, <4>3, <4>4, ApplyExistence
    <3> QED BY <2>2, <3>1, <3>2 DEF FusionInv, Reduced, FusionKeepsExistence
  <2>4. CASE reduction # << >>
    <3>1. reduction' = ComposeReduction(reduction, b)
      BY <2>1, <2>4 DEF AddAction
    <3>2. Reduced(reduction)
      BY DEF FusionInv
    <3>3. ASSUME NEW e \in Entry
          PROVE  (Replay(reduction', e) = None) <=> (entries'[e] = None)
      <4>1. (Replay(reduction, e) = None) <=> (entries[e] = None)
        BY DEF FusionInv, FusionKeepsExistence
      <4>2. entries[e] \in Entry
        BY DEF FusionInv
      <4>3. entries'[e] = Apply(b, entries[e])
        BY <2>1 DEF AddAction
      <4>4. /\ Replay(reduction, e) \in Entry
            /\ (Replay(reduction', e) = None) <=> (Apply(b, Replay(reduction, e)) = None)
        BY <2>4, <3>1, <3>2, ComposeReductionSound
      <4>5. (Apply(b, Replay(reduction, e)) = None) <=> (Apply(b, entries[e]) = None)
        BY <4>1, <4>2, <4>4, ApplyExistence
      <4> QED BY <4>3, <4>4, <4>5
    <3>4. Reduced(reduction')
      <4>1. None \in Entry
        BY DEF Entry
      <4> QED BY <2>4, <3>1, <3>2, <4>1, ComposeReductionSound
    <3> QED BY <2>2, <3>3, <3>4 DEF FusionInv, FusionKeepsExistence
  <2> QED BY <2>3, <2>4
<1>2. CASE UNCHANGED fusionVars
  BY <1>2 DEF FusionInv, fusionVars, FusionKeepsExistence, Reduced, Replay
<1> QED BY <1>1, <1>2

\* Fusing a batch of any length, over any configurations, keeps whether the
\* entry is tracked once the batch is applied.
THEOREM FusedExistence == FusionSpec => []FusionKeepsExistence
<1>1. FusionInv => FusionKeepsExistence
  BY DEF FusionInv
<1> QED BY <1>1, FusionInitInv, FusionNextInv, PTL DEF FusionSpec

\* The SAFETY comment of Reduction::compose holds: the second half of a stuck
\* pair always reduces.
THEOREM StuckAlwaysReduces == FusionSpec => []SecondReduces
<1>1. FusionInv => SecondReduces
  <2> SUFFICES ASSUME FusionInv, Len(reduction) = 2 PROVE SecondReduces
    BY DEF SecondReduces
  <2>a. Reduced(reduction)
    BY DEF FusionInv
  <2>b. reduction # << >>
    OBVIOUS
  <2>c. ASSUME NEW x \in Actions PROVE reduction # <<x>>
    OBVIOUS
  <2>d. \E x, y \in Actions : StuckPair(x, y) /\ reduction = <<x, y>>
    BY <2>a, <2>b, <2>c, Zenon DEF Reduced
  <2>1. PICK x \in Actions, y \in Actions : StuckPair(x, y) /\ reduction = <<x, y>>
    BY <2>d, Zenon
  <2>2. reduction[1] = x /\ reduction[2] = y
    BY <2>1
  <2>3. ASSUME NEW b \in Actions PROVE Len(Compose(y, b)) = 1
    BY <2>1, ComposeShape DEF StuckPair
  <2> QED BY <2>1, <2>2, <2>3 DEF SecondReduces, StuckPair, TrackActions
<1> QED BY <1>1, FusionInitInv, FusionNextInv, PTL DEF FusionSpec

-----------------------------------------------------------------------------
(***************************************************************************)
(* What fuse makes of the actions on an entry.                             *)
(***************************************************************************)
\* Mathematical induction on a set of numbers.
LEMMA NumberInduction ==
    ASSUME NEW T \in SUBSET Nat, 0 \in T, \A n \in T : n + 1 \in T
    PROVE  T = Nat
<1>1. SUFFICES ASSUME Nat \ T # {} PROVE FALSE
  BY Zenon
<1>2. PICK x \in Nat \ T : \A y \in Nat \ T : ~(<<y, x>> \in OpToRel(<, Nat))
  BY <1>1, NatLessThanWellFounded, WFMin, Zenon
<1>3. \A y \in Nat \ T : ~(y < x)
  BY Zenon, <1>2 DEF OpToRel
<1>4. x # 0 /\ x - 1 \in Nat /\ x - 1 < x
  BY SMT
<1>5. x - 1 \in T
  BY <1>3, <1>4
<1>6. (x - 1) + 1 \in T
  BY <1>5
<1> QED BY <1>6, <1>4

\* However many actions a batch has on an entry, fuse leaves none, one, or
\* the stuck pair of them.
LEMMA FuseEntryReduced ==
    ASSUME NEW actions \in Seq(BatchActions), NEW n \in Name
    PROVE  Reduced(FuseEntry(actions, n))
<1> DEFINE len == Len(actions)
           next(r, i) == IF actions[i].name # n THEN r
                         ELSE IF r = << >> THEN <<actions[i].action>>
                         ELSE ComposeReduction(r, actions[i].action)
           IsFold(f, m) == f = [i \in 0..m |-> IF i = 0 THEN << >> ELSE next(f[i - 1], i)]
           fold[i \in 0..len] == IF i = 0 THEN << >> ELSE next(fold[i - 1], i)
<1>1. FuseEntry(actions, n) = fold[len]
  BY DEF FuseEntry
<1>2. len \in Nat /\ \A i \in 1..len : actions[i].action \in Actions
  <2>1. \A a \in BatchActions : a.action \in Actions
    BY DEF BatchActions
  <2>2. len \in Nat /\ \A i \in 1..len : actions[i] \in BatchActions
    OBVIOUS
  <2> QED BY <2>1, <2>2, Zenon
<1>3. ASSUME NEW r, Reduced(r), NEW i \in 1..len PROVE Reduced(next(r, i))
  <2>1. CASE actions[i].name # n
    BY <1>3, <2>1
  <2>2. CASE actions[i].name = n /\ r = << >>
    BY <1>2, <2>2 DEF Reduced
  <2>3. CASE actions[i].name = n /\ r # << >>
    <3>1. None \in Entry
      BY DEF Entry
    <3>2. Reduced(ComposeReduction(r, actions[i].action))
      <4> DEFINE a == actions[i].action
      <4>1. a \in Actions
        BY <1>2, <1>3
      <4> HIDE DEF a
      <4>2. Reduced(ComposeReduction(r, a))
        BY <1>3, <2>3, <3>1, <4>1, ComposeReductionSound, Zenon
      <4> QED BY <4>2 DEF a
    <3> QED BY <2>3, <3>2
  <2> QED BY <2>1, <2>2, <2>3
<1> HIDE DEF next, len
<1>4. \A m \in Nat : \E f : IsFold(f, m)
  <2> DEFINE T == {m \in Nat : \E f : IsFold(f, m)}
  <2>1. 0 \in T
    <3>1. IsFold([i \in 0..0 |-> << >>], 0)
      BY SMT
    <3> QED BY Zenon, <3>1
  <2>2. ASSUME NEW m \in T PROVE m + 1 \in T
    <3>1. PICK f : IsFold(f, m)
      BY <2>2
    <3> DEFINE g == [i \in 0..(m + 1) |-> IF i <= m THEN f[i] ELSE next(f[m], m + 1)]
    <3>2. ASSUME NEW i \in 0..(m + 1)
          PROVE  g[i] = IF i = 0 THEN << >> ELSE next(g[i - 1], i)
      <4>1. CASE i = 0
        BY SMTT(30), <3>1, <4>1
      <4>2. CASE i # 0 /\ i <= m
        <5>1. g[i] = f[i] /\ g[i - 1] = f[i - 1] /\ i \in 0..m
          BY <4>2
        <5>2. f[i] = next(f[i - 1], i)
          BY Zenon, <3>1, <4>2, <5>1
        <5> QED BY <4>2, <5>1, <5>2
      <4>3. CASE i = m + 1
        BY <4>3
      <4>4. i = 0 \/ (i # 0 /\ i <= m) \/ i = m + 1
        BY SMT
      <4> HIDE DEF g
      <4> QED BY <4>1, <4>2, <4>3, <4>4, Zenon
    <3>3. IsFold(g, m + 1)
      BY Zenon, <3>2
    <3>4. m + 1 \in Nat
      BY SMT
    <3> HIDE DEF g, IsFold
    <3>5. \E h : IsFold(h, m + 1)
      BY <3>3, Zenon
    <3> QED BY <3>4, <3>5, Zenon
  <2> HIDE DEF T
  <2>3. T = Nat
    <3>1. T \in SUBSET Nat
      BY DEF T
    <3> QED BY Zenon, <2>1, <2>2, <3>1, NumberInduction
  <2> QED BY Zenon, <2>3 DEF T
<1>5. IsFold(fold, len)
  <2>1. \E f : IsFold(f, len)
    <3> HIDE DEF IsFold
    <3> QED BY <1>2, <1>4
  <2> QED BY <2>1, Zenon
<1> HIDE DEF fold
<1>6. \A m \in Nat : m \in 0..len => Reduced(fold[m])
  <2> DEFINE T == {m \in Nat : m \in 0..len => Reduced(fold[m])}
  <2>1. 0 \in T
    <3>1. fold[0] = << >>
      BY <1>2, <1>5
    <3> QED BY <3>1 DEF Reduced
  <2>2. ASSUME NEW m \in T PROVE m + 1 \in T
    <3> SUFFICES ASSUME m + 1 \in 0..len PROVE Reduced(fold[m + 1])
      BY <2>2
    <3>1. m \in Nat /\ m \in 0..len /\ m + 1 \in 1..len /\ (m + 1) - 1 = m /\ m + 1 # 0
      BY <1>2, <2>2
    <3>2. fold[m + 1] = next(fold[m], m + 1)
      BY <1>5, <3>1
    <3>3. Reduced(fold[m])
      BY <2>2, <3>1
    <3> QED BY Zenon, <1>3, <3>1, <3>2, <3>3
  <2> HIDE DEF T
  <2>3. T = Nat
    <3>1. T \in SUBSET Nat
      BY DEF T
    <3> QED BY <2>1, <2>2, <3>1, NumberInduction
  <2> QED BY <2>3 DEF T
<1>7. len \in 0..len
  BY <1>2
<1> QED BY <1>1, <1>2, <1>6, <1>7

\* So what is left of a batch are actions.
LEMMA FuseEntryType ==
    ASSUME NEW actions \in Seq(BatchActions), NEW n \in Name
    PROVE  FuseEntry(actions, n) \in Seq(Actions)
<1> DEFINE r == FuseEntry(actions, n)
<1>1. Reduced(r)
  BY FuseEntryReduced, Zenon
<1> HIDE DEF r
<1>2. \/ r = << >>
      \/ \E a \in Actions : r = <<a>>
      \/ \E a, b \in Actions : r = <<a, b>>
  BY <1>1, Zenon DEF Reduced
<1>3. << >> \in Seq(Actions)
  OBVIOUS
<1>4. ASSUME NEW a \in Actions PROVE <<a>> \in Seq(Actions)
  OBVIOUS
<1>5. ASSUME NEW a \in Actions, NEW b \in Actions PROVE <<a, b>> \in Seq(Actions)
  OBVIOUS
<1>6. r \in Seq(Actions)
  BY <1>2, <1>3, <1>4, <1>5, Zenon
<1> QED BY <1>6 DEF r

-----------------------------------------------------------------------------
PcValues == {"idle", "read", "lock", "check", "commit", "crashed"}

Outcomes == {"none", "ok", "rejected", "error", "prune_error"}

\* A call that is under way is one of the calls; one that is not has nothing
\* left to do.
Working ==
    \A p \in Proc : /\ pc[p] # "idle" => call[p] \in Calls
                    /\ pc[p] \in {"idle", "crashed"} => todo[p] = << >> /\ staged[p] = {}
                    /\ pc[p] = "read" => staged[p] = {}

\* The update that is put to the guard is under the lock of its process, and
\* no other update of the same entry is staged.
Checking ==
    \A p \in Proc : pc[p] = "check" =>
        /\ todo[p] # << >>
        /\ owner[Head(todo[p]).name] = p
        /\ \A u \in staged[p] : u.name # Head(todo[p]).name

\* The part of the state that returning from a call resets.
CallStateOK ==
    /\ owner \in [Name -> Proc \cup {None}]
    /\ pc \in [Proc -> PcValues]
    /\ pending \in [Proc -> 0..Len(NameOrder)]
    /\ todo \in [Proc -> Seq(Updates)]
    /\ staged \in [Proc -> SUBSET Updates]
    /\ outcome \in [Proc -> Outcomes]

\* Returning from a call keeps the types.
LEMMA FinishType ==
    ASSUME TypeOK, NEW p \in Proc, NEW result \in Outcomes, Finish(p, result)
    PROVE  CallStateOK'
<1>1. << >> \in Seq(Updates)
  OBVIOUS
<1>2. 0 \in 0..Len(NameOrder)
  BY SMTT(30), NamesAssumption
<1> QED
  BY <1>1, <1>2 DEF TypeOK, Finish, CallStateOK, PcValues, Outcomes

\* Entering the transaction keeps the types.
LEMMA BeginType ==
    ASSUME TypeOK, NEW p \in Proc, NEW us \in Seq(Updates), Begin(p, us)
    PROVE  CallStateOK'
<1>1. 0 \in 0..Len(NameOrder)
  BY NamesAssumption
<1> QED
  BY <1>1 DEF TypeOK, Begin, CallStateOK, PcValues, Outcomes

\* An update built from well-typed parts is one.
LEMMA UpdateType ==
    ASSUME NEW n \in Name, NEW target \in Entry, NEW previous \in PreviousValues
    PROVE  Update(n, target, previous) \in Updates
  BY DEF Update, Updates

\* The first of some updates is an update, of an entry.
LEMMA HeadType ==
    ASSUME NEW us \in Seq(Updates), us # << >>
    PROVE  /\ Head(us) \in Updates /\ Tail(us) \in Seq(Updates)
           /\ Head(us).name \in Name
<1>1. Head(us) \in Updates /\ Tail(us) \in Seq(Updates)
  OBVIOUS
<1>2. \A u \in Updates : u.name \in Name
  BY DEF Updates
<1> QED BY <1>1, <1>2

\* What is staged are updates, of entries.
LEMMA StagedType ==
    ASSUME TypeOK, NEW p \in Proc, NEW u \in staged[p]
    PROVE  u \in Updates /\ u.name \in Name /\ u.target \in Entry
<1>1. staged[p] \in SUBSET Updates
  BY DEF TypeOK
<1>2. u \in Updates
  BY <1>1
<1> QED BY <1>2 DEF Updates

\* The previous value of each policy.
LEMMA PreviousType ==
    /\ \A policy \in TrackPolicies : TrackPrevious(policy) \in PreviousValues
    /\ \A policy \in UntrackPolicies : UntrackPrevious(policy) \in PreviousValues
    /\ \A c \in Config : PreviousMatches(c) \in PreviousValues
    /\ PreviousAny \in PreviousValues
    /\ PreviousMustNotExist \in PreviousValues
  BY DEF TrackPolicies, UntrackPolicies, TrackPrevious, UntrackPrevious, PreviousValues

\* Sequences over a set put together are one.
LEMMA ConcatType ==
    ASSUME NEW S, NEW s \in Seq(S), NEW t \in Seq(S)
    PROVE  s \o t \in Seq(S)
  OBVIOUS

\* What fuse leaves of the actions on an entry becomes well-typed updates,
\* provided no action must find an entry that is not there.
LEMMA EntryUpdatesType ==
    ASSUME NEW r \in Seq(Actions), NEW n \in Name, refs \in [Name -> Entry],
           refs[n] = None => \A i \in 1..Len(r) : r[i].policy # "must_exist"
    PROVE  EntryUpdates(r, n) \in Seq(Updates)
<1>1. ASSUME NEW i \in 1..Len(r)
      PROVE  Update(n, IF r[i].kind = "track" THEN r[i].config ELSE None,
                    ActionPrevious(r[i], refs[n])) \in Updates
  <2>1. r[i] \in Actions
    BY SMTT(30), <1>1
  <2>2. (IF r[i].kind = "track" THEN r[i].config ELSE None) \in Entry
    BY <2>1 DEF Actions, TrackActions, UntrackActions, Entry
  <2>3. r[i].policy \in TrackPolicies
    BY <2>1 DEF Actions, TrackActions, UntrackActions, TrackPolicies, UntrackPolicies
  <2>4. r[i].policy = "must_exist" => refs[n] \in Config
    BY <1>1 DEF Entry
  <2>5. ActionPrevious(r[i], refs[n]) \in PreviousValues
    BY <2>3, <2>4, PreviousType DEF ActionPrevious, TrackPolicies
  <2> QED BY <2>2, <2>5, UpdateType
<1>2. Len(r) \in Nat
  OBVIOUS
<1> QED BY SMTT(30), <1>1, <1>2 DEF EntryUpdates

\* Every ordering of a set of entries is a sequence of its elements.
LEMMA OrderingType ==
    ASSUME NEW S \in SUBSET Name, NEW s \in Listings(S)
    PROVE  /\ Len(s) \in Nat
           /\ \A i \in 1..Len(s) : s[i] \in S
<1>1. IsFiniteSet(S)
  BY NamesAssumption, FS_Subset
<1>2. Cardinality(S) \in Nat
  BY <1>1, FS_CardinalityType
<1>3. s \in [1..Cardinality(S) -> S]
  BY DEF Listings
<1>4. s \in Seq(S)
  BY <1>2, <1>3
<1> QED BY <1>4

-----------------------------------------------------------------------------
\* The types hold at the start.
LEMMA InitType == Init => TypeOK
<1> SUFFICES ASSUME Init PROVE TypeOK
  OBVIOUS
<1>1. << >> \in Seq(Updates)
  OBVIOUS
<1>2. 0 \in 0..Len(NameOrder) /\ 0 \in 0..MaxCalls /\ 0 \in 0..MaxCrashes
  BY NamesAssumption, BoundsAssumption
<1> QED BY <1>1, <1>2, TrackedAssumption DEF Init, TypeOK

\* The types are preserved by every step.
LEMMA NextType == TypeOK /\ Working /\ Checking /\ [Next]_vars => TypeOK'
<1> SUFFICES ASSUME TypeOK, Working, Checking, [Next]_vars PROVE TypeOK'
  OBVIOUS
<1>1. ASSUME NEW p \in Proc, NEW c \in Calls, Start(p, c) PROVE TypeOK'
  <2>1. todo' \in [Proc -> Seq(Updates)]
    <3>1. CASE c.fn = "track"
      <4>1. Update(c.name, c.config, TrackPrevious(c.policy)) \in Updates
        BY <3>1, CallsAssumption, PreviousType, UpdateType DEF Entry
      <4>2. <<Update(c.name, c.config, TrackPrevious(c.policy))>> \in Seq(Updates)
        BY <4>1
      <4> QED BY <1>1, <3>1, <4>2 DEF Start, TypeOK
    <3>2. CASE c.fn = "untrack"
      <4>1. Update(c.name, None, UntrackPrevious(c.policy)) \in Updates
        BY Zenon, <3>2, CallsAssumption, PreviousType, UpdateType DEF Entry
      <4>2. <<Update(c.name, None, UntrackPrevious(c.policy))>> \in Seq(Updates)
        BY <4>1
      <4> QED BY <1>1, <3>2, <4>2 DEF Start, TypeOK
    <3>3. CASE c.fn \notin {"track", "untrack"}
      <4>1. << >> \in Seq(Updates)
        OBVIOUS
      <4> QED BY <1>1, <3>3, <4>1 DEF Start, TypeOK
    <3> QED BY <3>1, <3>2, <3>3
  <2>2. made' \in 0..MaxCalls
    BY <1>1, BoundsAssumption DEF Start, TypeOK
  <2> QED BY <1>1, <2>1, <2>2 DEF Start, TypeOK
<1>2. ASSUME NEW p \in Proc, ReadForModify(p) PROVE TypeOK'
  <2> DEFINE n == call[p].name
  <2>1. CASE refs[n] = None
    <3>1. Finish(p, "error")
      BY <1>2, <2>1 DEF ReadForModify
    <3>2. CallStateOK'
      BY Zenon, <3>1, FinishType DEF Outcomes
    <3> QED BY Zenon, <1>2, <3>2 DEF ReadForModify, TypeOK, CallStateOK, PcValues, Outcomes
  <2>2. CASE refs[n] # None
    <3>1. Begin(p, <<Update(n, Modifier[refs[n]], PreviousMatches(refs[n]))>>)
      BY Zenon, <1>2, <2>2 DEF ReadForModify
    <3>2. n \in Name
      BY Zenon, <1>2, CallsAssumption DEF ReadForModify, Working
    <3>3. refs[n] \in Config
      BY SMTT(30), <2>2, <3>2 DEF TypeOK, Entry
    <3>4. Update(n, Modifier[refs[n]], PreviousMatches(refs[n])) \in Updates
      BY <3>2, <3>3, ModifierAssumption, PreviousType, UpdateType DEF Entry
    <3>5. CallStateOK'
      <4>1. <<Update(n, Modifier[refs[n]], PreviousMatches(refs[n]))>> \in Seq(Updates)
        BY SMTT(30), <3>4
      <4> QED BY Zenon, <3>1, <4>1, BeginType
    <3> QED BY <1>2, <3>5 DEF ReadForModify, TypeOK, CallStateOK, PcValues, Outcomes
  <2> QED BY Zenon, <2>1, <2>2
<1>3. ASSUME NEW p \in Proc, ReadForUntrackAll(p) PROVE TypeOK'
  <2> DEFINE S == {n \in Name : refs[n] # None}
             Deletions(s) == [i \in 1..Len(s) |->
                                 Update(s[i], None, IF call[p].policy = "any" THEN PreviousAny
                                                    ELSE PreviousMatches(refs[s[i]]))]
  <2>1. PICK s \in Listings(S) : Begin(p, Deletions(s))
    BY Zenon, <1>3 DEF ReadForUntrackAll
  <2>2. Len(s) \in Nat /\ \A i \in 1..Len(s) : s[i] \in S
    BY OrderingType
  <2>3. ASSUME NEW i \in 1..Len(s)
        PROVE  Update(s[i], None, IF call[p].policy = "any" THEN PreviousAny
                                  ELSE PreviousMatches(refs[s[i]])) \in Updates
    <3>1. s[i] \in Name /\ refs[s[i]] \in Config
      BY Zenon, <2>2, <2>3 DEF TypeOK, Entry
    <3>2. (IF call[p].policy = "any" THEN PreviousAny ELSE PreviousMatches(refs[s[i]]))
              \in PreviousValues
      BY Zenon, <3>1, PreviousType
    <3> QED BY Zenon, <3>1, <3>2, UpdateType DEF Entry
  <2>4. Deletions(s) \in Seq(Updates)
    BY SMTT(30), <2>2, <2>3
  <2>5. CallStateOK'
    BY Zenon, <2>1, <2>4, BeginType
  <2> QED BY <1>3, <2>5 DEF ReadForUntrackAll, TypeOK, CallStateOK, PcValues, Outcomes
<1>4. ASSUME NEW p \in Proc, IntoUpdates(p) PROVE TypeOK'
  <2>1. CASE pending[p] = Len(NameOrder)
    <3>1. Begin(p, todo[p])
      BY Zenon, <1>4, <2>1 DEF IntoUpdates
    <3>2. CallStateOK'
      <4>1. todo[p] \in Seq(Updates)
        BY DEF TypeOK
      <4> QED BY Zenon, <3>1, <4>1, BeginType
    <3> QED BY ZenonT(40), <1>4, <3>2 DEF IntoUpdates, TypeOK, CallStateOK, PcValues, Outcomes
  <2>2. CASE pending[p] # Len(NameOrder)
    <3> DEFINE n == NameOrder[pending[p] + 1]
               r == FuseEntry(call[p].actions, n)
               Misses == refs[n] = None /\ \E i \in 1..Len(r) : r[i].policy = "must_exist"
    <3>1. CASE Misses
      <4>1. Finish(p, "error")
        BY Zenon, <1>4, <2>2, <3>1 DEF IntoUpdates
      <4>2. CallStateOK'
        BY <4>1, FinishType DEF Outcomes
      <4> QED BY ZenonT(40), <1>4, <4>2 DEF IntoUpdates, TypeOK, CallStateOK, PcValues, Outcomes
    <3>2. CASE ~ Misses
      <4>1. /\ todo' = [todo EXCEPT ![p] = @ \o EntryUpdates(r, n)]
            /\ pending' = [pending EXCEPT ![p] = @ + 1]
            /\ UNCHANGED <<pc, owner, staged, outcome>>
        BY ZenonT(40), <1>4, <2>2, <3>2 DEF IntoUpdates
      <4>2. pending[p] \in 0..Len(NameOrder) /\ Len(NameOrder) \in Nat
        BY NamesAssumption DEF TypeOK
      <4>3. pending[p] + 1 \in 1..Len(NameOrder) /\ pending[p] + 1 \in 0..Len(NameOrder)
        BY <2>2, <4>2
      <4>4. n \in Name
        BY <4>3, NamesAssumption
      <4>5. r \in Seq(Actions)
        <5>1. call[p].actions \in Seq(BatchActions)
          BY <1>4, CallsAssumption, Zenon DEF IntoUpdates, Working
        <5> QED BY <4>4, <5>1, FuseEntryType, Zenon
      <4>6. EntryUpdates(r, n) \in Seq(Updates)
        BY ZenonT(40), <3>2, <4>4, <4>5, EntryUpdatesType DEF TypeOK
      <4>7. todo[p] \in Seq(Updates)
        BY DEF TypeOK
      <4>8. todo[p] \o EntryUpdates(r, n) \in Seq(Updates)
        BY <4>6, <4>7, ConcatType, Zenon
      <4>9. todo' \in [Proc -> Seq(Updates)]
        BY Zenon, <4>1, <4>8 DEF TypeOK
      <4>10. pending' \in [Proc -> 0..Len(NameOrder)]
        BY Zenon, <4>1, <4>3 DEF TypeOK
      <4> QED BY <1>4, <4>1, <4>9, <4>10, Zenon DEF IntoUpdates, TypeOK
    <3> QED BY <3>1, <3>2, Zenon
  <2> QED BY <2>1, <2>2
<1>5. ASSUME NEW p \in Proc, LockRef(p) PROVE TypeOK'
  <2> DEFINE n == Head(todo[p]).name
  <2>1. CASE owner[n] # None
    <3>1. Finish(p, "error")
      BY <1>5, <2>1 DEF LockRef
    <3>2. CallStateOK'
      BY <3>1, FinishType DEF Outcomes
    <3> QED BY Zenon, <1>5, <3>2 DEF LockRef, TypeOK, CallStateOK, PcValues, Outcomes
  <2>2. CASE owner[n] = None
    BY <1>5, <2>2, ZenonT(60) DEF LockRef, TypeOK
  <2> QED BY <2>1, <2>2
<1>6. ASSUME NEW p \in Proc, CheckRef(p) PROVE TypeOK'
  <2>1. todo[p] \in Seq(Updates)
    BY DEF TypeOK
  <2>2. Head(todo[p]) \in Updates /\ Tail(todo[p]) \in Seq(Updates)
    BY SMTT(30), <1>6, <2>1 DEF CheckRef, Checking
  <2>3. todo' \in [Proc -> Seq(Updates)]
    BY Zenon, <1>6, <2>2 DEF CheckRef, TypeOK
  <2>4. staged' \in [Proc -> SUBSET Updates]
    BY Zenon, <1>6, <2>2 DEF CheckRef, TypeOK
  <2>5. rejected' \in [Proc -> BOOLEAN]
    BY Zenon, <1>6 DEF CheckRef, TypeOK
  <2>6. pc' \in [Proc -> PcValues]
    BY Zenon, <1>6 DEF CheckRef, TypeOK, PcValues
  <2> QED BY Zenon, <1>6, <2>3, <2>4, <2>5, <2>6 DEF CheckRef, TypeOK, PcValues
<1>7. ASSUME NEW p \in Proc, Commit(p) PROVE TypeOK'
  BY Zenon, <1>7 DEF Commit, TypeOK
<1>8. ASSUME NEW p \in Proc, NEW n \in Name, CommitRef(p, n) PROVE TypeOK'
  <2>1. owner' \in [Name -> Proc \cup {None}]
    BY Zenon, <1>8 DEF CommitRef, TypeOK
  <2>2. ASSUME NEW u \in staged[p], u.name = n, refs' = [refs EXCEPT ![n] = u.target],
               staged' = [staged EXCEPT ![p] = {v \in @ : v.name # n}],
               wrote' = [wrote EXCEPT ![p] = @ \cup {n}]
        PROVE  TypeOK'
    <3>1. u.target \in Entry
      BY StagedType, Zenon
    <3>2. refs' \in [Name -> Entry]
      BY Zenon, <2>2, <3>1 DEF TypeOK
    <3>3. {v \in staged[p] : v.name # n} \in SUBSET Updates
      BY DEF TypeOK
    <3>4. staged' \in [Proc -> SUBSET Updates]
      BY Zenon, <2>2, <3>3 DEF TypeOK
    <3>5. wrote' \in [Proc -> SUBSET Name]
      BY <2>2 DEF TypeOK
    <3> QED BY Zenon, <1>8, <2>1, <3>2, <3>4, <3>5 DEF CommitRef, TypeOK
  <2>3. CASE UNCHANGED <<refs, staged, wrote>>
    BY Zenon, <1>8, <2>1, <2>3 DEF CommitRef, TypeOK
  <2> QED BY Zenon, <1>8, <2>2, <2>3 DEF CommitRef
<1>9. ASSUME NEW p \in Proc, Prune(p) PROVE TypeOK'
  <2>1. \E result \in Outcomes : Finish(p, result)
    BY <1>9 DEF Prune, Result, Outcomes
  <2>2. CallStateOK'
    BY Zenon, <2>1, FinishType
  <2>3. data' \subseteq Name \cup {Own}
    BY Zenon, <1>9 DEF Prune, TypeOK
  <2> QED BY Zenon, <1>9, <2>2, <2>3 DEF Prune, TypeOK, CallStateOK, PcValues, Outcomes
<1>10. ASSUME NEW p \in Proc, Return(p) PROVE TypeOK'
  <2>1. \E result \in Outcomes : Finish(p, result)
    BY Zenon, <1>10 DEF Return, Result, Outcomes
  <2>2. CallStateOK'
    BY <2>1, FinishType
  <2> QED BY <1>10, <2>2 DEF Return, TypeOK, CallStateOK, PcValues, Outcomes
<1>11. ASSUME NEW p \in Proc, Crash(p) PROVE TypeOK'
  <2>1. << >> \in Seq(Updates) /\ 0 \in 0..Len(NameOrder)
    BY SMTT(30), NamesAssumption
  <2>2. crashes' \in 0..MaxCrashes
    BY SMTT(30), <1>11, BoundsAssumption DEF Crash, TypeOK
  <2> QED BY <1>11, <2>1, <2>2 DEF Crash, TypeOK
<1>12. CASE UNCHANGED vars
  BY <1>12 DEF vars, TypeOK
<1> QED
  BY Zenon, <1>1, <1>2, <1>3, <1>4, <1>5, <1>6, <1>7, <1>8, <1>9, <1>10, <1>11, <1>12 DEF Next, Proceed

-----------------------------------------------------------------------------
\* The inductive invariant.
IInv == TypeOK /\ Working /\ Checking /\ GuardsHold /\ LocksAreReleased

\* It holds at the start.
LEMMA InitIInv == Init => IInv
<1> SUFFICES ASSUME Init PROVE IInv
  OBVIOUS
<1>1. TypeOK
  BY Zenon, InitType
<1>2. Working /\ Checking /\ GuardsHold
  BY DEF Init, Working, Checking, GuardsHold
<1>3. LocksAreReleased
  BY DEF Init, LocksAreReleased
<1> QED BY <1>1, <1>2, <1>3 DEF IInv

\* Returning from a call keeps it.
LEMMA FinishKeeps ==
    ASSUME IInv, NEW p \in Proc, NEW result, Finish(p, result), UNCHANGED <<refs, call>>
    PROVE  Working' /\ Checking' /\ GuardsHold' /\ LocksAreReleased'
<1> USE DEF IInv
<1>1. ASSUME NEW q \in Proc, q # p
      PROVE  pc'[q] = pc[q] /\ todo'[q] = todo[q] /\ staged'[q] = staged[q]
  BY Zenon, <1>1 DEF Finish, TypeOK
<1>2. pc'[p] = "idle" /\ todo'[p] = << >> /\ staged'[p] = {}
  BY DEF Finish, TypeOK
<1>3. \A n \in Name : owner'[n] = IF owner[n] = p THEN None ELSE owner[n]
  BY DEF Finish
<1>4. Working'
  BY Zenon, <1>1, <1>2 DEF Working
<1>5. Checking'
  <2> SUFFICES ASSUME NEW q \in Proc, pc'[q] = "check"
               PROVE  /\ todo'[q] # << >>
                      /\ owner'[Head(todo'[q]).name] = q
                      /\ \A u \in staged'[q] : u.name # Head(todo'[q]).name
    BY DEF Checking
  <2>1. q # p /\ pc[q] = "check" /\ todo'[q] = todo[q] /\ staged'[q] = staged[q]
    BY Zenon, <1>1, <1>2
  <2>2. todo[q] \in Seq(Updates) /\ todo[q] # << >>
    BY Zenon, <2>1 DEF TypeOK, Checking
  <2>3. Head(todo[q]).name \in Name
    BY Zenon, <2>2, HeadType
  <2> QED BY SMTT(30), <1>3, <2>1, <2>3 DEF Checking
<1>6. GuardsHold'
  <2> SUFFICES ASSUME NEW q \in Proc, NEW u \in staged'[q]
               PROVE  owner'[u.name] = q /\ Guard(u.previous, refs'[u.name])
    BY DEF GuardsHold
  <2>1. q # p /\ u \in staged[q]
    BY <1>1, <1>2
  <2>2. u.name \in Name
    BY <2>1, StagedType, Zenon
  <2> QED BY Zenon, <1>3, <2>1, <2>2 DEF GuardsHold
<1>7. LocksAreReleased'
  <2> SUFFICES ASSUME NEW n \in Name, owner'[n] # None
               PROVE  pc'[owner'[n]] \in {"lock", "check", "commit", "crashed"}
    BY Zenon DEF LocksAreReleased
  <2>1. owner'[n] = owner[n] /\ owner[n] # p /\ owner[n] \in Proc
    BY <1>3 DEF TypeOK
  <2> QED BY Zenon, <1>1, <2>1 DEF LocksAreReleased
<1> QED BY Zenon, <1>4, <1>5, <1>6, <1>7

\* A step that takes no lock and stages nothing, of a process that is not
\* idle, not crashed and not checking before or after, keeps it.
LEMMA OutsideKeeps ==
    ASSUME IInv, NEW p \in Proc, pc[p] \in {"idle", "read", "lock"},
           UNCHANGED <<refs, owner, staged>>, call'[p] \in Calls,
           \A q \in Proc \ {p} : pc'[q] = pc[q] /\ todo'[q] = todo[q] /\ call'[q] = call[q],
           pc'[p] \in {"read", "lock", "commit"},
           pc'[p] = "read" => staged[p] = {},
           pc[p] # "idle" => pc'[p] = pc[p] \/ pc'[p] \in {"lock", "commit"},
           pc[p] = "lock" => pc'[p] # "read"
    PROVE  Working' /\ Checking' /\ GuardsHold' /\ LocksAreReleased'
<1> USE DEF IInv
<1>1. Working'
  BY Zenon DEF Working
<1>2. Checking'
  BY SMTT(30) DEF Checking
<1>3. GuardsHold'
  BY DEF GuardsHold
<1>4. LocksAreReleased'
  BY ZenonT(60) DEF LocksAreReleased, TypeOK
<1> QED BY Zenon, <1>1, <1>2, <1>3, <1>4

\* It is preserved by every step.
LEMMA NextIInv == IInv /\ [Next]_vars => IInv'
<1> SUFFICES ASSUME IInv, [Next]_vars PROVE IInv'
  OBVIOUS
<1> USE DEF IInv
<1>0. TypeOK'
  BY NextType
<1>1. ASSUME NEW p \in Proc, NEW c \in Calls, Start(p, c) PROVE IInv'
  <2>1. pc[p] = "idle" /\ pc'[p] \in {"read", "lock"} /\ call'[p] = c
    BY <1>1 DEF Start, TypeOK
  <2>2. \A q \in Proc \ {p} : pc'[q] = pc[q] /\ todo'[q] = todo[q] /\ call'[q] = call[q]
    BY <1>1 DEF Start, TypeOK
  <2>3. staged[p] = {} /\ UNCHANGED <<refs, owner, staged>>
    BY <1>1, <2>1 DEF Start, Working
  <2> QED BY <1>0, <2>1, <2>2, <2>3, OutsideKeeps, Zenon
<1>2. ASSUME NEW p \in Proc, NEW us, pc[p] = "read", Begin(p, us), UNCHANGED <<refs, call>>
      PROVE  IInv'
  <2>1. pc'[p] = "lock" /\ call'[p] \in Calls
    BY Zenon, <1>2 DEF Begin, TypeOK, Working
  <2>2. \A q \in Proc \ {p} : pc'[q] = pc[q] /\ todo'[q] = todo[q] /\ call'[q] = call[q]
    BY <1>2 DEF Begin, TypeOK
  <2>3. UNCHANGED <<refs, owner, staged>>
    BY Zenon, <1>2 DEF Begin
  <2> QED BY <1>0, <1>2, <2>1, <2>2, <2>3, OutsideKeeps, ZenonT(40)
<1>3. ASSUME NEW p \in Proc, NEW result, Finish(p, result), UNCHANGED <<refs, call>>
      PROVE  IInv'
  BY <1>0, <1>3, FinishKeeps
<1>4. ASSUME NEW p \in Proc, ReadForModify(p) PROVE IInv'
  <2>1. \/ Finish(p, "error")
        \/ \E us : Begin(p, us)
    BY Zenon, <1>4 DEF ReadForModify
  <2>2. pc[p] = "read" /\ UNCHANGED <<refs, call>>
    BY <1>4 DEF ReadForModify
  <2> QED BY Zenon, <1>2, <1>3, <2>1, <2>2
<1>5. ASSUME NEW p \in Proc, ReadForUntrackAll(p) PROVE IInv'
  <2>1. \E us : Begin(p, us)
    BY Zenon, <1>5 DEF ReadForUntrackAll
  <2>2. pc[p] = "read" /\ UNCHANGED <<refs, call>>
    BY Zenon, <1>5 DEF ReadForUntrackAll
  <2> QED BY Zenon, <1>2, <2>1, <2>2
<1>6. ASSUME NEW p \in Proc, IntoUpdates(p) PROVE IInv'
  <2>1. pc[p] = "read" /\ UNCHANGED <<refs, call>>
    BY <1>6, Zenon DEF IntoUpdates
  <2>2. \/ Begin(p, todo[p])
        \/ Finish(p, "error")
        \/ /\ UNCHANGED <<pc, owner, staged>>
           /\ \E us : todo' = [todo EXCEPT ![p] = us]
    BY <1>6, ZenonT(60) DEF IntoUpdates
  <2>3. ASSUME UNCHANGED <<pc, owner, staged>>, NEW us, todo' = [todo EXCEPT ![p] = us]
        PROVE  IInv'
    <3>1. \A q \in Proc \ {p} : pc'[q] = pc[q] /\ todo'[q] = todo[q] /\ call'[q] = call[q]
      BY <2>1, <2>3 DEF TypeOK
    <3>2. pc'[p] = "read" /\ staged[p] = {} /\ call'[p] \in Calls
      BY <2>1, <2>3, ZenonT(40) DEF Working
    <3> QED BY <1>0, <2>1, <2>3, <3>1, <3>2, OutsideKeeps, ZenonT(40)
  <2> QED BY <1>2, <1>3, <2>1, <2>2, <2>3
<1>7. ASSUME NEW p \in Proc, LockRef(p) PROVE IInv'
  <2> DEFINE n == Head(todo[p]).name
  <2>1. n \in Name
    BY <1>7, HeadType, Zenon DEF LockRef, TypeOK
  <2>2. CASE owner[n] # None
    <3>1. Finish(p, "error") /\ UNCHANGED <<refs, call>>
      BY <1>7, <2>2, Zenon DEF LockRef
    <3> QED BY <1>3, <3>1
  <2>3. CASE owner[n] = None
    <3>1. /\ pc[p] = "lock" /\ todo[p] # << >>
          /\ owner' = [owner EXCEPT ![n] = p]
          /\ pc' = [pc EXCEPT ![p] = "check"]
          /\ UNCHANGED <<refs, call, todo, staged>>
      BY <1>7, <2>3, ZenonT(40) DEF LockRef
    <3>2. owner'[n] = p /\ \A k \in Name \ {n} : owner'[k] = owner[k]
      BY Zenon, <2>1, <3>1 DEF TypeOK
    <3>3. pc'[p] = "check" /\ \A q \in Proc \ {p} : pc'[q] = pc[q]
      BY <3>1 DEF TypeOK
    <3>4. \A q \in Proc : \A u \in staged[q] : u.name \in Name /\ u.name # n
      <4> SUFFICES ASSUME NEW q \in Proc, NEW u \in staged[q]
                   PROVE  u.name \in Name /\ u.name # n
        OBVIOUS
      <4>1. u.name \in Name
        BY StagedType, Zenon
      <4>2. owner[u.name] = q
        BY Zenon DEF GuardsHold
      <4> QED BY Zenon, <2>3, <4>1, <4>2, NobodyAssumption
    <3>5. Working'
      BY <3>1, <3>3 DEF Working
    <3>6. Checking'
      <4> SUFFICES ASSUME NEW q \in Proc, pc'[q] = "check"
                   PROVE  /\ todo[q] # << >>
                          /\ owner'[Head(todo[q]).name] = q
                          /\ \A u \in staged[q] : u.name # Head(todo[q]).name
        BY <3>1, ZenonT(40) DEF Checking
      <4>1. CASE q = p
        BY Zenon, <3>1, <3>2, <3>4, <4>1
      <4>2. CASE q # p
        <5>1. pc[q] = "check" /\ todo[q] # << >> /\ todo[q] \in Seq(Updates)
          BY Zenon, <3>3, <4>2 DEF Checking, TypeOK
        <5>2. Head(todo[q]).name \in Name /\ owner[Head(todo[q]).name] = q
          BY <5>1, HeadType DEF Checking
        <5>3. Head(todo[q]).name # n
          BY Zenon, <2>3, <5>2, NobodyAssumption
        <5> QED BY Zenon, <3>2, <5>1, <5>2, <5>3 DEF Checking
      <4> QED BY <4>1, <4>2, ZenonT(40)
    <3>7. GuardsHold'
      BY ZenonT(40), <3>1, <3>2, <3>4 DEF GuardsHold
    <3>8. LocksAreReleased'
      BY SMTT(30), <3>1, <3>2, <3>3 DEF LocksAreReleased, TypeOK
    <3> QED BY <1>0, <3>5, <3>6, <3>7, <3>8
  <2> QED BY <2>2, <2>3
<1>8. ASSUME NEW p \in Proc, CheckRef(p) PROVE IInv'
  <2> DEFINE h == Head(todo[p])
  <2>1. /\ pc[p] = "check" /\ UNCHANGED <<refs, owner, call>>
        /\ pc'[p] = "lock" /\ \A q \in Proc \ {p} : pc'[q] = pc[q] /\ todo'[q] = todo[q]
    BY <1>8 DEF CheckRef, TypeOK
  <2>2. \A q \in Proc \ {p} : staged'[q] = staged[q]
    BY Zenon, <1>8 DEF CheckRef, TypeOK
  <2>3. \A u \in staged'[p] : u \in staged[p] \/ (u = h /\ Accepted(h))
    BY <1>8 DEF CheckRef, TypeOK
  <2>4. owner[h.name] = p
    BY <2>1 DEF Checking
  <2>5. Working'
    BY Zenon, <2>1, <2>2 DEF Working
  <2>6. Checking'
    BY SMTT(30), <2>1, <2>2 DEF Checking
  <2>7. GuardsHold'
    BY <2>1, <2>2, <2>3, <2>4 DEF GuardsHold, Accepted
  <2>8. LocksAreReleased'
    BY <2>1, ZenonT(60) DEF LocksAreReleased, TypeOK
  <2> QED BY <1>0, <2>5, <2>6, <2>7, <2>8
<1>9. ASSUME NEW p \in Proc, Commit(p) PROVE IInv'
  <2>1. pc[p] = "lock" /\ pc'[p] = "commit" /\ UNCHANGED <<refs, owner, staged, call, todo>>
    BY <1>9 DEF Commit, TypeOK
  <2>2. \A q \in Proc \ {p} : pc'[q] = pc[q] /\ todo'[q] = todo[q] /\ call'[q] = call[q]
    BY Zenon, <1>9 DEF Commit, TypeOK
  <2>3. call'[p] \in Calls
    BY <2>1 DEF Working
  <2> QED BY Zenon, <1>0, <2>1, <2>2, <2>3, OutsideKeeps
<1>10. ASSUME NEW p \in Proc, NEW n \in Name, CommitRef(p, n) PROVE IInv'
  <2>1. /\ pc[p] = "commit" /\ owner[n] = p
        /\ owner'[n] = None /\ \A k \in Name \ {n} : owner'[k] = owner[k]
        /\ UNCHANGED <<pc, call, todo>>
    BY Zenon, <1>10 DEF CommitRef, TypeOK
  <2>2. \A q \in Proc \ {p} : staged'[q] = staged[q]
    BY Zenon, <1>10 DEF CommitRef, TypeOK
  <2>3. \A u \in staged'[p] : u \in staged[p] /\ u.name # n
    BY SMTT(30), <1>10 DEF CommitRef, TypeOK
  <2>4. \A k \in Name \ {n} : refs'[k] = refs[k]
    BY <1>10 DEF CommitRef, TypeOK
  <2>5. \A q \in Proc : \A u \in staged'[q] : u \in staged[q] /\ u.name \in Name \ {n}
    <3> SUFFICES ASSUME NEW q \in Proc, NEW u \in staged'[q]
                 PROVE  u \in staged[q] /\ u.name \in Name \ {n}
      OBVIOUS
    <3>1. u \in staged[q]
      BY <2>2, <2>3
    <3>2. u.name \in Name
      BY <3>1, StagedType, Zenon
    <3>3. u.name # n
      <4>1. CASE q = p
        BY <2>3, <4>1
      <4>2. CASE q # p
        <5>1. owner[u.name] = q
          BY <3>1 DEF GuardsHold
        <5> QED BY Zenon, <2>1, <4>2, <5>1
      <4> QED BY <4>1, <4>2
    <3> QED BY Zenon, <3>1, <3>2, <3>3
  <2>6. Working'
    BY <2>1, <2>5, ZenonT(40) DEF Working
  <2>7. Checking'
    <3> SUFFICES ASSUME NEW q \in Proc, pc[q] = "check"
                 PROVE  /\ todo[q] # << >>
                        /\ owner'[Head(todo[q]).name] = q
                        /\ \A u \in staged'[q] : u.name # Head(todo[q]).name
      BY <2>1, ZenonT(40) DEF Checking
    <3>1. q # p /\ todo[q] # << >> /\ todo[q] \in Seq(Updates)
      BY <2>1, ZenonT(40) DEF Checking, TypeOK
    <3>2. Head(todo[q]).name \in Name /\ owner[Head(todo[q]).name] = q
      BY <3>1, HeadType, ZenonT(40) DEF Checking
    <3> QED BY <2>1, <2>2, <3>1, <3>2, ZenonT(40) DEF Checking
  <2>8. GuardsHold'
    BY <2>1, <2>4, <2>5, ZenonT(40) DEF GuardsHold
  <2>9. LocksAreReleased'
    BY <2>1 DEF LocksAreReleased
  <2> QED BY Zenon, <1>0, <2>6, <2>7, <2>8, <2>9
<1>11. ASSUME NEW p \in Proc, Prune(p) PROVE IInv'
  <2>1. (\E result : Finish(p, result)) /\ UNCHANGED <<refs, call>>
    BY <1>11, Zenon DEF Prune
  <2> QED BY Zenon, <1>3, <2>1
<1>12. ASSUME NEW p \in Proc, Return(p) PROVE IInv'
  <2>1. (\E result : Finish(p, result)) /\ UNCHANGED <<refs, call>>
    BY Zenon, <1>12 DEF Return
  <2> QED BY <1>3, <2>1
<1>13. ASSUME NEW p \in Proc, Crash(p) PROVE IInv'
  <2>1. /\ pc[p] # "idle" /\ pc'[p] = "crashed" /\ todo'[p] = << >> /\ staged'[p] = {}
        /\ UNCHANGED <<refs, owner, call>>
    BY Zenon, <1>13 DEF Crash, TypeOK
  <2>2. \A q \in Proc \ {p} :
            pc'[q] = pc[q] /\ todo'[q] = todo[q] /\ staged'[q] = staged[q]
    BY <1>13 DEF Crash, TypeOK
  <2>3. Working'
    BY Zenon, <2>1, <2>2 DEF Working
  <2>4. Checking'
    BY SMTT(30), <2>1, <2>2 DEF Checking
  <2>5. GuardsHold'
    BY <2>1, <2>2 DEF GuardsHold
  <2>6. LocksAreReleased'
    BY <2>1, <2>2, ZenonT(60) DEF LocksAreReleased, TypeOK
  <2> QED BY <1>0, <2>3, <2>4, <2>5, <2>6
<1>14. CASE UNCHANGED vars
  <2>1. UNCHANGED <<refs, owner, pc, call, todo, staged>>
    BY <1>14 DEF vars
  <2> QED BY <1>0, <2>1 DEF Working, Checking, GuardsHold, LocksAreReleased
<1> QED
  BY Zenon, <1>1, <1>4, <1>5, <1>6, <1>7, <1>8, <1>9, <1>10, <1>11, <1>12, <1>13, <1>14 DEF Next, Proceed

\* Every policy is decided against the entry that is replaced.
THEOREM GuardsHoldAtCommit == Spec => []GuardsHold
<1>1. IInv => GuardsHold
  BY DEF IInv
<1> QED BY <1>1, InitIInv, NextIInv, PTL DEF Spec

\* A lock is held only by a call that is inside its transaction, or by a
\* process that crashed there.
THEOREM NoLockLeaks == Spec => []LocksAreReleased
<1>1. IInv => LocksAreReleased
  BY DEF IInv
<1> QED BY <1>1, InitIInv, NextIInv, PTL DEF Spec

\* The types hold throughout.
THEOREM TypeCorrect == Spec => []TypeOK
<1>1. IInv => TypeOK
  BY DEF IInv
<1> QED BY <1>1, InitIInv, NextIInv, PTL DEF Spec

-----------------------------------------------------------------------------
\* What a process has yet to do is part of what it had to do: the steps of a
\* transaction, of a return or of a crash only take away from it.
Lessens(p) ==
    /\ UNCHANGED call
    /\ \A u \in staged'[p] : u \in staged[p] \/ (todo[p] # << >> /\ u = Head(todo[p]))
    /\ \/ todo'[p] = todo[p]
       \/ todo'[p] = << >>
       \/ todo[p] # << >> /\ todo'[p] = Tail(todo[p])

\* What one process has yet to write, if it is running modify.
ModifyingOne(p) ==
    call[p].fn = "modify" =>
        /\ \A u \in staged[p] :
               \E c \in Config : u.previous = PreviousMatches(c) /\ u.target = Modifier[c]
        /\ todo[p] # << >> =>
               /\ Tail(todo[p]) = << >>
               /\ \E c \in Config : /\ Head(todo[p]).previous = PreviousMatches(c)
                                   /\ Head(todo[p]).target = Modifier[c]

\* Taking away keeps what modify has yet to write.
LEMMA LessensKeeps ==
    ASSUME NEW p \in Proc, ModifyingOne(p), Lessens(p)
    PROVE  ModifyingOne(p)'
<1> SUFFICES ASSUME call[p].fn = "modify" PROVE ModifyingOne(p)'
  BY Zenon DEF ModifyingOne, Lessens
<1>1. \A u \in staged'[p] :
          \E c \in Config : u.previous = PreviousMatches(c) /\ u.target = Modifier[c]
  BY DEF ModifyingOne, Lessens
<1>2. todo'[p] # << >> => todo'[p] = todo[p]
  BY ZenonT(60) DEF ModifyingOne, Lessens
<1> QED BY <1>1, <1>2, ZenonT(40) DEF ModifyingOne, Lessens

\* A step leaves alone the updates of every process but the one that takes it,
\* and those only lessen once they are made.
LEMMA NextModifying ==
    IInv /\ (\A p \in Proc : ModifyingOne(p)) /\ [Next]_vars
        => (\A p \in Proc : ModifyingOne(p))'
<1> SUFFICES ASSUME IInv, \A p \in Proc : ModifyingOne(p), [Next]_vars, NEW q \in Proc
             PROVE  ModifyingOne(q)'
  BY Zenon
<1> USE DEF IInv
<1>0. ASSUME call'[q] = call[q], todo'[q] = todo[q], staged'[q] = staged[q]
      PROVE  ModifyingOne(q)'
  BY <1>0 DEF ModifyingOne
<1>1. ASSUME NEW p \in Proc, NEW c \in Calls, Start(p, c) PROVE ModifyingOne(q)'
  <2>1. CASE q # p
    BY Zenon, <1>0, <1>1, <2>1 DEF Start, TypeOK
  <2>2. CASE q = p
    <3>1. staged'[q] = {} /\ call'[q] = c
      BY <1>1, <2>2 DEF Start, Working, TypeOK
    <3>2. c.fn = "modify" => todo'[q] = << >>
      BY <1>1, <2>2 DEF Start, TypeOK
    <3> QED BY <3>1, <3>2 DEF ModifyingOne
  <2> QED BY <2>1, <2>2
<1>2. ASSUME NEW p \in Proc, NEW result, Finish(p, result), UNCHANGED call
      PROVE  ModifyingOne(q)'
  <2>1. CASE q # p
    BY <1>0, <1>2, <2>1 DEF Finish, TypeOK
  <2>2. CASE q = p
    BY <1>2, <2>2, ZenonT(40) DEF Finish, TypeOK, ModifyingOne
  <2> QED BY Zenon, <2>1, <2>2
<1>3. ASSUME NEW p \in Proc, ReadForModify(p) PROVE ModifyingOne(q)'
  <2> DEFINE n == call[p].name
             up == Update(n, Modifier[refs[n]], PreviousMatches(refs[n]))
  <2>1. CASE refs[n] = None
    BY <1>2, <1>3, <2>1, ZenonT(40) DEF ReadForModify
  <2>2. CASE refs[n] # None
    <3>1. Begin(p, <<up>>) /\ UNCHANGED call
      BY <1>3, <2>2, ZenonT(40) DEF ReadForModify
    <3>2. CASE q # p
      BY <1>0, <3>1, <3>2 DEF Begin, TypeOK
    <3>3. CASE q = p
      <4>1. n \in Name
        BY <1>3, CallsAssumption, ZenonT(40) DEF ReadForModify, Working
      <4>2. refs[n] \in Config
        BY <2>2, <4>1 DEF TypeOK, Entry
      <4>3. staged'[q] = {} /\ todo'[q] = <<up>>
        BY ZenonT(40), <1>3, <3>1, <3>3 DEF ReadForModify, Begin, Working, TypeOK
      <4>4. up.previous = PreviousMatches(refs[n]) /\ up.target = Modifier[refs[n]]
        BY Zenon DEF Update
      <4> HIDE DEF up
      <4>5. Head(<<up>>) = up /\ Tail(<<up>>) = << >>
        OBVIOUS
      <4> QED BY ZenonT(40), <4>2, <4>3, <4>4, <4>5 DEF ModifyingOne
    <3> QED BY <3>2, <3>3
  <2> QED BY <2>1, <2>2
<1>4. ASSUME NEW p \in Proc, pc[p] = "read", call[p].fn # "modify", UNCHANGED <<call, staged>>,
             \A k \in Proc \ {p} : todo'[k] = todo[k]
      PROVE  ModifyingOne(q)'
  BY <1>0, <1>4, ZenonT(40) DEF ModifyingOne
<1>5. ASSUME NEW p \in Proc, ReadForUntrackAll(p) PROVE ModifyingOne(q)'
  BY <1>4, <1>5 DEF ReadForUntrackAll, Begin, TypeOK
<1>6. ASSUME NEW p \in Proc, IntoUpdates(p) PROVE ModifyingOne(q)'
  <2>1. pc[p] = "read" /\ call[p].fn # "modify" /\ UNCHANGED call
    BY <1>6, Zenon DEF IntoUpdates
  <2>2. \/ Finish(p, "error")
        \/ UNCHANGED staged /\ \E us : todo' = [todo EXCEPT ![p] = us]
    BY <1>6, ZenonT(60) DEF IntoUpdates, Begin
  <2>3. ASSUME NEW us, UNCHANGED staged, todo' = [todo EXCEPT ![p] = us]
        PROVE  ModifyingOne(q)'
    BY <1>4, <2>1, <2>3 DEF TypeOK
  <2> QED BY <1>2, <2>1, <2>2, <2>3, ZenonT(40)
<1>7. ASSUME NEW p \in Proc, LockRef(p) PROVE ModifyingOne(q)'
  <2>1. Finish(p, "error") \/ UNCHANGED <<todo, staged>>
    BY ZenonT(40), <1>7 DEF LockRef
  <2>2. UNCHANGED call
    BY <1>7, ZenonT(40) DEF LockRef
  <2> QED BY <1>0, <1>2, <2>1, <2>2, Zenon
<1>8. ASSUME NEW p \in Proc, CheckRef(p) PROVE ModifyingOne(q)'
  <2>1. CASE q # p
    BY ZenonT(40), <1>0, <1>8, <2>1 DEF CheckRef, TypeOK
  <2>2. CASE q = p
    <3>1. todo[p] # << >> /\ todo'[p] = Tail(todo[p]) /\ UNCHANGED call
      BY <1>8, ZenonT(40) DEF CheckRef, Checking, TypeOK
    <3>2. \A u \in staged'[p] : u \in staged[p] \/ u = Head(todo[p])
      BY <1>8 DEF CheckRef, TypeOK
    <3> QED BY <2>2, <3>1, <3>2, LessensKeeps DEF Lessens
  <2> QED BY <2>1, <2>2
<1>9. ASSUME NEW p \in Proc, Commit(p) PROVE ModifyingOne(q)'
  BY ZenonT(40), <1>0, <1>9 DEF Commit
<1>10. ASSUME NEW p \in Proc, NEW n \in Name, CommitRef(p, n) PROVE ModifyingOne(q)'
  <2>1. UNCHANGED <<call, todo>> /\ \A k \in Proc \ {p} : staged'[k] = staged[k]
    BY SMTT(30), <1>10 DEF CommitRef, TypeOK
  <2>2. \A u \in staged'[p] : u \in staged[p]
    BY <1>10 DEF CommitRef, TypeOK
  <2> QED BY <1>0, <2>1, <2>2, LessensKeeps, ZenonT(40) DEF Lessens
<1>11. ASSUME NEW p \in Proc, Prune(p) \/ Return(p) PROVE ModifyingOne(q)'
  <2>1. (\E result : Finish(p, result)) /\ UNCHANGED call
    BY Zenon, <1>11 DEF Prune, Return
  <2> QED BY Zenon, <1>2, <2>1
<1>12. ASSUME NEW p \in Proc, Crash(p) PROVE ModifyingOne(q)'
  <2>1. CASE q # p
    BY <1>0, <1>12, <2>1 DEF Crash, TypeOK
  <2>2. CASE q = p
    BY <1>12, <2>2, ZenonT(40) DEF Crash, TypeOK, ModifyingOne
  <2> QED BY <2>1, <2>2
<1>13. CASE UNCHANGED vars
  BY <1>0, <1>13, Zenon DEF vars
<1> QED
  BY Zenon, <1>1, <1>3, <1>5, <1>6, <1>7, <1>8, <1>9, <1>10, <1>11, <1>12, <1>13 DEF Next, Proceed

\* An update that must match a configuration is committed over that one only.
LEMMA GuardOfMatch ==
  ASSUME NEW c, NEW e, Guard(PreviousMatches(c), e)
  PROVE  e = c
<1>1. PreviousMatches(c).on = "must_match" /\ PreviousMatches(c).oid = c
  BY DEF PreviousMatches
<1>2. "must_match" # "any" /\ "must_match" # "must_exist" /\ "must_match" # "must_not_exist"
  OBVIOUS
<1> QED BY Zenon, <1>1, <1>2 DEF Guard

\* modify replaces exactly the configuration it computed its own from.
THEOREM ModifyAtomic == Spec => []ModifyIsAtomic
<1>1. Init => \A p \in Proc : ModifyingOne(p)
  BY ZenonT(40) DEF Init, ModifyingOne
<1>2. IInv /\ (\A p \in Proc : ModifyingOne(p)) => ModifyIsAtomic
  <2> SUFFICES ASSUME IInv, \A p \in Proc : ModifyingOne(p), NEW p \in Proc,
                      NEW u \in staged[p], call[p].fn = "modify"
               PROVE  refs[u.name] \in Config /\ u.target = Modifier[refs[u.name]]
    BY DEF ModifyIsAtomic
  <2>1. PICK c \in Config : u.previous = PreviousMatches(c) /\ u.target = Modifier[c]
    BY DEF ModifyingOne
  <2>2. Guard(u.previous, refs[u.name])
    BY Zenon DEF IInv, GuardsHold
  <2>3. refs[u.name] = c
    BY Zenon, <2>1, <2>2, GuardOfMatch
  <2> QED BY ZenonT(40), <2>1, <2>3
<1> QED BY <1>1, <1>2, InitIInv, NextIInv, NextModifying, PTL DEF Spec

-----------------------------------------------------------------------------
\* A call that makes a single update.
Single(p) == call[p] \in Calls /\ call[p].fn \in {"track", "modify", "untrack"}

\* What a process will report, followed from the start of its call: nothing is
\* written before the commit; the one update of a single call is yet to be put
\* to the guard, or was rejected and is nowhere, or is staged, or is written.
Reporting(p) ==
    /\ pc[p] \in {"read", "lock", "check"} => wrote[p] = {}
    /\ pc[p] = "read" => ~rejected[p]
    /\ pc[p] = "commit" => todo[p] = << >>
    /\ Single(p) =>
          /\ \A u \in staged[p] : u.name = call[p].name
          /\ rejected[p] => staged[p] = {} /\ wrote[p] = {}
          /\ todo[p] # << >> =>
                /\ Tail(todo[p]) = << >> /\ staged[p] = {} /\ ~rejected[p]
                /\ Head(todo[p]).name = call[p].name
                /\ call[p].fn # "untrack" => Head(todo[p]).target # None
          /\ pc[p] \in {"lock", "commit"} /\ todo[p] = << >> /\ ~rejected[p]
                /\ call[p].fn # "untrack" =>
                IF staged[p] = {} THEN wrote[p] = {call[p].name} ELSE wrote[p] = {}
    /\ pc[p] = "idle" =>
          /\ outcome[p] = "error" => wrote[p] = {}
          /\ outcome[p] = "rejected" /\ call[p].fn \in {"track", "modify", "untrack"} =>
                wrote[p] = {}
          /\ outcome[p] = "ok" /\ call[p].fn \in {"track", "modify"} =>
                wrote[p] = {call[p].name}

\* A step of the one process that leaves its part of the state alone.
Spared(q) ==
    /\ pc'[q] = pc[q] /\ call'[q] = call[q] /\ todo'[q] = todo[q] /\ staged'[q] = staged[q]
    /\ rejected'[q] = rejected[q] /\ wrote'[q] = wrote[q] /\ outcome'[q] = outcome[q]

\* What a process will report depends on its own part of the state only.
LEMMA SparedReports ==
    ASSUME NEW q \in Proc, Reporting(q), Spared(q)
    PROVE  Reporting(q)'
  BY ZenonT(40) DEF Reporting, Spared, Single

\* A call that returns reports what it did, if its result tells it.
LEMMA FinishReports ==
    ASSUME IInv, NEW p \in Proc, Reporting(p), NEW result, Finish(p, result),
           UNCHANGED <<call, rejected, wrote>>, pc[p] # "idle",
           result = "error" => wrote[p] = {},
           result = "rejected" => rejected[p],
           result = "ok" /\ call[p].fn \in {"track", "modify"} => wrote[p] = {call[p].name}
    PROVE  Reporting(p)'
<1>1. pc'[p] = "idle" /\ outcome'[p] = result /\ todo'[p] = << >> /\ staged'[p] = {}
  BY DEF Finish, IInv, TypeOK
<1>2. call[p] \in Calls
  BY ZenonT(40) DEF IInv, Working
<1>3. call[p].fn \in {"track", "modify", "untrack"} => (rejected[p] => wrote[p] = {})
  BY <1>2, ZenonT(40) DEF Reporting, Single
<1> QED BY <1>1, <1>3, ZenonT(40) DEF Reporting, Single

\* The updates of a call that makes several do not bear on its report.
LEMMA BeginReports ==
    ASSUME IInv, NEW p \in Proc, Reporting(p), NEW us, Begin(p, us), pc[p] = "read", ~Single(p),
           UNCHANGED <<call, rejected, wrote>>
    PROVE  Reporting(p)'
<1>1. pc'[p] = "lock"
  BY DEF Begin, IInv, TypeOK
<1> QED BY <1>1, ZenonT(40) DEF Reporting, Single

\* Every step keeps what each process will report.
LEMMA NextReporting ==
    IInv /\ (\A p \in Proc : Reporting(p)) /\ [Next]_vars => (\A p \in Proc : Reporting(p))'
<1> SUFFICES ASSUME IInv, \A p \in Proc : Reporting(p), [Next]_vars, NEW q \in Proc
             PROVE  Reporting(q)'
  OBVIOUS
<1> USE DEF IInv
<1>0. ASSUME Spared(q) PROVE Reporting(q)'
  BY <1>0, SparedReports
<1>1. ASSUME NEW c \in Calls, Start(q, c) PROVE Reporting(q)'
  <2>1. /\ staged'[q] = {} /\ call'[q] = c /\ wrote'[q] = {} /\ rejected'[q] = FALSE
        /\ pc'[q] = IF c.fn \in {"track", "untrack"} THEN "lock" ELSE "read"
    BY <1>1 DEF Start, Working, TypeOK
  <2> DEFINE up == Update(c.name, c.config, TrackPrevious(c.policy))
             del == Update(c.name, None, UntrackPrevious(c.policy))
  <2>2. CASE c.fn = "track"
    <3>1. todo'[q] = <<up>>
      BY <1>1, <2>2 DEF Start, TypeOK
    <3>2. up.name = c.name /\ up.target = c.config /\ c.config # None
      BY Zenon, <2>2, CallsAssumption, NoneAssumption DEF Update
    <3> HIDE DEF up
    <3>3. <<up>> # << >> /\ Head(<<up>>) = up /\ Tail(<<up>>) = << >>
      OBVIOUS
    <3> QED BY <2>1, <2>2, <3>1, <3>2, <3>3, ZenonT(40) DEF Reporting, Single
  <2>3. CASE c.fn = "untrack"
    <3>1. todo'[q] = <<del>>
      BY Zenon, <1>1, <2>3 DEF Start, TypeOK
    <3>2. del.name = c.name
      BY DEF Update
    <3> HIDE DEF del
    <3>3. <<del>> # << >> /\ Head(<<del>>) = del /\ Tail(<<del>>) = << >>
      OBVIOUS
    <3> QED BY <2>1, <2>3, <3>1, <3>2, <3>3, ZenonT(40) DEF Reporting, Single
  <2>4. CASE c.fn \notin {"track", "untrack"}
    <3>1. todo'[q] = << >>
      BY <1>1, <2>4 DEF Start, TypeOK
    <3> QED BY <2>1, <2>4, <3>1, Zenon DEF Reporting, Single
  <2> QED BY Zenon, <2>2, <2>3, <2>4
<1>2. ASSUME NEW p \in Proc, NEW c \in Calls, p # q, Start(p, c) PROVE Reporting(q)'
  <2>1. UNCHANGED staged /\ todo'[q] = todo[q] /\ pc'[q] = pc[q]
    BY <1>2 DEF Start, TypeOK
  <2>2. /\ call'[q] = call[q] /\ rejected'[q] = rejected[q] /\ wrote'[q] = wrote[q]
        /\ outcome'[q] = outcome[q]
    BY <1>2, ZenonT(60) DEF Start, TypeOK
  <2> QED BY <1>0, <2>1, <2>2, Zenon DEF Spared
<1>3. ASSUME NEW p \in Proc, p # q, NEW result, Finish(p, result),
             UNCHANGED <<call, rejected, wrote>>
      PROVE  Reporting(q)'
  BY ZenonT(40), <1>0, <1>3 DEF Finish, TypeOK, Spared
<1>4. ASSUME NEW p \in Proc, p # q, NEW us, Begin(p, us), UNCHANGED <<call, rejected, wrote>>
      PROVE  Reporting(q)'
  BY ZenonT(40), <1>0, <1>4 DEF Begin, TypeOK, Spared
<1>5. ASSUME Finish(q, "error"), pc[q] \in {"read", "lock", "check"},
             UNCHANGED <<call, rejected, wrote>>
      PROVE  Reporting(q)'
  <2>1. wrote[q] = {}
    BY <1>5 DEF Reporting
  <2> QED BY <1>5, <2>1, FinishReports, ZenonT(40)
<1>6. ASSUME NEW p \in Proc, ReadForModify(p) PROVE Reporting(q)'
  <2> DEFINE n == call[p].name
             up == Update(n, Modifier[refs[n]], PreviousMatches(refs[n]))
  <2>1. pc[p] = "read" /\ call[p].fn = "modify" /\ UNCHANGED <<call, rejected, wrote>>
    BY <1>6, ZenonT(40) DEF ReadForModify
  <2>2. CASE refs[n] = None
    <3>1. Finish(p, "error")
      BY <1>6, <2>2, Zenon DEF ReadForModify
    <3> QED BY <1>3, <1>5, <2>1, <3>1, ZenonT(40)
  <2>3. CASE refs[n] # None
    <3>1. Begin(p, <<up>>)
      BY <1>6, <2>3, ZenonT(40) DEF ReadForModify
    <3>2. CASE q # p
      BY <1>4, <2>1, <3>1, <3>2, ZenonT(40)
    <3>3. CASE q = p
      <4>1. call[p] \in Calls /\ n \in Name
        BY <2>1, CallsAssumption, ZenonT(40) DEF Working
      <4>2. refs[n] \in Config
        BY <2>3, <4>1 DEF TypeOK, Entry
      <4>3. up.name = n /\ up.target # None
        BY <4>2, ModifierAssumption, NoneAssumption, Zenon DEF Update
      <4>4. pc'[q] = "lock" /\ staged'[q] = {} /\ todo'[q] = <<up>>
        BY ZenonT(40), <2>1, <3>1, <3>3 DEF Begin, Working, TypeOK
      <4> HIDE DEF up
      <4>5. <<up>> # << >> /\ Head(<<up>>) = up /\ Tail(<<up>>) = << >>
        BY SMTT(30)
      <4>6. wrote'[q] = {} /\ ~rejected'[q] /\ call'[q] = call[p]
        BY <2>1, <3>3 DEF Reporting
      <4> QED BY <2>1, <3>3, <4>3, <4>4, <4>5, <4>6, ZenonT(40) DEF Reporting, Single
    <3> QED BY <3>2, <3>3
  <2> QED BY <2>2, <2>3
<1>7. ASSUME NEW p \in Proc, ReadForUntrackAll(p) PROVE Reporting(q)'
  <2>1. pc[p] = "read" /\ call[p].fn = "untrack_all" /\ UNCHANGED <<call, rejected, wrote>>
    BY <1>7, ZenonT(40) DEF ReadForUntrackAll
  <2>2. \E us : Begin(p, us)
    BY <1>7, ZenonT(40) DEF ReadForUntrackAll
  <2>3. ~Single(p)
    BY ZenonT(40), <2>1 DEF Single
  <2> QED BY <1>4, <2>1, <2>2, <2>3, BeginReports, ZenonT(40)
<1>8. ASSUME NEW p \in Proc, IntoUpdates(p) PROVE Reporting(q)'
  <2>1. pc[p] = "read" /\ call[p].fn = "batch" /\ UNCHANGED <<call, rejected, wrote>>
    BY <1>8, Zenon DEF IntoUpdates
  <2>2. ~Single(p)
    BY <2>1, Zenon DEF Single
  <2>3. \/ Begin(p, todo[p])
        \/ Finish(p, "error")
        \/ /\ UNCHANGED <<pc, staged, outcome>>
           /\ \E us : todo' = [todo EXCEPT ![p] = us]
    BY <1>8, ZenonT(60) DEF IntoUpdates
  <2>4. ASSUME UNCHANGED <<pc, staged, outcome>>, NEW us, todo' = [todo EXCEPT ![p] = us]
        PROVE  Reporting(q)'
    <3>1. CASE q # p
      BY ZenonT(40), <1>0, <2>1, <2>4, <3>1 DEF Spared, TypeOK
    <3>2. CASE q = p
      BY <2>1, <2>2, <2>4, <3>2, ZenonT(40) DEF Reporting, Single
    <3> QED BY <3>1, <3>2
  <2>5. ASSUME Begin(p, todo[p]) PROVE Reporting(q)'
    BY <1>4, <2>1, <2>2, <2>5, BeginReports, ZenonT(40)
  <2>6. ASSUME Finish(p, "error") PROVE Reporting(q)'
    BY <1>3, <1>5, <2>1, <2>6, Zenon
  <2> QED BY <2>3, <2>4, <2>5, <2>6
<1>9. ASSUME NEW p \in Proc, LockRef(p) PROVE Reporting(q)'
  <2>1. pc[p] = "lock" /\ todo[p] # << >> /\ UNCHANGED <<call, rejected, wrote>>
    BY <1>9, Zenon DEF LockRef
  <2>2. \/ Finish(p, "error")
        \/ pc' = [pc EXCEPT ![p] = "check"] /\ UNCHANGED <<todo, staged, outcome>>
    BY ZenonT(40), <1>9 DEF LockRef
  <2>3. CASE Finish(p, "error")
    BY ZenonT(40), <1>3, <1>5, <2>1, <2>3
  <2>4. CASE pc' = [pc EXCEPT ![p] = "check"] /\ UNCHANGED <<todo, staged, outcome>>
    <3>1. CASE q # p
      BY <1>0, <2>1, <2>4, <3>1 DEF Spared, TypeOK
    <3>2. CASE q = p
      <4>1. pc'[q] = "check"
        BY <2>4, <3>2 DEF TypeOK
      <4> QED BY <2>1, <2>4, <3>2, <4>1, ZenonT(40) DEF Reporting, Single
    <3> QED BY <3>1, <3>2
  <2> QED BY Zenon, <2>2, <2>3, <2>4
<1>10. ASSUME NEW p \in Proc, CheckRef(p) PROVE Reporting(q)'
  <2> DEFINE h == Head(todo[p])
  <2>1. /\ pc[p] = "check" /\ pc'[p] = "lock" /\ UNCHANGED <<call, wrote>>
        /\ todo[p] # << >> /\ todo'[p] = Tail(todo[p])
        /\ rejected'[p] = (rejected[p] \/ Rejected(h))
    BY <1>10, ZenonT(40) DEF CheckRef, Checking, TypeOK
  <2>2. staged'[p] = staged[p] \cup {u \in {h} : Accepted(u)}
    BY ZenonT(40), <1>10 DEF CheckRef, TypeOK
  <2>3. CASE q # p
    BY <1>0, <1>10, <2>3 DEF CheckRef, Spared, TypeOK
  <2>4. CASE q = p /\ ~Single(p)
    BY <2>1, <2>4, ZenonT(40) DEF Reporting, Single
  <2>5. CASE q = p /\ Single(p)
    <3>1. /\ wrote[p] = {} /\ staged[p] = {} /\ ~rejected[p] /\ todo'[p] = << >>
          /\ h.name = call[p].name /\ (call[p].fn # "untrack" => h.target # None)
      BY <2>1, <2>5, ZenonT(40) DEF Reporting
    <3>2. CASE Accepted(h)
      <4>1. staged'[p] = {h}
        BY <2>2, <3>1, <3>2, Zenon
      <4>2. ~rejected'[p]
        BY <2>1, <3>1, <3>2, ZenonT(40) DEF Accepted, Rejected
      <4> HIDE DEF h
      <4> QED BY <2>1, <2>5, <3>1, <4>1, <4>2, ZenonT(40) DEF Reporting, Single
    <3>3. CASE Rejected(h)
      <4>1. staged'[p] = {}
        BY <2>2, <3>1, <3>3, Zenon DEF Accepted, Rejected
      <4>2. rejected'[p]
        BY <2>1, <3>3, Zenon
      <4> HIDE DEF h
      <4> QED BY <2>1, <2>5, <3>1, <4>1, <4>2, ZenonT(40) DEF Reporting, Single
    <3>4. CASE Noop(h)
      <4>1. staged'[p] = {} /\ call[p].fn = "untrack"
        BY <2>2, <3>1, <3>4, Zenon DEF Accepted, Noop
      <4>2. ~rejected'[p]
        BY <2>1, <3>1, <3>4, ZenonT(40) DEF Rejected
      <4> HIDE DEF h
      <4> QED BY <2>1, <2>5, <3>1, <4>1, <4>2, ZenonT(40) DEF Reporting, Single
    <3> QED BY <3>2, <3>3, <3>4, Zenon DEF Accepted, Rejected
  <2> QED BY <2>3, <2>4, <2>5
<1>11. ASSUME NEW p \in Proc, Commit(p) PROVE Reporting(q)'
  <2>1. /\ pc[p] = "lock" /\ pc'[p] = "commit" /\ todo[p] = << >>
        /\ UNCHANGED <<call, todo, staged, rejected, wrote, outcome>>
    BY Zenon, <1>11 DEF Commit, TypeOK
  <2>2. CASE q # p
    BY ZenonT(40), <1>0, <1>11, <2>2 DEF Commit, Spared, TypeOK
  <2>3. CASE q = p
    BY <2>1, <2>3, ZenonT(40) DEF Reporting, Single
  <2> QED BY <2>2, <2>3
<1>12. ASSUME NEW p \in Proc, NEW n \in Name, CommitRef(p, n) PROVE Reporting(q)'
  <2>1. pc[p] = "commit" /\ UNCHANGED <<pc, call, todo, rejected, outcome>>
    BY Zenon, <1>12 DEF CommitRef
  <2>2. CASE UNCHANGED <<staged, wrote>>
    BY Zenon, <1>0, <2>1, <2>2 DEF Spared
  <2>3. ASSUME NEW u \in staged[p], u.name = n,
               staged' = [staged EXCEPT ![p] = {v \in @ : v.name # n}],
               wrote' = [wrote EXCEPT ![p] = @ \cup {n}]
        PROVE  Reporting(q)'
    <3>1. CASE q # p
      BY ZenonT(40), <1>0, <2>1, <2>3, <3>1 DEF Spared, TypeOK
    <3>2. staged'[p] = {v \in staged[p] : v.name # n} /\ wrote'[p] = wrote[p] \cup {n}
      BY <2>3 DEF TypeOK
    <3>3. CASE q = p /\ ~Single(p)
      BY <2>1, <3>3, ZenonT(40) DEF Reporting, Single
    <3>4. CASE q = p /\ Single(p)
      <4>1. \A v \in staged[p] : v.name = call[p].name
        BY <3>4, ZenonT(40) DEF Reporting
      <4>2. call[p].name = n /\ staged'[p] = {}
        BY <2>3, <3>2, <4>1, Zenon
      <4>3. ~rejected[p] /\ todo[p] = << >>
        BY <2>1, <2>3, <3>4, ZenonT(40) DEF Reporting
      <4>4. call[p].fn # "untrack" => wrote[p] = {}
        BY <2>1, <2>3, <3>4, <4>3, ZenonT(40) DEF Reporting
      <4>5. call[p].fn # "untrack" => wrote'[p] = {n}
        BY <3>2, <4>4, Zenon
      <4> QED BY <2>1, <3>4, <4>2, <4>3, <4>5, ZenonT(40) DEF Reporting, Single
    <3> QED BY Zenon, <3>1, <3>3, <3>4
  <2> QED BY Zenon, <1>12, <2>2, <2>3 DEF CommitRef
<1>13. ASSUME NEW p \in Proc, Prune(p) \/ Return(p) PROVE Reporting(q)'
  <2>1. /\ pc[p] = "commit" /\ UNCHANGED <<call, rejected, wrote>>
        /\ \A n \in Name : owner[n] # p
        /\ Finish(p, Result(p)) \/ Finish(p, "prune_error")
    BY <1>13, ZenonT(40) DEF Prune, Return
  <2>2. CASE q # p
    BY <1>3, <2>1, <2>2, ZenonT(40)
  <2>3. CASE q = p
    <3>1. staged[p] = {}
      <4> SUFFICES ASSUME NEW u \in staged[p] PROVE FALSE
        OBVIOUS
      <4>1. u.name \in Name /\ owner[u.name] = p
        BY StagedType, Zenon DEF GuardsHold
      <4> QED BY <2>1, <4>1, ZenonT(40)
    <3>2. call[p] \in Calls
      BY <2>1, Zenon DEF Working
    <3>3. ~rejected[p] /\ call[p].fn \in {"track", "modify"} => wrote[p] = {call[p].name}
      BY <2>1, <3>1, <3>2, ZenonT(40) DEF Reporting, Single
    <3>4. CASE Finish(p, Result(p))
      BY <2>1, <2>3, <3>3, <3>4, FinishReports, ZenonT(40) DEF Result
    <3>5. CASE Finish(p, "prune_error")
      BY <2>1, <2>3, <3>5, FinishReports, ZenonT(40)
    <3> QED BY ZenonT(40), <2>1, <3>4, <3>5
  <2> QED BY <2>2, <2>3
<1>14. ASSUME NEW p \in Proc, Crash(p) PROVE Reporting(q)'
  <2>1. CASE q # p
    BY ZenonT(40), <1>0, <1>14, <2>1 DEF Crash, Spared, TypeOK
  <2>2. CASE q = p
    <3>1. /\ pc'[p] = "crashed" /\ staged'[p] = {} /\ todo'[p] = << >>
          /\ UNCHANGED <<call, rejected, wrote>>
      BY <1>14 DEF Crash, TypeOK
    <3> QED BY <2>2, <3>1, ZenonT(40) DEF Reporting, Single
  <2> QED BY <2>1, <2>2
<1>15. CASE UNCHANGED vars
  BY <1>0, <1>15, Zenon DEF vars, Spared
<1> QED
  BY Zenon, <1>1, <1>2, <1>6, <1>7, <1>8, <1>9, <1>10, <1>11, <1>12, <1>13, <1>14, <1>15
     DEF Next, Proceed

\* What a call returns is what it did: an error changed no entry, a single
\* update that was rejected changed none, and one that was accepted changed
\* its entry, whatever the other processes did meanwhile.
THEOREM ReportsTrue == Spec => []ReportsAreTrue
<1>1. Init => \A p \in Proc : Reporting(p)
  BY ZenonT(40) DEF Init, Reporting, Single
<1>2. (\A p \in Proc : Reporting(p)) => ReportsAreTrue
  BY Zenon DEF Reporting, ReportsAreTrue
<1> QED BY <1>1, <1>2, InitIInv, NextIInv, NextReporting, PTL DEF Spec

=============================================================================
