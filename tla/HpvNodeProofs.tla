--------------------------- MODULE HpvNodeProofs ---------------------------
(***************************************************************************)
(* Proofs about Hpv and HpvNode, for any set of peers, any                 *)
(* non-zero view limits and any walk length and sample size.               *)
(***************************************************************************)
EXTENDS HpvNode, FiniteSetTheorems, NaturalsInduction, WellFoundedInduction, TLAPS

-----------------------------------------------------------------------------
(***************************************************************************)
(* The operations of a partial view.                                       *)
(***************************************************************************)

\* What an outcome of an operation on v must be: a view that keeps the
\* invariant, and a list of transitions.
Good(local, o) == ViewInv(local, o.view) /\ o.trans \in Seq(Transition(local))

\* The sets of a view are finite, so their cardinalities are numbers.
LEMMA ViewFinite ==
    ASSUME NEW v \in View
    PROVE  /\ IsFiniteSet(v.active) /\ Cardinality(v.active) \in Nat
           /\ IsFiniteSet(v.passive) /\ Cardinality(v.passive) \in Nat
           /\ IsFiniteSet(v.complete) /\ Cardinality(v.complete) \in Nat
<1>1. /\ v.active \in SUBSET Peers
      /\ v.passive \in SUBSET Peers
      /\ v.complete \in SUBSET Peers
  BY DEF View
<1>2. QED
  BY <1>1, PeersAssumption, FS_Subset, FS_CardinalityType

\* `evict_random` makes room: unless the passive view was empty, the entry
\* it drops is the only thing that changes.
LEMMA EvictRandomFacts ==
    ASSUME NEW v \in View, NEW o \in EvictRandom(v)
    PROVE  \/ v.passive = {} /\ o = Outcome(v, <<>>)
           \/ \E q \in v.passive :
                 o = Outcome([v EXCEPT !.passive = @ \ {q}], <<Evicted(q)>>)
<1>1. CASE v.passive = {}
  BY <1>1 DEF EvictRandom
<1>2. CASE v.passive # {}
  <2>1. PICK q \in v.passive : o = Evict(v, q)
    BY <1>2 DEF EvictRandom
  <2>2. QED
    BY Zenon, <2>1 DEF Evict
<1>3. QED
  BY Zenon, <1>1, <1>2

\* The three outcomes of `add_passive`: it does nothing, it inserts p, or it
\* inserts p in the place of an entry q, which it reports.
Ignored(local, v, p, o) == (p = local \/ p \in v.active) /\ o = Outcome(v, <<>>)
Inserted(local, v, p, o) ==
    /\ p # local
    /\ p \notin v.active
    /\ Cardinality(v.passive) < MaxPassive \/ v.passive = {}
    /\ o = Outcome([v EXCEPT !.passive = @ \cup {p}], <<>>)
Replaced(local, v, p, q, o) ==
    /\ p # local
    /\ p \notin v.active
    /\ o = Outcome([v EXCEPT !.passive = (@ \ {q}) \cup {p}], <<Evicted(q)>>)

\* `add_passive` leaves the active view alone, adds at most p and drops at
\* most one entry, which it reports.
LEMMA AddPassiveFacts ==
    ASSUME NEW local, NEW v \in View, NEW p \in Peers, NEW o \in AddPassive(local, v, p)
    PROVE  \/ Ignored(local, v, p, o)
           \/ Inserted(local, v, p, o)
           \/ \E q \in v.passive : Replaced(local, v, p, q, o)
<1> USE DEF Ignored, Inserted, Replaced
<1>1. CASE p = local \/ p \in v.active
  BY <1>1 DEF AddPassive
<1>2. CASE ~(p = local \/ p \in v.active)
  <2>1. CASE Cardinality(v.passive) >= MaxPassive
    <3>1. PICK e \in EvictRandom(v) :
             o = Outcome([e.view EXCEPT !.passive = @ \cup {p}], e.trans)
      BY Zenon, <1>2, <2>1 DEF AddPassive
    <3>2. CASE v.passive = {} /\ e = Outcome(v, <<>>)
      BY Zenon, <1>2, <3>1, <3>2 DEF Outcome
    <3>3. CASE \E q \in v.passive :
                 e = Outcome([v EXCEPT !.passive = @ \ {q}], <<Evicted(q)>>)
      <4>1. PICK q \in v.passive : e = Outcome([v EXCEPT !.passive = @ \ {q}], <<Evicted(q)>>)
        BY Zenon, <3>3
      <4>2. [e.view EXCEPT !.passive = @ \cup {p}] = [v EXCEPT !.passive = (@ \ {q}) \cup {p}]
        BY Zenon, <4>1 DEF Outcome, View
      <4>3. QED
        BY Zenon, <1>2, <3>1, <4>1, <4>2 DEF Outcome
    <3>4. QED
      BY Zenon, <3>2, <3>3, EvictRandomFacts
  <2>2. CASE ~(Cardinality(v.passive) >= MaxPassive)
    BY <1>2, <2>2, ViewFinite, MaxPassiveAssumption DEF AddPassive, Outcome
  <2>3. QED
    BY Zenon, <2>1, <2>2
<1>3. QED
  BY Zenon, <1>1, <1>2

\* Changing the passive map keeps the invariant if the new map is small
\* enough and holds neither the local peer nor an active one.
LEMMA PassiveGood ==
    ASSUME NEW local, NEW v, ViewInv(local, v), NEW S \in SUBSET Peers,
           local \notin S, v.active \cap S = {}, Cardinality(S) <= MaxPassive
    PROVE  ViewInv(local, [v EXCEPT !.passive = S])
<1> DEFINE w == [v EXCEPT !.passive = S]
<1>1. v \in View
  BY DEF ViewInv
<1>2. /\ w \in View
      /\ w.active = v.active
      /\ w.complete = v.complete
      /\ w.passive = S
  BY <1>1 DEF View
<1> HIDE DEF w
<1>3. ViewInv(local, w)
  BY <1>2 DEF ViewInv, IsKnown
<1>4. QED
  BY <1>3 DEF w

\* `add_passive` preserves the invariant of the view.
LEMMA AddPassiveGood ==
    ASSUME NEW local, NEW v, ViewInv(local, v), NEW p \in Peers,
           NEW o \in AddPassive(local, v, p)
    PROVE  Good(local, o)
<1>1. /\ v \in View
      /\ v.passive \in SUBSET Peers
      /\ v.active \cap v.passive = {}
      /\ local \notin v.passive
      /\ Cardinality(v.passive) <= MaxPassive
  BY DEF ViewInv, View, IsKnown
<1>2. IsFiniteSet(v.passive) /\ Cardinality(v.passive) \in Nat
  BY <1>1, ViewFinite
<1>3. CASE Ignored(local, v, p, o)
  BY <1>3 DEF Ignored, Outcome, Good
<1>4. CASE Inserted(local, v, p, o)
  <2>1. Cardinality(v.passive \cup {p}) <= Cardinality(v.passive) + 1
    BY <1>2, FS_AddElement
  <2>2. Cardinality(v.passive \cup {p}) \in Nat
    BY Zenon, <1>2, FS_AddElement, FS_CardinalityType
  <2>3. v.passive = {} => Cardinality(v.passive) = 0
    BY FS_EmptySet
  <2>4. Cardinality(v.passive \cup {p}) <= MaxPassive
    BY <1>2, <1>4, <2>1, <2>2, <2>3, MaxPassiveAssumption DEF Inserted
  <2>5. ViewInv(local, [v EXCEPT !.passive = v.passive \cup {p}])
    BY Zenon, <1>1, <1>4, <2>4, PassiveGood DEF Inserted
  <2>6. QED
    BY <1>4, <2>5 DEF Inserted, Outcome, Good
<1>5. CASE \E q \in v.passive : Replaced(local, v, p, q, o)
  <2>1. PICK q \in v.passive : Replaced(local, v, p, q, o)
    BY <1>5
  <2>2. /\ IsFiniteSet(v.passive \ {q})
        /\ Cardinality(v.passive \ {q}) = Cardinality(v.passive) - 1
    BY <1>2, FS_RemoveElement
  <2> DEFINE S == v.passive \ {q}
  <2>3. /\ Cardinality(S \cup {p}) = IF p \in S THEN Cardinality(S) ELSE Cardinality(S) + 1
        /\ Cardinality(S) \in Nat
    <3> HIDE DEF S
    <3>1. IsFiniteSet(S)
      BY <2>2 DEF S
    <3>2. QED
      BY <3>1, FS_AddElement, FS_CardinalityType
  <2>4. Cardinality((v.passive \ {q}) \cup {p}) <= MaxPassive
    BY <1>1, <1>2, <2>2, <2>3, MaxPassiveAssumption
  <2>5. ViewInv(local, [v EXCEPT !.passive = (v.passive \ {q}) \cup {p}])
    BY <1>1, <2>1, <2>4, PassiveGood DEF Replaced
  <2>6. Evicted(q) \in Transition(local)
    BY <1>1 DEF Evicted, Transition
  <2>7. QED
    BY <2>1, <2>5, <2>6 DEF Replaced, Outcome, Good
<1>6. QED
  BY <1>1, <1>3, <1>4, <1>5, AddPassiveFacts

\* Taking a peer out of the active map keeps the invariant and frees a slot.
LEMMA WithoutGood ==
    ASSUME NEW local, NEW v, ViewInv(local, v), NEW p \in v.active
    PROVE  /\ ViewInv(local, Without(v, p))
           /\ Without(v, p).active = v.active \ {p}
           /\ Cardinality(Without(v, p).active) < MaxActive
           /\ p \in Peers /\ p # local
<1> DEFINE w == Without(v, p)
<1>1. v \in View
  BY DEF ViewInv
<1>2. /\ w \in View
      /\ w.active = v.active \ {p}
      /\ w.complete = v.complete \ {p}
      /\ w.passive = v.passive
  BY Zenon, <1>1 DEF View, Without
<1>3. IsFiniteSet(v.active) /\ Cardinality(v.active) \in Nat
  BY <1>1, ViewFinite
<1>4. Cardinality(v.active \ {p}) = Cardinality(v.active) - 1
  BY <1>3, FS_RemoveElement
<1>5. Cardinality(v.active) <= MaxActive
  BY DEF ViewInv
<1>6. Cardinality(w.active) < MaxActive /\ Cardinality(w.active) <= MaxActive
  BY <1>2, <1>3, <1>4, <1>5, MaxActiveAssumption
<1>7. p \in Peers /\ p # local
  BY <1>1 DEF ViewInv, IsKnown, View
<1>8. ViewInv(local, w)
  BY <1>2, <1>6 DEF ViewInv, IsKnown
<1>9. QED
  BY <1>2, <1>6, <1>7, <1>8

\* Only the passive map is touched by `add_passive`.
LEMMA AddPassiveKeepsActive ==
    ASSUME NEW local, NEW v \in View, NEW p \in Peers, NEW o \in AddPassive(local, v, p)
    PROVE  o.view.active = v.active /\ o.view.complete = v.complete
<1>1. CASE Ignored(local, v, p, o)
  BY <1>1 DEF Ignored, Outcome
<1>2. CASE Inserted(local, v, p, o)
  BY <1>2 DEF Inserted, Outcome, View
<1>3. CASE \E q \in v.passive : Replaced(local, v, p, q, o)
  BY <1>3 DEF Replaced, Outcome, View
<1>4. QED
  BY <1>1, <1>2, <1>3, AddPassiveFacts

\* `demote` preserves the invariant of the view, and takes p, and p only, out
\* of the active map.
LEMMA DemoteGood ==
    ASSUME NEW local, NEW v, ViewInv(local, v), NEW p, NEW o \in Demote(local, v, p)
    PROVE  /\ Good(local, o)
           /\ o.view.active = v.active \ {p}
           /\ p \in v.active => Cardinality(o.view.active) < MaxActive
<1>1. CASE p \notin v.active
  <2>1. o = Outcome(v, <<>>)
    BY <1>1 DEF Demote
  <2>2. QED
    BY <1>1, <2>1 DEF Outcome, Good
<1>2. CASE p \in v.active
  <2>1. /\ ViewInv(local, Without(v, p))
        /\ Without(v, p).active = v.active \ {p}
        /\ Cardinality(Without(v, p).active) < MaxActive
        /\ p \in Peers /\ p # local
    BY <1>2, WithoutGood
  <2>2. Evicted(p) \in Transition(local) /\ Demoted(p) \in Transition(local)
    BY <2>1 DEF Evicted, Demoted, Transition
  <2>3. CASE p \notin v.complete
    <3>1. o = Outcome(Without(v, p), <<Evicted(p)>>)
      BY <1>2, <2>3 DEF Demote
    <3>2. QED
      BY <2>1, <2>2, <3>1 DEF Outcome, Good
  <2>4. CASE p \in v.complete
    <3>1. PICK x \in AddPassive(local, Without(v, p), p) :
             o = Outcome(x.view, <<Demoted(p)>> \o x.trans)
      BY <1>2, <2>4 DEF Demote
    <3>2. Good(local, x)
      BY <2>1, AddPassiveGood
    <3>3. x.view.active = Without(v, p).active
      BY <2>1, AddPassiveKeepsActive DEF ViewInv
    <3>4. <<Demoted(p)>> \o x.trans \in Seq(Transition(local))
      BY <2>2, <3>2 DEF Good
    <3>5. QED
      BY Zenon, <2>1, <3>1, <3>2, <3>3, <3>4 DEF Outcome, Good
  <2>5. QED
    BY <2>3, <2>4
<1>3. QED
  BY <1>1, <1>2

\* `demote_random` preserves the invariant of the view; a full active map is
\* full no longer.
LEMMA DemoteRandomGood ==
    ASSUME NEW local, NEW v, ViewInv(local, v), NEW o \in DemoteRandom(local, v)
    PROVE  /\ Good(local, o)
           /\ o.view.active \subseteq v.active
           /\ Cardinality(o.view.active) < MaxActive
<1>1. CASE v.active = {}
  <2>1. o = Outcome(v, <<>>)
    BY <1>1 DEF DemoteRandom
  <2>2. Cardinality(o.view.active) = 0
    BY Zenon, <1>1, <2>1, FS_EmptySet DEF Outcome
  <2>3. QED
    BY <2>1, <2>2, MaxActiveAssumption DEF Outcome, Good
<1>2. CASE v.active # {}
  <2>1. PICK p \in v.active : o \in Demote(local, v, p)
    BY <1>2 DEF DemoteRandom
  <2>2. QED
    BY <2>1, DemoteGood
<1>3. QED
  BY <1>1, <1>2

\* `add_active` preserves the invariant of the view: a full active map makes
\* room for the newcomer before it is inserted.
LEMMA AddActiveGood ==
    ASSUME NEW local, NEW v, ViewInv(local, v), NEW p \in Peers, NEW c \in BOOLEAN,
           NEW o \in AddActive(local, v, p, c)
    PROVE  Good(local, o)
<1>1. CASE p = local \/ p \in v.active
  <2>1. o = Outcome(v, <<>>)
    BY <1>1 DEF AddActive
  <2>2. QED
    BY <2>1 DEF Outcome, Good
<1>2. CASE ~(p = local \/ p \in v.active)
  <2> DEFINE Room == IF IsActiveFull(v) THEN DemoteRandom(local, v) ELSE {Outcome(v, <<>>)}
             w(x) == [active   |-> x.view.active \cup {p},
                      complete |-> IF c THEN x.view.complete \cup {p} ELSE x.view.complete,
                      passive  |-> x.view.passive \ {p}]
  <2>1. PICK x \in Room : o = Outcome(w(x), <<Promoted(p)>> \o x.trans)
    BY Zenon, <1>2 DEF AddActive
  <2>2. Good(local, x) /\ Cardinality(x.view.active) < MaxActive
    <3>1. CASE IsActiveFull(v)
      BY <2>1, <3>1, DemoteRandomGood
    <3>2. CASE ~IsActiveFull(v)
      <4>1. x = Outcome(v, <<>>)
        BY <2>1, <3>2
      <4>2. Cardinality(v.active) < MaxActive
        BY <3>2, ViewFinite, MaxActiveAssumption DEF IsActiveFull, ViewInv
      <4>3. QED
        BY <4>1, <4>2 DEF Outcome, Good
    <3>3. QED
      BY <3>1, <3>2
  <2> HIDE DEF Room
  <2> DEFINE u == x.view
  <2>3. ViewInv(local, u) /\ u \in View
    BY <2>2 DEF Good, ViewInv
  <2>4. /\ IsFiniteSet(u.active) /\ Cardinality(u.active) \in Nat
        /\ IsFiniteSet(u.passive) /\ Cardinality(u.passive) \in Nat
    BY <2>3, ViewFinite
  <2>5. Cardinality(u.active) < MaxActive
    BY <2>2
  <2>6. w(x) \in View
    BY <2>3 DEF View
  <2>7. Cardinality(u.active \cup {p}) <= MaxActive
    <3> HIDE DEF u
    <3>1. Cardinality(u.active \cup {p}) =
             IF p \in u.active THEN Cardinality(u.active) ELSE Cardinality(u.active) + 1
      BY Zenon, <2>4, FS_AddElement
    <3>2. QED
      BY <2>4, <2>5, <3>1, MaxActiveAssumption
  <2>8. Cardinality(u.passive \ {p}) <= MaxPassive
    <3>1. Cardinality(u.passive) <= MaxPassive
      BY <2>3 DEF ViewInv
    <3>2. CASE p \in u.passive
      <4> HIDE DEF u
      <4>1. Cardinality(u.passive \ {p}) = Cardinality(u.passive) - 1
        BY Zenon, <2>4, <3>2, FS_RemoveElement
      <4>2. QED
        BY <2>4, <3>1, <4>1, MaxPassiveAssumption
    <3>3. CASE p \notin u.passive
      <4>1. u.passive \ {p} = u.passive
        BY <3>3
      <4>2. QED
        BY <3>1, <4>1
    <3>4. QED
      BY <3>2, <3>3
  <2>9. /\ w(x).active = u.active \cup {p}
        /\ w(x).passive = u.passive \ {p}
        /\ w(x).complete \subseteq u.complete \cup {p}
    OBVIOUS
  <2>10. ViewInv(local, w(x))
    <3> HIDE DEF w
    <3>1. /\ u.complete \subseteq u.active
          /\ u.active \cap u.passive = {}
          /\ local \notin u.active /\ local \notin u.passive
      BY <2>3 DEF ViewInv, IsKnown
    <3> HIDE DEF u
    <3>2. /\ w(x).complete \subseteq w(x).active
          /\ w(x).active \cap w(x).passive = {}
          /\ local \notin w(x).active \cup w(x).passive
      BY <1>2, <2>9, <3>1
    <3>3. /\ Cardinality(w(x).active) <= MaxActive
          /\ Cardinality(w(x).passive) <= MaxPassive
      BY <2>7, <2>8, <2>9
    <3>4. QED
      BY <2>6, <3>2, <3>3 DEF ViewInv, IsKnown
  <2>11. <<Promoted(p)>> \o x.trans \in Seq(Transition(local))
    <3>1. Promoted(p) \in Transition(local)
      BY <1>2 DEF Promoted, Transition
    <3>2. QED
      BY <2>2, <3>1 DEF Good
  <2> HIDE DEF w
  <2>12. QED
    BY <2>1, <2>10, <2>11 DEF Outcome, Good
<1>3. QED
  BY <1>1, <1>2

-----------------------------------------------------------------------------
(***************************************************************************)
(* What the transitions of an operation tell.                              *)
(***************************************************************************)

\* The peers of the transitions of a kind.
Names(ts, kind) == {t.peer : t \in {u \in {ts[i] : i \in DOMAIN ts} : u.kind = kind}}

\* The transitions of o account for every change it makes to the view v.
Tells(v, o) ==
    /\ o.view.active \ v.active = Names(o.trans, "Promoted")
    /\ v.active \ o.view.active \subseteq Names(o.trans, "Demoted") \cup Names(o.trans, "Evicted")
    /\ (v.active \cup v.passive) \ (o.view.active \cup o.view.passive)
         \subseteq Names(o.trans, "Evicted")

\* An operation on the passive map: nobody is promoted, who is dropped is named.
PassiveTells(v, o) ==
    /\ o.view.active = v.active
    /\ Names(o.trans, "Promoted") = {}
    /\ v.passive \ o.view.passive \subseteq Names(o.trans, "Evicted")

\* The names of no transitions, of one, and of two lists of them.
LEMMA NamesOfNone == \A kind : Names(<<>>, kind) = {}
BY DEF Names

LEMMA NamesOfOne ==
    ASSUME NEW t, NEW kind
    PROVE  Names(<<t>>, kind) = IF t.kind = kind THEN {t.peer} ELSE {}
<1>1. DOMAIN <<t>> = {1} /\ <<t>>[1] = t
  OBVIOUS
<1>2. {<<t>>[i] : i \in DOMAIN <<t>>} = {t}
  BY <1>1
<1> QED
  BY <1>2 DEF Names

LEMMA NamesOfBoth ==
    ASSUME NEW S, NEW a \in Seq(S), NEW b \in Seq(S), NEW kind
    PROVE  Names(a \o b, kind) = Names(a, kind) \cup Names(b, kind)
<1>1. /\ Len(a) \in Nat /\ Len(b) \in Nat
      /\ DOMAIN a = 1 .. Len(a) /\ DOMAIN b = 1 .. Len(b)
      /\ DOMAIN (a \o b) = 1 .. Len(a) + Len(b)
      /\ \A i \in 1 .. Len(a) + Len(b) : (a \o b)[i] = IF i <= Len(a) THEN a[i] ELSE b[i - Len(a)]
  OBVIOUS
<1> DEFINE ab == a \o b
<1>2. {ab[i] : i \in DOMAIN ab} = {a[i] : i \in DOMAIN a} \cup {b[i] : i \in DOMAIN b}
  <2> DEFINE m == Len(a)  n == Len(b)
  <2>1. /\ m \in Nat /\ n \in Nat /\ DOMAIN a = 1 .. m /\ DOMAIN b = 1 .. n
        /\ DOMAIN ab = 1 .. m + n
        /\ \A i \in 1 .. m + n : ab[i] = IF i <= m THEN a[i] ELSE b[i - m]
    BY <1>1
  <2> HIDE DEF m, n, ab
  <2>2. ASSUME NEW i \in 1 .. m + n
        PROVE  (\E j \in 1 .. m : ab[i] = a[j]) \/ (\E j \in 1 .. n : ab[i] = b[j])
    <3>1. CASE i <= m
      BY <2>1, <3>1
    <3>2. CASE ~(i <= m)
      <4>1. i - m \in 1 .. n
        BY <2>1, <3>2
      <4> QED
        BY <2>1, <3>2, <4>1
    <3> QED
      BY <3>1, <3>2
  <2>3. ASSUME NEW j \in 1 .. m PROVE \E i \in 1 .. m + n : ab[i] = a[j]
    <3>1. j \in 1 .. m + n /\ j <= m
      BY <2>1
    <3> QED
      BY <2>1, <3>1
  <2>4. ASSUME NEW j \in 1 .. n PROVE \E i \in 1 .. m + n : ab[i] = b[j]
    <3>1. j + m \in 1 .. m + n /\ ~(j + m <= m) /\ (j + m) - m = j
      BY <2>1
    <3> QED
      BY <2>1, <3>1
  <2>5. \A z : z \in {ab[i] : i \in 1 .. m + n}
               <=> z \in {a[i] : i \in 1 .. m} \cup {b[i] : i \in 1 .. n}
    <3> SUFFICES ASSUME NEW z
                 PROVE  z \in {ab[i] : i \in 1 .. m + n}
                          <=> z \in {a[i] : i \in 1 .. m} \cup {b[i] : i \in 1 .. n}
      BY Zenon
    <3>1. CASE z \in {ab[i] : i \in 1 .. m + n}
      <4>1. PICK i \in 1 .. m + n : z = ab[i]
        BY <3>1
      <4> QED
        BY <2>2, <3>1, <4>1
    <3>2. CASE z \in {a[i] : i \in 1 .. m}
      <4>1. PICK j \in 1 .. m : z = a[j]
        BY <3>2
      <4> QED
        BY <2>3, <3>2, <4>1
    <3>3. CASE z \in {b[i] : i \in 1 .. n}
      <4>1. PICK j \in 1 .. n : z = b[j]
        BY <3>3
      <4> QED
        BY <2>4, <3>3, <4>1
    <3> QED
      BY <3>1, <3>2, <3>3
  <2>6. {ab[i] : i \in 1 .. m + n} = {a[i] : i \in 1 .. m} \cup {b[i] : i \in 1 .. n}
    <3> DEFINE A == {ab[i] : i \in 1 .. m + n}  B == {a[i] : i \in 1 .. m} \cup {b[i] : i \in 1 .. n}
    <3>1. \A z : z \in A <=> z \in B
      BY Zenon, <2>5
    <3> HIDE DEF A, B
    <3>2. A = B
      BY <3>1, Zenon
    <3> QED
      BY Zenon, <3>2 DEF A, B
  <2>7. DOMAIN ab = 1 .. m + n /\ DOMAIN a = 1 .. m /\ DOMAIN b = 1 .. n
    BY <2>1
  <2> QED
    BY Zenon, <2>6, <2>7
<1> HIDE DEF ab
<1>3. Names(ab, kind) = Names(a, kind) \cup Names(b, kind)
  BY Zenon, <1>2 DEF Names
<1> QED
  BY <1>3 DEF ab

\* The names of one transition of each kind.
LEMMA NamesOfPromoted ==
    ASSUME NEW p
    PROVE  /\ Names(<<Promoted(p)>>, "Promoted") = {p} /\ Names(<<Promoted(p)>>, "Demoted") = {}
           /\ Names(<<Promoted(p)>>, "Evicted") = {}
<1>1. Promoted(p).kind = "Promoted" /\ Promoted(p).peer = p
  BY DEF Promoted
<1>2. /\ Names(<<Promoted(p)>>, "Promoted") = {Promoted(p).peer}
      /\ Names(<<Promoted(p)>>, "Demoted") = {} /\ Names(<<Promoted(p)>>, "Evicted") = {}
  BY <1>1, NamesOfOne, Zenon
<1> QED
  BY <1>1, <1>2

LEMMA NamesOfDemoted ==
    ASSUME NEW p
    PROVE  /\ Names(<<Demoted(p)>>, "Promoted") = {} /\ Names(<<Demoted(p)>>, "Demoted") = {p}
           /\ Names(<<Demoted(p)>>, "Evicted") = {}
<1>1. Demoted(p).kind = "Demoted" /\ Demoted(p).peer = p
  BY DEF Demoted
<1>2. /\ Names(<<Demoted(p)>>, "Demoted") = {Demoted(p).peer}
      /\ Names(<<Demoted(p)>>, "Promoted") = {} /\ Names(<<Demoted(p)>>, "Evicted") = {}
  BY <1>1, NamesOfOne, Zenon
<1> QED
  BY <1>1, <1>2

LEMMA NamesOfEvicted ==
    ASSUME NEW p
    PROVE  /\ Names(<<Evicted(p)>>, "Promoted") = {} /\ Names(<<Evicted(p)>>, "Demoted") = {}
           /\ Names(<<Evicted(p)>>, "Evicted") = {p}
<1>1. Evicted(p).kind = "Evicted" /\ Evicted(p).peer = p
  BY DEF Evicted
<1>2. /\ Names(<<Evicted(p)>>, "Evicted") = {Evicted(p).peer}
      /\ Names(<<Evicted(p)>>, "Promoted") = {} /\ Names(<<Evicted(p)>>, "Demoted") = {}
  BY <1>1, NamesOfOne, Zenon
<1> QED
  BY <1>1, <1>2

\* `add_passive` names the entry it replaces, and p has an entry after it unless
\* it is active or the local peer.
LEMMA AddPassiveTells ==
    ASSUME NEW local, NEW v \in View, NEW p \in Peers, NEW o \in AddPassive(local, v, p)
    PROVE  /\ PassiveTells(v, o)
           /\ p = local \/ p \in v.active \/ p \in o.view.passive
<1>1. CASE Ignored(local, v, p, o)
  BY <1>1, NamesOfNone DEF Ignored, Outcome, PassiveTells
<1>2. CASE Inserted(local, v, p, o)
  <2>1. o.trans = <<>> /\ o.view.active = v.active /\ o.view.passive = v.passive \cup {p}
    BY <1>2 DEF Inserted, Outcome, View
  <2> QED
    BY <2>1, NamesOfNone DEF PassiveTells
<1>3. CASE \E q \in v.passive : Replaced(local, v, p, q, o)
  <2>1. PICK q \in v.passive : Replaced(local, v, p, q, o)
    BY <1>3
  <2>2. /\ o.trans = <<Evicted(q)>> /\ o.view.active = v.active
        /\ o.view.passive = (v.passive \ {q}) \cup {p}
    BY <2>1 DEF Replaced, Outcome, View
  <2>3. Names(o.trans, "Promoted") = {} /\ Names(o.trans, "Evicted") = {q}
    BY <2>2, NamesOfEvicted
  <2> QED
    BY <2>2, <2>3 DEF PassiveTells
<1> QED
  BY <1>1, <1>2, <1>3, AddPassiveFacts

\* `demote` names p if it was active, and promotes nobody.
LEMMA DemoteTells ==
    ASSUME NEW local, NEW v, ViewInv(local, v), NEW p, NEW o \in Demote(local, v, p)
    PROVE  Tells(v, o) /\ Names(o.trans, "Promoted") = {}
<1>1. CASE p \notin v.active
  <2>1. o = Outcome(v, <<>>)
    BY <1>1 DEF Demote
  <2> QED
    BY <2>1, NamesOfNone DEF Outcome, Tells
<1>2. CASE p \in v.active
  <2> DEFINE w == Without(v, p)
  <2>1. ViewInv(local, w) /\ w \in View /\ p \in Peers /\ p # local
    BY <1>2, WithoutGood DEF ViewInv
  <2>2. w.active = v.active \ {p} /\ w.passive = v.passive
    BY DEF ViewInv, View, Without
  <2> HIDE DEF w
  <2>3. CASE p \notin v.complete
    <3>1. o.view = w /\ o.trans = <<Evicted(p)>>
      BY <1>2, <2>3 DEF Demote, Outcome, w
    <3>2. /\ Names(o.trans, "Promoted") = {} /\ Names(o.trans, "Evicted") = {p}
          /\ Names(o.trans, "Demoted") = {}
      BY <3>1, NamesOfEvicted
    <3> QED
      BY <2>2, <3>1, <3>2 DEF Tells
  <2>4. CASE p \in v.complete
    <3>1. PICK x \in AddPassive(local, w, p) : o = Outcome(x.view, <<Demoted(p)>> \o x.trans)
      BY <1>2, <2>4 DEF Demote, w
    <3>2. o.view = x.view /\ o.trans = <<Demoted(p)>> \o x.trans
      BY <3>1 DEF Outcome
    <3>3. PassiveTells(w, x) /\ p \in x.view.passive
      BY <2>1, <2>2, AddPassiveTells
    <3>4. x.trans \in Seq(Transition(local)) /\ <<Demoted(p)>> \in Seq(Transition(local))
      <4>1. Demoted(p) \in Transition(local)
        BY <2>1 DEF Demoted, Transition
      <4>2. Good(local, x)
        BY <2>1, AddPassiveGood
      <4> QED
        BY <4>1, <4>2 DEF Good
    <3>5. /\ Names(o.trans, "Promoted") = Names(x.trans, "Promoted")
          /\ Names(o.trans, "Demoted") = {p} \cup Names(x.trans, "Demoted")
          /\ Names(o.trans, "Evicted") = Names(x.trans, "Evicted")
      <4> DEFINE a == <<Demoted(p)>>  b == x.trans  S == Transition(local)
      <4>1. a \in Seq(S) /\ b \in Seq(S) /\ o.trans = a \o b
        BY <3>2, <3>4
      <4>2. /\ Names(a, "Promoted") = {} /\ Names(a, "Demoted") = {p} /\ Names(a, "Evicted") = {}
        BY Zenon, NamesOfDemoted
      <4> HIDE DEF a, b, S
      <4>3. \A kind : Names(a \o b, kind) = Names(a, kind) \cup Names(b, kind)
        BY <4>1, NamesOfBoth
      <4>4. \A kind : Names(o.trans, kind) = Names(a, kind) \cup Names(b, kind)
        BY Zenon, <4>1, <4>3
      <4>5. /\ Names(o.trans, "Promoted") = Names(a, "Promoted") \cup Names(b, "Promoted")
            /\ Names(o.trans, "Demoted") = Names(a, "Demoted") \cup Names(b, "Demoted")
            /\ Names(o.trans, "Evicted") = Names(a, "Evicted") \cup Names(b, "Evicted")
        BY Zenon, <4>4
      <4> QED
        BY <4>1, <4>2, <4>5, Zenon DEF b
    <3> QED
      BY <2>2, <3>2, <3>3, <3>5 DEF Tells, PassiveTells
  <2> QED
    BY <2>3, <2>4
<1> QED
  BY <1>1, <1>2

\* `add_active` names the newcomer, and whoever makes room for it.
LEMMA AddActiveTells ==
    ASSUME NEW local, NEW v, ViewInv(local, v), NEW p \in Peers, NEW c \in BOOLEAN,
           NEW o \in AddActive(local, v, p, c)
    PROVE  Tells(v, o)
<1>1. CASE p = local \/ p \in v.active
  <2>1. o = Outcome(v, <<>>)
    BY <1>1 DEF AddActive
  <2> QED
    BY <2>1, NamesOfNone DEF Outcome, Tells
<1>2. CASE ~(p = local \/ p \in v.active)
  <2> DEFINE Room == IF IsActiveFull(v) THEN DemoteRandom(local, v) ELSE {Outcome(v, <<>>)}
             w(x) == [active   |-> x.view.active \cup {p},
                      complete |-> IF c THEN x.view.complete \cup {p} ELSE x.view.complete,
                      passive  |-> x.view.passive \ {p}]
  <2>1. PICK x \in Room : o = Outcome(w(x), <<Promoted(p)>> \o x.trans)
    BY Zenon, <1>2 DEF AddActive
  <2>2. /\ Tells(v, x) /\ Names(x.trans, "Promoted") = {}
        /\ x.trans \in Seq(Transition(local))
    <3>1. CASE x = Outcome(v, <<>>)
      BY <3>1, NamesOfNone DEF Outcome, Tells
    <3>2. CASE \E q \in v.active : x \in Demote(local, v, q)
      BY <3>2, DemoteTells, DemoteGood DEF Good
    <3> QED
      BY <2>1, <3>1, <3>2 DEF DemoteRandom
  <2>3. /\ o.view.active = x.view.active \cup {p}
        /\ o.view.passive = x.view.passive \ {p}
        /\ o.trans = <<Promoted(p)>> \o x.trans
    BY <2>1 DEF Outcome
  <2> HIDE DEF Room, w
  <2>4. <<Promoted(p)>> \in Seq(Transition(local))
    BY <1>2 DEF Promoted, Transition
  <2>5. /\ Names(o.trans, "Promoted") = {p}
        /\ Names(o.trans, "Demoted") = Names(x.trans, "Demoted")
        /\ Names(o.trans, "Evicted") = Names(x.trans, "Evicted")
    <3> DEFINE a == <<Promoted(p)>>  b == x.trans  S == Transition(local)
    <3>1. a \in Seq(S) /\ b \in Seq(S) /\ o.trans = a \o b /\ Names(b, "Promoted") = {}
      BY <2>2, <2>3, <2>4
    <3>2. /\ Names(a, "Promoted") = {p} /\ Names(a, "Demoted") = {} /\ Names(a, "Evicted") = {}
      BY Zenon, NamesOfPromoted
    <3> HIDE DEF a, b, S
    <3>3. \A kind : Names(a \o b, kind) = Names(a, kind) \cup Names(b, kind)
      BY <3>1, NamesOfBoth
    <3>4. \A kind : Names(o.trans, kind) = Names(a, kind) \cup Names(b, kind)
      BY Zenon, <3>1, <3>3
    <3>5. /\ Names(o.trans, "Promoted") = Names(a, "Promoted") \cup Names(b, "Promoted")
          /\ Names(o.trans, "Demoted") = Names(a, "Demoted") \cup Names(b, "Demoted")
          /\ Names(o.trans, "Evicted") = Names(a, "Evicted") \cup Names(b, "Evicted")
      BY Zenon, <3>4
    <3> QED
      BY <3>1, <3>2, <3>5, Zenon DEF b
  <2> QED
    BY <1>2, <2>2, <2>3, <2>5 DEF Tells
<1> QED
  BY <1>1, <1>2

\* Mathematical induction on a set of numbers.
LEMMA SetInduction ==
    ASSUME NEW T \in SUBSET Nat, 0 \in T, \A n \in T : n + 1 \in T
    PROVE  T = Nat
<1>1. SUFFICES ASSUME Nat \ T # {} PROVE FALSE
  BY Zenon
<1>2. PICK x \in Nat \ T : \A y \in Nat \ T : ~(<<y, x>> \in OpToRel(<, Nat))
  BY <1>1, NatLessThanWellFounded, WFMin, Zenon
<1>3. \A y \in Nat \ T : ~(y < x)
  BY Zenon, <1>2 DEF OpToRel
<1>4. x # 0 /\ x - 1 \in Nat /\ x - 1 < x
  BY SMT
<1>5. x - 1 \in T
  BY <1>3, <1>4
<1>6. (x - 1) + 1 \in T
  BY <1>5
<1>7. QED
  BY <1>6, <1>4

\* `add_passive` over a list of peers preserves the invariant of the view, and
\* names all entries it replaces.
LEMMA AddPassiveAllGood ==
    ASSUME NEW local, NEW v, ViewInv(local, v), NEW ps \in Seq(Peers),
           NEW o \in AddPassiveAll(local, v, ps)
    PROVE  Good(local, o) /\ PassiveTells(v, o)
<1> DEFINE step(x, p) == {Outcome(y.view, x.trans \o y.trans) : y \in AddPassive(local, x.view, p)}
           next(S, i) == UNION {step(x, ps[i]) : x \in S}
           Dom == 0 .. Len(ps)
           IsFold(f, n) == f = [i \in 0 .. n |-> IF i = 0 THEN {Outcome(v, <<>>)} ELSE next(f[i - 1], i)]
           fold[i \in Dom] == IF i = 0 THEN {Outcome(v, <<>>)} ELSE next(fold[i - 1], i)
<1>1. AddPassiveAll(local, v, ps) = fold[Len(ps)]
  BY DEF AddPassiveAll
<1> HIDE DEF step
<1>2. \A n \in Nat : \E f : IsFold(f, n)
  <2> DEFINE T == {n \in Nat : \E f : IsFold(f, n)}
  <2>1. 0 \in T
    <3>1. IsFold([i \in 0 .. 0 |-> {Outcome(v, <<>>)}], 0)
      BY SMT
    <3>2. QED
      BY Zenon, <3>1
  <2>2. ASSUME NEW n \in T PROVE n + 1 \in T
    <3>1. PICK f : IsFold(f, n)
      BY <2>2
    <3> DEFINE g == [i \in 0 .. n + 1 |-> IF i <= n THEN f[i] ELSE next(f[n], n + 1)]
    <3>2. IsFold(g, n + 1)
      <4> HIDE DEF next
      <4>1. ASSUME NEW i \in 0 .. n + 1
            PROVE  g[i] = IF i = 0 THEN {Outcome(v, <<>>)} ELSE next(g[i - 1], i)
        <5>1. CASE i = 0
          BY <3>1, <5>1
        <5>2. CASE i # 0 /\ i <= n
          <6>1. g[i] = f[i] /\ g[i - 1] = f[i - 1] /\ i \in 0 .. n
            BY <5>2
          <6>2. f[i] = next(f[i - 1], i)
            BY Zenon, <3>1, <5>2, <6>1
          <6>3. QED
            BY <5>2, <6>1, <6>2
        <5>3. CASE i = n + 1
          BY <5>3
        <5>4. i = 0 \/ (i # 0 /\ i <= n) \/ i = n + 1
          BY SMT
        <5> HIDE DEF g
        <5>5. QED
          BY <5>1, <5>2, <5>3, <5>4, Zenon
      <4>2. QED
        BY Zenon, <4>1
    <3>3. n + 1 \in Nat
      BY SMT
    <3> HIDE DEF g, IsFold
    <3>4. \E h : IsFold(h, n + 1)
      BY <3>2, Zenon
    <3>5. QED
      BY <3>3, <3>4, Zenon
  <2>3. T = Nat
    <3> HIDE DEF T
    <3>1. T \in SUBSET Nat
      BY DEF T
    <3>2. QED
      BY <2>1, <2>2, <3>1, SetInduction
  <2>4. QED
    BY Zenon, <2>3
<1>3. IsFold(fold, Len(ps))
  <2> HIDE DEF next
  <2>1. \E f : IsFold(f, Len(ps))
    <3> HIDE DEF IsFold
    <3>1. Len(ps) \in Nat
      OBVIOUS
    <3>2. QED
      BY <1>2, <3>1
  <2>2. QED
    BY <2>1, Zenon
<1> HIDE DEF fold
<1>4. /\ fold[0] = {Outcome(v, <<>>)}
      /\ \A i \in 1 .. Len(ps) : fold[i] = UNION {step(x, ps[i]) : x \in fold[i - 1]}
  <2>1. Len(ps) \in Nat
    OBVIOUS
  <2>2. ASSUME NEW i \in 0 .. Len(ps)
        PROVE  fold[i] = IF i = 0 THEN {Outcome(v, <<>>)} ELSE next(fold[i - 1], i)
    <3> HIDE DEF next
    <3>1. QED
      BY <1>3
  <2>3. fold[0] = {Outcome(v, <<>>)}
    <3> HIDE DEF next
    <3>1. QED
      BY <2>1, <2>2
  <2>4. ASSUME NEW i \in 1 .. Len(ps)
        PROVE  fold[i] = next(fold[i - 1], i)
    <3> HIDE DEF next
    <3>1. QED
      BY <2>1, <2>2
  <2>5. QED
    BY <2>3, <2>4
<1> HIDE DEF next, IsFold
<1> DEFINE Told(x) == Good(local, x) /\ PassiveTells(v, x)
<1>5. \A n \in Nat : n \in Dom => \A x \in fold[n] : Told(x)
  <2> DEFINE T == {n \in Nat : n \in Dom => \A x \in fold[n] : Told(x)}
  <2>1. 0 \in T
    <3>1. Told(Outcome(v, <<>>))
      BY NamesOfNone DEF Good, Outcome, PassiveTells
    <3>2. QED
      BY <1>4, <3>1
  <2>2. ASSUME NEW n \in T PROVE n + 1 \in T
    <3>1. SUFFICES ASSUME n + 1 \in Dom, NEW x \in fold[n + 1] PROVE Told(x)
      BY <2>2
    <3>2. /\ n \in Nat
          /\ n \in Dom
          /\ \A z \in fold[n] : Told(z)
          /\ n + 1 \in 1 .. Len(ps)
          /\ (n + 1) - 1 = n
      BY <2>2, <3>1
    <3>3. PICK z \in fold[n] : x \in step(z, ps[n + 1])
      BY <1>4, <3>1, <3>2
    <3>4. PICK y \in AddPassive(local, z.view, ps[n + 1]) : x = Outcome(y.view, z.trans \o y.trans)
      BY <3>3 DEF step
    <3>5. ps[n + 1] \in Peers
      BY <3>2
    <3>6. Good(local, y) /\ PassiveTells(z.view, y)
      BY <3>2, <3>5, AddPassiveGood, AddPassiveTells DEF Good, ViewInv
    <3>7. /\ z.trans \o y.trans \in Seq(Transition(local))
          /\ z.trans \in Seq(Transition(local)) /\ y.trans \in Seq(Transition(local))
      BY <3>2, <3>6 DEF Good
    <3>8. x.view = y.view /\ x.trans = z.trans \o y.trans
      BY <3>4, Zenon DEF Outcome
    <3>9. /\ Names(x.trans, "Promoted") = Names(z.trans, "Promoted") \cup Names(y.trans, "Promoted")
          /\ Names(x.trans, "Evicted") = Names(z.trans, "Evicted") \cup Names(y.trans, "Evicted")
      BY <3>7, <3>8, NamesOfBoth
    <3>10. Good(local, x)
      BY <3>6, <3>7, <3>8 DEF Good
    <3>11. PassiveTells(v, x)
      BY <3>2, <3>6, <3>8, <3>9, Zenon DEF PassiveTells
    <3>12. QED
      BY <3>10, <3>11
  <2>3. T = Nat
    <3> HIDE DEF T
    <3>1. T \in SUBSET Nat
      BY DEF T
    <3>2. QED
      BY <2>1, <2>2, <3>1, SetInduction
  <2>4. QED
    BY <2>3
<1>6. QED
  BY <1>1, <1>5

-----------------------------------------------------------------------------
(***************************************************************************)
(* The operations of the membership protocol.                              *)
(***************************************************************************)

\* The ticks t, carried out on the view v, do not dial more peers than there is
\* room for, unless it is the one tick, nor the local peer, nor an active one.
Fits(local, v, t) ==
    LET connects == {i \in DOMAIN t : t[i].type = "Connect"} IN
    /\ \A i \in connects : t[i].to \notin v.active \cup {local}
    /\ Cardinality(connects) <= MaxActive - Cardinality(v.active) \/ Len(t) = 1

Undialled(t) == \A i \in DOMAIN t : t[i].type # "Connect"

\* What a call that finds the view v returns.
Sound(local, v, r) == Good(local, r) /\ Tells(v, r) /\ Fits(local, r.view, r.ticks)

\* Without a Connect there is nothing to fit.
LEMMA UndialledFits ==
    ASSUME NEW local, NEW v, ViewInv(local, v), NEW t, Undialled(t)
    PROVE  Fits(local, v, t)
<1>1. Cardinality(v.active) \in Nat /\ Cardinality(v.active) <= MaxActive
  BY ViewFinite DEF ViewInv
<1>2. {i \in DOMAIN t : t[i].type = "Connect"} = {}
  BY DEF Undialled
<1>3. Cardinality({}) = 0
  BY FS_EmptySet
<1> DEFINE n == Cardinality(v.active)
<1>4. 0 <= MaxActive - n
  <2> HIDE DEF n
  <2> QED
    BY <1>1, MaxActiveAssumption DEF n
<1> QED
  BY <1>2, <1>3, <1>4, Zenon DEF Fits

\* The effects of transitions (`impl From<Transition> for Option<Tick>`).
Effects(local) == {TickOf(t) : t \in Transition(local)}

LEMMA TicksOfTransitions ==
    ASSUME NEW local, NEW ts \in Seq(Transition(local))
    PROVE  TicksOf(ts) \in Seq(Effects(local))
<1> DEFINE n == Len(ts)
           S == Seq(Effects(local))
           next(s, i) == IF ts[i].kind = "Promoted" THEN s ELSE Append(s, TickOf(ts[i]))
           IsFold(f, m) == f = [i \in 0 .. m |-> IF i = 0 THEN <<>> ELSE next(f[i - 1], i)]
           fold[i \in 0 .. n] == IF i = 0 THEN <<>> ELSE next(fold[i - 1], i)
<1>1. TicksOf(ts) = fold[n]
  BY DEF TicksOf
<1>2. n \in Nat /\ \A i \in 1 .. n : ts[i] \in Transition(local)
  OBVIOUS
<1>3. ASSUME NEW s \in S, NEW i \in 1 .. n PROVE next(s, i) \in S
  <2>1. TickOf(ts[i]) \in Effects(local)
    BY <1>2 DEF Effects
  <2> QED
    BY <2>1
<1>4. <<>> \in S
  OBVIOUS
<1> HIDE DEF next, S, n
<1>5. \A m \in Nat : \E f : IsFold(f, m)
  <2> DEFINE T == {m \in Nat : \E f : IsFold(f, m)}
  <2>1. 0 \in T
    <3>1. IsFold([i \in 0 .. 0 |-> <<>>], 0)
      BY SMT
    <3> QED
      BY Zenon, <3>1
  <2>2. ASSUME NEW m \in T PROVE m + 1 \in T
    <3>1. PICK f : IsFold(f, m)
      BY <2>2
    <3> DEFINE g == [i \in 0 .. m + 1 |-> IF i <= m THEN f[i] ELSE next(f[m], m + 1)]
    <3>2. ASSUME NEW i \in 0 .. m + 1
          PROVE  g[i] = IF i = 0 THEN <<>> ELSE next(g[i - 1], i)
      <4>1. CASE i = 0
        BY <3>1, <4>1
      <4>2. CASE i # 0 /\ i <= m
        <5>1. g[i] = f[i] /\ g[i - 1] = f[i - 1] /\ i \in 0 .. m
          BY <4>2
        <5>2. f[i] = next(f[i - 1], i)
          BY Zenon, <3>1, <4>2, <5>1
        <5> QED
          BY <4>2, <5>1, <5>2
      <4>3. CASE i = m + 1
        BY <4>3
      <4>4. i = 0 \/ (i # 0 /\ i <= m) \/ i = m + 1
        BY SMT
      <4> HIDE DEF g
      <4> QED
        BY <4>1, <4>2, <4>3, <4>4, Zenon
    <3>3. IsFold(g, m + 1)
      BY Zenon, <3>2
    <3>4. m + 1 \in Nat
      BY SMT
    <3> HIDE DEF g, IsFold
    <3>5. \E h : IsFold(h, m + 1)
      BY <3>3, Zenon
    <3> QED
      BY <3>4, <3>5, Zenon
  <2> HIDE DEF T
  <2>3. T = Nat
    <3>1. T \in SUBSET Nat
      BY DEF T
    <3> QED
      BY <2>1, <2>2, <3>1, SetInduction
  <2> QED
    BY Zenon, <2>3 DEF T
<1>6. IsFold(fold, n)
  <2>1. \E f : IsFold(f, n)
    <3> HIDE DEF IsFold
    <3> QED
      BY <1>2, <1>5
  <2> QED
    BY <2>1, Zenon
<1> HIDE DEF fold
<1>7. \A m \in Nat : m \in 0 .. n => fold[m] \in S
  <2> DEFINE T == {m \in Nat : m \in 0 .. n => fold[m] \in S}
  <2>1. 0 \in T
    BY <1>2, <1>4, <1>6
  <2>2. ASSUME NEW m \in T PROVE m + 1 \in T
    <3> SUFFICES ASSUME m + 1 \in 0 .. n PROVE fold[m + 1] \in S
      BY <2>2
    <3>1. /\ m \in Nat /\ m \in 0 .. n /\ m + 1 \in 1 .. n /\ (m + 1) - 1 = m /\ m + 1 # 0
      BY <1>2, <2>2
    <3>2. fold[m + 1] = next(fold[m], m + 1)
      BY <1>6, <3>1
    <3> QED
      BY <1>3, <2>2, <3>1, <3>2
  <2> HIDE DEF T
  <2>3. T = Nat
    <3>1. T \in SUBSET Nat
      BY DEF T
    <3> QED
      BY <2>1, <2>2, <3>1, SetInduction
  <2> QED
    BY <2>3 DEF T
<1>8. n \in 0 .. n
  BY <1>2
<1> QED
  BY <1>1, <1>2, <1>7, <1>8 DEF S

\* No transition calls for a connection, whatever ticks come before or behind.
LEMMA TransitionsUndialled ==
    ASSUME NEW local, NEW ts \in Seq(Transition(local)), NEW t, t.type # "Connect"
    PROVE  /\ Undialled(TicksOf(ts))
           /\ Undialled(TicksOf(ts) \o <<>>) /\ Undialled(<<>> \o TicksOf(ts))
           /\ Undialled(TicksOf(ts) \o <<t>>) /\ Undialled(<<t>> \o TicksOf(ts))
<1> DEFINE S == Effects(local) \cup {t}
           s == TicksOf(ts)
<1>1. \A x \in S : x.type # "Connect"
  BY DEF Effects, TickOf, Try, Forget
<1>2. s \in Seq(S)
  BY TicksOfTransitions
<1>3. <<t>> \in Seq(S) /\ <<>> \in Seq(S)
  OBVIOUS
<1> HIDE DEF S, s
<1>4. ASSUME NEW q \in Seq(S) PROVE Undialled(q)
  BY <1>1 DEF Undialled
<1>5. s \o <<>> \in Seq(S) /\ <<>> \o s \in Seq(S) /\ s \o <<t>> \in Seq(S) /\ <<t>> \o s \in Seq(S)
  BY <1>2, <1>3
<1> QED
  BY <1>2, <1>4, <1>5, Zenon DEF s

\* What is told of the passive map is all there is to tell.
LEMMA PassiveIsAll ==
    ASSUME NEW v, NEW o, PassiveTells(v, o)
    PROVE  Tells(v, o)
BY DEF Tells, PassiveTells

\* What the caller gets back has the view and the transitions of the outcome.
LEMMA CollectSound ==
    ASSUME NEW local, NEW v, NEW S, \A o \in S : Good(local, o) /\ Tells(v, o),
           NEW r \in Collect(S)
    PROVE  Sound(local, v, r)
<1>1. PICK o \in S : r = TnT(o.view, o.trans, TicksOf(o.trans))
  BY DEF Collect
<1>2. Undialled(r.ticks)
  <2>1. r.ticks = TicksOf(o.trans) /\ o.trans \in Seq(Transition(local))
    BY <1>1 DEF TnT, Good
  <2>2. Reply(r, r).type # "Connect"
    BY DEF Reply
  <2> QED
    BY <2>1, <2>2, TransitionsUndialled, Zenon
<1>3. Good(local, r) /\ Tells(v, r)
  BY <1>1 DEF TnT, Good, Tells
<1> QED
  BY <1>2, <1>3, UndialledFits DEF Sound, Good

\* A call that leaves the view alone.
LEMMA SameSound ==
    ASSUME NEW local, NEW v, ViewInv(local, v), NEW t, Fits(local, v, t)
    PROVE  Sound(local, v, TnT(v, <<>>, t))
BY NamesOfNone DEF Good, TnT, Tells, Sound

\* The peers chosen to be promoted fit into the free slots.
LEMMA PromotedFit ==
    ASSUME NEW local, NEW v, ViewInv(local, v), NEW s \in ChoosePassiveToPromote(v)
    PROVE  Fits(local, v, [i \in DOMAIN s |-> Connect(s[i])])
<1> DEFINE free == MaxActive - Cardinality(v.active)
           k == IF Cardinality(v.passive) < free THEN Cardinality(v.passive) ELSE free
           t == [i \in DOMAIN s |-> Connect(s[i])]
<1>1. /\ Cardinality(v.active) \in Nat /\ Cardinality(v.passive) \in Nat
      /\ Cardinality(v.active) <= MaxActive
  BY ViewFinite DEF ViewInv
<1>2. free \in Nat /\ k \in Nat /\ k <= free
  BY <1>1, MaxActiveAssumption
<1>3. s \in [1 .. k -> v.passive]
  BY DEF ChoosePassiveToPromote, ChooseMultiple
<1>4. v.active \cap v.passive = {} /\ local \notin v.passive
  BY DEF ViewInv, IsKnown
<1> HIDE DEF free, k
<1>5. DOMAIN t = 1 .. k /\ \A i \in 1 .. k : t[i].type = "Connect" /\ t[i].to \in v.passive
  BY <1>3 DEF Connect
<1>6. Cardinality(1 .. k) = k
  BY <1>2, FS_Interval
<1> HIDE DEF t
<1>7. {i \in DOMAIN t : t[i].type = "Connect"} = 1 .. k
  BY <1>5
<1>8. Fits(local, v, t)
  BY <1>2, <1>4, <1>5, <1>6, <1>7, Zenon DEF Fits, free
<1> QED
  BY <1>8 DEF t

\* `connection_lost`
LEMMA ConnectionLostSound ==
    ASSUME NEW local, NEW v, ViewInv(local, v), NEW p, NEW r \in ConnectionLost(local, v, p)
    PROVE  Sound(local, v, r)
<1>1. PICK o \in Demote(local, v, p) :
         r \in IF o.trans = <<>>
               THEN {TnT(v, <<>>, <<>>)}
               ELSE {TnT(o.view, o.trans, [i \in DOMAIN s |-> Connect(s[i])]) :
                       s \in ChoosePassiveToPromote(o.view)}
  BY DEF ConnectionLost
<1>2. Good(local, o) /\ Tells(v, o)
  BY DemoteGood, DemoteTells
<1>3. CASE o.trans = <<>>
  <2>1. Fits(local, v, <<>>)
    BY UndialledFits DEF Undialled
  <2> QED
    BY <1>1, <1>3, <2>1, SameSound
<1>4. CASE o.trans # <<>>
  <2>1. PICK s \in ChoosePassiveToPromote(o.view) :
           r = TnT(o.view, o.trans, [i \in DOMAIN s |-> Connect(s[i])])
    BY <1>1, <1>4
  <2>2. Fits(local, o.view, [i \in DOMAIN s |-> Connect(s[i])])
    BY <1>2, PromotedFit DEF Good
  <2>3. /\ r.view = o.view /\ r.trans = o.trans
        /\ r.ticks = [i \in DOMAIN s |-> Connect(s[i])]
    BY <2>1 DEF TnT
  <2>4. Good(local, r) /\ Tells(v, r)
    BY <1>2, <2>3 DEF Good, Tells
  <2> QED
    BY <2>2, <2>3, <2>4 DEF Sound
<1> QED
  BY <1>3, <1>4

\* A received message names peers only.
LEMMA MessageFacts ==
    ASSUME NEW msg \in Message
    PROVE  /\ msg.type \in {"Join", "ForwardJoin", "Neighbour", "Disconnect",
                            "Shuffle", "ShuffleReply"}
           /\ msg.type = "ForwardJoin" => msg.joined \in Peers
           /\ msg.type \in {"Shuffle", "ShuffleReply"} => msg.peers \in Seq(Peers)
<1>1. \A ps \in PeerLists : ps \in Seq(Peers)
  BY MaxShuffledAssumption DEF PeerLists
<1>2. CASE msg \in {Join, Disconnect} \cup {Neighbour(prio) : prio \in {"High", "Normal"}}
  BY <1>2 DEF Join, Disconnect, Neighbour
<1>3. CASE \E p \in Peers, ttl \in 0 .. ActiveRandomWalkLength : msg = ForwardJoin(p, ttl)
  BY <1>3 DEF ForwardJoin
<1>4. CASE \E p \in Peers, ps \in PeerLists, ttl \in 0 .. ActiveRandomWalkLength :
               msg = Shuffle(p, ps, ttl)
  BY <1>1, <1>4 DEF Shuffle
<1>5. CASE \E ps \in PeerLists : msg = ShuffleReply(ps)
  BY <1>1, <1>5 DEF ShuffleReply
<1>6. QED
  BY <1>2, <1>3, <1>4, <1>5 DEF Message

\* A message is passed on with one tick, or with none.
LEMMA Forwarded ==
    ASSUME NEW v, NEW from, NEW msg, NEW fwd \in ForwardTo(v, from, msg)
    PROVE  fwd = <<>> \/ \E t : fwd = <<t>> /\ t.type # "Connect"
BY DEF ForwardTo, All

\* The result of an outcome o, with the ticks of its transitions and at most one
\* other, which dials nobody.
LEMMA OutcomeSound ==
    ASSUME NEW local, NEW v, NEW o, Good(local, o), Tells(v, o), NEW r,
           r.view = o.view, r.trans = o.trans,
           NEW f, f = <<>> \/ \E t : f = <<t>> /\ t.type # "Connect",
           r.ticks = TicksOf(o.trans) \o f \/ r.ticks = f \o TicksOf(o.trans)
    PROVE  Sound(local, v, r)
<1>1. Good(local, r) /\ Tells(v, r)
  BY DEF Good, Tells
<1>2. o.trans \in Seq(Transition(local))
  BY DEF Good
<1>3. Undialled(r.ticks)
  <2>1. CASE f = <<>>
    <3>1. Reply(1, 1).type # "Connect"
      BY DEF Reply
    <3> QED
      BY <1>2, <2>1, <3>1, TransitionsUndialled, Zenon
  <2>2. CASE \E t : f = <<t>> /\ t.type # "Connect"
    BY <1>2, <2>2, TransitionsUndialled, Zenon
  <2> QED
    BY <2>1, <2>2
<1> QED
  BY <1>1, <1>3, UndialledFits DEF Sound, Good

\* `apply`, whatever the message.
LEMMA ApplySound ==
    ASSUME NEW local, NEW v, ViewInv(local, v), NEW from \in Peers, NEW msg \in Message,
           NEW r \in Apply(local, v, from, msg)
    PROVE  Sound(local, v, r)
<1>1. /\ msg.type = "ForwardJoin" => msg.joined \in Peers
      /\ msg.type \in {"Shuffle", "ShuffleReply"} => msg.peers \in Seq(Peers)
  BY MessageFacts
<1>s. Good(local, Outcome(v, <<>>)) /\ Tells(v, Outcome(v, <<>>))
  BY NamesOfNone DEF Good, Outcome, Tells
<1>u. ASSUME NEW f, f = <<>> \/ \E t : f = <<t>> /\ t.type # "Connect"
      PROVE  Sound(local, v, TnT(v, <<>>, f))
  <2>1. Undialled(f)
    BY <1>u DEF Undialled
  <2> QED
    BY <2>1, UndialledFits, SameSound
<1>2. CASE msg.type = "Join"
  <2>1. r \in ApplyJoin(local, v, from)
    BY <1>2 DEF Apply
  <2>2. PICK o \in AddActive(local, v, from, TRUE) :
           r = TnT(o.view, o.trans, TicksOf(o.trans) \o Announce(o.view, from))
    BY Zenon, <2>1 DEF ApplyJoin
  <2>3. /\ r.view = o.view /\ r.trans = o.trans
        /\ r.ticks = TicksOf(o.trans) \o Announce(o.view, from)
    BY Zenon, <2>2 DEF TnT
  <2>4. Good(local, o) /\ Tells(v, o)
    BY Zenon, AddActiveGood, AddActiveTells
  <2> DEFINE f == Announce(o.view, from)
  <2>5. f = <<>> \/ \E t : f = <<t>> /\ t.type # "Connect"
    <3> DEFINE fwd == BroadcastRecipients(o.view, {from})
               t == All(fwd, ForwardJoin(from, ActiveRandomWalkLength))
    <3>1. t.type # "Connect"
      BY DEF All
    <3>2. f = <<>> \/ f = <<t>>
      BY ZenonT(40) DEF Announce
    <3> QED
      BY Zenon, <3>1, <3>2
  <2> HIDE DEF f
  <2> QED
    BY <2>3, <2>4, <2>5, OutcomeSound DEF f
<1>3. CASE msg.type = "ForwardJoin"
  <2>1. r \in ApplyForwardJoin(local, v, from, msg)
    BY <1>3 DEF Apply
  <2> DEFINE Kept == IF msg.ttl = 0 THEN AddPassive(local, v, msg.joined) ELSE {Outcome(v, <<>>)}
             next == ForwardJoin(msg.joined, IF msg.ttl = 0 THEN 0 ELSE msg.ttl - 1)
             Fwd  == ForwardTo(v, from, next)
  <2>2. CASE /\ msg.joined \notin v.active /\ msg.joined # local
             /\ r = TnT(v, <<>>, <<Connect(msg.joined)>>)
    <3>1. Fits(local, v, <<Connect(msg.joined)>>)
      BY <2>2 DEF Fits, Connect
    <3> QED
      BY <2>2, <3>1, SameSound
  <2>3. CASE r \in {TnT(o.view, o.trans, TicksOf(o.trans) \o fwd) : o \in Kept, fwd \in Fwd}
    <3>1. PICK o \in Kept, fwd \in Fwd : r = TnT(o.view, o.trans, TicksOf(o.trans) \o fwd)
      BY <2>3
    <3>2. Good(local, o) /\ Tells(v, o)
      <4>1. CASE o = Outcome(v, <<>>)
        BY <1>s, <4>1
      <4>2. CASE o \in AddPassive(local, v, msg.joined)
        BY <1>1, <1>3, <4>2, AddPassiveGood, AddPassiveTells, PassiveIsAll DEF ViewInv
      <4> QED
        BY <3>1, <4>1, <4>2
    <3> HIDE DEF next, Kept
    <3>3. fwd = <<>> \/ \E t : fwd = <<t>> /\ t.type # "Connect"
      BY Forwarded
    <3>4. r.view = o.view /\ r.trans = o.trans /\ r.ticks = TicksOf(o.trans) \o fwd
      BY <3>1 DEF TnT
    <3> QED
      BY <3>2, <3>3, <3>4, OutcomeSound
  <2> QED
    BY <2>1, <2>2, <2>3 DEF ApplyForwardJoin
<1>4. CASE msg.type = "Neighbour"
  <2>1. r \in ApplyNeighbour(local, v, from, msg)
    BY <1>4 DEF Apply
  <2>2. CASE r \in Collect(AddActive(local, v, from, TRUE))
    BY Zenon, <2>2, AddActiveGood, AddActiveTells, CollectSound
  <2>3. CASE r = TnT(v, <<>>, <<Reply(from, Disconnect)>>)
    BY <1>u, <2>3 DEF Reply
  <2> QED
    BY Zenon, <2>1, <2>2, <2>3 DEF ApplyNeighbour
<1>5. CASE msg.type = "Disconnect"
  <2>1. r \in Collect(Demote(local, v, from))
    BY <1>5 DEF Apply
  <2> QED
    BY <2>1, DemoteGood, DemoteTells, CollectSound
<1>6. CASE msg.type = "Shuffle"
  <2>1. r \in ApplyShuffle(local, v, from, msg)
    BY <1>6 DEF Apply
  <2>2. CASE msg.ttl = 0 /\ msg.origin # local
    <3>1. PICK s \in Sample(v, Len(msg.peers)), o \in AddPassiveAll(local, v, msg.peers) :
             r = TnT(o.view, o.trans,
                     (IF s = <<>> THEN <<>> ELSE <<Try(msg.origin, ShuffleReply(s))>>)
                        \o TicksOf(o.trans))
      BY <2>1, <2>2 DEF ApplyShuffle
    <3>2. Good(local, o) /\ Tells(v, o)
      BY <1>1, <1>6, AddPassiveAllGood, PassiveIsAll
    <3> DEFINE f == IF s = <<>> THEN <<>> ELSE <<Try(msg.origin, ShuffleReply(s))>>
    <3>3. f = <<>> \/ \E t : f = <<t>> /\ t.type # "Connect"
      BY DEF Try
    <3>4. r.view = o.view /\ r.trans = o.trans /\ r.ticks = f \o TicksOf(o.trans)
      BY <3>1 DEF TnT
    <3> HIDE DEF f
    <3> QED
      BY <3>2, <3>3, <3>4, OutcomeSound
  <2>3. CASE ~(msg.ttl = 0 /\ msg.origin # local) /\ msg.ttl > 0
    <3> DEFINE next == Shuffle(msg.origin, msg.peers, msg.ttl - 1)
    <3>1. PICK fwd \in ForwardTo(v, from, next) : r = TnT(v, <<>>, fwd)
      BY <2>1, <2>3 DEF ApplyShuffle
    <3> HIDE DEF next
    <3>2. fwd = <<>> \/ \E t : fwd = <<t>> /\ t.type # "Connect"
      BY Forwarded
    <3> QED
      BY <1>u, <3>1, <3>2
  <2>4. CASE ~(msg.ttl = 0 /\ msg.origin # local) /\ ~(msg.ttl > 0)
    <3>1. r = TnT(v, <<>>, <<>>)
      BY <2>1, <2>4 DEF ApplyShuffle
    <3> QED
      BY <1>u, <3>1
  <2> QED
    BY <2>2, <2>3, <2>4
<1>7. CASE msg.type = "ShuffleReply"
  <2>1. r \in Collect(AddPassiveAll(local, v, msg.peers))
    BY <1>7 DEF Apply
  <2> QED
    BY <1>1, <1>7, <2>1, AddPassiveAllGood, PassiveIsAll, CollectSound
<1>8. QED
  BY <1>2, <1>3, <1>4, <1>5, <1>6, <1>7, MessageFacts

-----------------------------------------------------------------------------
(***************************************************************************)
(* The membership state of a peer.                                         *)
(***************************************************************************)

\* The inductive invariant: ViewOK alone is not a type invariant of trans.
Inductive == ViewOK /\ TypeOK

\* Initially nobody is known.
LEMMA InitInductive == Init => Inductive
<1>1. SUFFICES ASSUME Init PROVE Inductive
  OBVIOUS
<1>2. view = EmptyView /\ trans = <<>>
  BY <1>1 DEF Init
<1>3. ViewInv(Local, EmptyView)
  BY FS_EmptySet, MaxActiveAssumption, MaxPassiveAssumption
     DEF ViewInv, View, EmptyView, IsKnown
<1>4. EmptyView \in View
  BY DEF View, EmptyView
<1>5. QED
  BY <1>2, <1>3, <1>4 DEF Inductive, ViewOK, TypeOK

\* Every step is the return of a call that is sound for the view it found.
LEMMA CallsAreSound ==
    ASSUME Inductive, Next
    PROVE  \E r : Sound(Local, view, r) /\ Return(r)
<1>1. ViewInv(Local, view)
  BY DEF Inductive, ViewOK
<1>2. CASE \E p \in Remotes : LoseConnection(p)
  BY <1>1, <1>2, ConnectionLostSound DEF LoseConnection
<1>3. CASE \E p \in Remotes, complete \in BOOLEAN : EstablishConnection(p, complete)
  <2>1. PICK p \in Remotes, complete \in BOOLEAN : EstablishConnection(p, complete)
    BY <1>3
  <2>2. PICK r \in Collect(AddActive(Local, view, p, complete)) : Return(r)
    BY <2>1 DEF EstablishConnection, ConnectionEstablished
  <2>3. Sound(Local, view, r)
    BY <1>1, AddActiveGood, AddActiveTells, CollectSound DEF Remotes
  <2> QED
    BY <2>2, <2>3
<1>4. CASE \E p \in Remotes, msg \in Message : Receive(p, msg)
  <2>1. PICK p \in Remotes, msg \in Message : Receive(p, msg)
    BY <1>4
  <2>2. PICK r \in Apply(Local, view, p, msg) : Return(r)
    BY <2>1 DEF Receive
  <2>3. Sound(Local, view, r)
    BY <1>1, ApplySound DEF Remotes
  <2> QED
    BY <2>2, <2>3
<1>5. CASE PeriodicShuffle \/ PeriodicPromotion
  <2>1. view' = view /\ trans' = <<>>
    BY <1>5 DEF PeriodicShuffle, PeriodicPromotion
  <2>2. Undialled(ticks')
    <3>1. CASE PeriodicShuffle
      BY <3>1 DEF PeriodicShuffle, Undialled, All
    <3>2. CASE PeriodicPromotion
      BY <3>2 DEF PeriodicPromotion, Undialled, Try
    <3> QED
      BY <1>5, <3>1, <3>2
  <2> DEFINE r == TnT(view, <<>>, ticks')
  <2>3. Sound(Local, view, r)
    BY <1>1, <2>2, UndialledFits, SameSound
  <2>4. Return(r)
    BY <2>1 DEF Return, TnT
  <2> QED
    BY <2>3, <2>4
<1> QED
  BY <1>2, <1>3, <1>4, <1>5 DEF Next

\* Every call preserves the invariant.
LEMMA NextInductive == Inductive /\ [Next]_vars => Inductive'
<1> SUFFICES ASSUME Inductive, [Next]_vars PROVE Inductive'
  OBVIOUS
<1>1. CASE Next
  <2>1. PICK r : Sound(Local, view, r) /\ Return(r)
    BY <1>1, CallsAreSound
  <2>2. ViewInv(Local, view') /\ trans' \in Seq(Transition(Local))
    BY <2>1 DEF Return, Sound, Good
  <2>3. view' \in View
    BY <2>2 DEF ViewInv
  <2> QED
    BY <2>2, <2>3 DEF Inductive, ViewOK, TypeOK
<1>2. CASE UNCHANGED vars
  BY <1>2 DEF Inductive, ViewOK, TypeOK, vars
<1> QED
  BY <1>1, <1>2

\* For any number of peers and any limits, the variables keep their types.
THEOREM TypeCorrect == Spec => []TypeOK
<1>1. Inductive => TypeOK
  BY DEF Inductive
<1>2. QED
  BY <1>1, InitInductive, NextInductive, PTL DEF Spec

\* For any number of peers and any limits, no interleaving of the calls makes
\* a map of the partial view outgrow its limit, a peer active and passive at
\* once, or a peer its own neighbour.
THEOREM ViewStaysWellFormed == Spec => []ViewOK
<1>1. Inductive => ViewOK
  BY DEF Inductive
<1>2. QED
  BY <1>1, InitInductive, NextInductive, PTL DEF Spec

\* For any number of peers and any limits, the reconnects that follow a loss fit
\* into the free slots: the peers are chosen after the lost one is demoted, and no
\* other call but the end of a ForwardJoin's walk proposes to connect.
THEOREM ReconnectsFit == Spec => []ReconnectsFitFreeSlots
<1>1. Init => ReconnectsFitFreeSlots
  <2> SUFFICES ASSUME Init PROVE ReconnectsFitFreeSlots
    OBVIOUS
  <2>1. ViewInv(Local, view) /\ Undialled(ticks)
    BY InitInductive DEF Inductive, ViewOK, Init, Undialled
  <2> QED
    BY <2>1, UndialledFits DEF Fits, ReconnectsFitFreeSlots, ConnectTicks
<1>2. Inductive /\ ReconnectsFitFreeSlots /\ [Next]_vars => ReconnectsFitFreeSlots'
  <2> SUFFICES ASSUME Inductive, ReconnectsFitFreeSlots, [Next]_vars
               PROVE  ReconnectsFitFreeSlots'
    OBVIOUS
  <2>1. CASE Next
    <3>1. PICK r : Sound(Local, view, r) /\ Return(r)
      BY <2>1, CallsAreSound
    <3>2. Fits(Local, view', ticks')
      BY <3>1 DEF Return, Sound
    <3> QED
      BY <3>2 DEF Fits, ReconnectsFitFreeSlots, ConnectTicks
  <2>2. CASE UNCHANGED vars
    BY <2>2 DEF ReconnectsFitFreeSlots, ConnectTicks, vars
  <2> QED
    BY <2>1, <2>2
<1> QED
  BY <1>1, <1>2, InitInductive, NextInductive, PTL DEF Spec

\* For any number of peers and any limits, subscribers can follow the view: every
\* call reports exactly who became active, and everybody who left.
THEOREM SubscribersFollow == Spec => TransitionsTellView
<1> DEFINE Step ==
        /\ view'.active \ view.active = Reported("Promoted")'
        /\ view.active \ view'.active
             \subseteq Reported("Demoted")' \cup Reported("Evicted")'
        /\ (view.active \cup view.passive) \ (view'.active \cup view'.passive)
             \subseteq Reported("Evicted")'
<1>1. Inductive /\ [Next]_vars => [Step]_vars
  <2> SUFFICES ASSUME Inductive, Next PROVE Step
    OBVIOUS
  <2>1. PICK r : Sound(Local, view, r) /\ Return(r)
    BY CallsAreSound
  <2>2. \A kind : Names(r.trans, kind) = Reported(kind)'
    BY <2>1 DEF Return, Names, Reported
  <2> QED
    BY <2>1, <2>2 DEF Return, Sound, Tells
<1> QED
  BY <1>1, InitInductive, NextInductive, PTL DEF Spec, TransitionsTellView
=============================================================================
