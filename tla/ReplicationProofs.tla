-------------------------- MODULE ReplicationProofs --------------------------
(***************************************************************************)
(* For any peers, refs, histories, number of concurrent pulls, failures    *)
(* and changes of the remotes: no rad/signed_refs and not the own rad/id   *)
(* ever goes back, and a delegate's own rad/id moves without its user only *)
(* when a clone finds, too late, that another clone was there before.      *)
(***************************************************************************)
EXTENDS Replication, FiniteSetTheorems, NaturalsInduction, WellFoundedInduction, TLAPS

\* The refs that are never to go back.
Guarded(n) == n = Own \/ n[2] = "sigrefs"

\* What a ref may point to.
TipsAt(n) == IF n[2] = "sigrefs" THEN 0..Len(Signed[n[1]]) ELSE Nat

\* An update of a guarded ref has a policy against what is no fast-forward.
Updates ==
    {u \in [name: Names, target: Nat, no_ff: {"abort", "reject", "allow", "prune"}, prev: Nat] :
        /\ u.target \in TipsAt(u.name)
        /\ u.target # 0 <=> u.no_ff # "prune"
        /\ Guarded(u.name) => u.no_ff \in {"abort", "reject"}}

\* Where a pull is through with the own rad/id.
Late == {"commit_ids", "fetch", "transitive", "tips", "commit_tips"}

\* The updates a pull may have pending.  The pull of a delegate, unless it is a
\* clone, asks for no other own rad/id than the one it started from.
Pending(clone, anchor, where, delegate) ==
    {u \in Updates : u.name = Own => /\ where \notin Late
                                     /\ delegate /\ ~clone => u.target = anchor}

\* The edits of a transaction move no guarded ref back from where it is expected.
EditsOK(e, clone, where, delegate) ==
    /\ DOMAIN e \subseteq Names
    /\ \A n \in DOMAIN e :
          /\ e[n].new \in TipsAt(n)
          /\ Guarded(n) => e[n].expected \in Nat /\ e[n].new >= e[n].expected
          /\ n = Own => /\ where # "commit_tips"
                        /\ delegate /\ ~clone => e[n].new = e[n].expected

\* For some peers, lists they signed.
ListsOK(f) == DOMAIN f \subseteq Others /\ \A q \in DOMAIN f : f[q] \in 1..Len(Signed[q])

Fields == {"remote", "clone", "anchor", "ids", "sigs", "tips", "track", "loaded", "transitive",
           "trees", "edits", "own", "parent", "undisturbed", "ahead", "why"}

\* The variables s of a pull that is at `where`.
RecOK(s, where, delegate) ==
    /\ DOMAIN s = Fields
    /\ where = "clone" => s.clone
    /\ where \notin {"idle", "failed"} => s.remote \in Others
    /\ s.anchor \in Nat
    /\ s.tips \in Seq(Pending(s.clone, s.anchor, where, delegate))
    /\ ListsOK(s.sigs) /\ ListsOK(s.loaded)
    /\ DOMAIN s.ids \subseteq Others /\ DOMAIN s.transitive \subseteq Others
    /\ EditsOK(s.edits, s.clone, where, delegate)
    /\ s.why \in Reasons

\* The store, and the remotes'.
StoreOK ==
    /\ sc \in Scenarios
    /\ refs \in [Names -> Nat] /\ \A n \in Names : refs[n] \in TipsAt(n)
    /\ tracked \in [Range(Order) -> Policies]
    /\ view \in [Others -> [Others -> Nat]]
    /\ \A r, q \in Others : view[r][q] \in 0..Len(Published[q])
    /\ accepts \in Nat

\* The pulls.  What a delegate's pull started from is not ahead of the own rad/id.
PullsOK ==
    /\ DOMAIN st = Procs /\ DOMAIN pc = Procs
    /\ \A p \in Procs : RecOK(st[p], pc[p], IsDelegate(Local))
    /\ \A p \in Procs : IsDelegate(Local) /\ ~st[p].clone => st[p].anchor <= refs[Own]

\* The inductive invariant.
IInv == StoreOK /\ PullsOK

-----------------------------------------------------------------------------
(***************************************************************************)
(* Induction, and functions defined by it                                  *)
(***************************************************************************)

LEMMA SeqOfMore ==
    ASSUME NEW S, NEW T, NEW seq \in Seq(S), S \subseteq T
    PROVE  seq \in Seq(T)
OBVIOUS

LEMMA SeqIsFunction ==
    ASSUME NEW S, NEW seq \in Seq(S)
    PROVE  Len(seq) \in Nat /\ seq \in [1..Len(seq) -> S]
OBVIOUS

\* Induction over a set of numbers.
LEMMA NumberInduction ==
    ASSUME NEW T \in SUBSET Nat, 0 \in T, \A n \in T : n + 1 \in T
    PROVE  T = Nat
<1>1. SUFFICES ASSUME Nat \ T # {} PROVE FALSE
  BY Zenon
<1>2. PICK x \in Nat \ T : \A y \in Nat \ T : ~(<<y, x>> \in OpToRel(<, Nat))
  BY <1>1, NatLessThanWellFounded, WFMin, Zenon
<1>3. \A y \in Nat \ T : ~(y < x)
  BY Zenon, <1>2 DEF OpToRel
<1>4. x # 0 /\ x - 1 \in Nat /\ x - 1 < x
  BY SMT
<1>5. x - 1 \in T
  BY <1>3, <1>4
<1>6. (x - 1) + 1 \in T
  BY <1>5
<1> QED BY <1>6, <1>4

\* Induction from a up to n.
LEMMA BoundedInduction ==
    ASSUME NEW a \in Nat, NEW n \in Nat, NEW T, a \in T, \A i \in (a + 1)..n : i - 1 \in T => i \in T
    PROVE  a..n \subseteq T
<1> DEFINE U == {k \in Nat : a + k <= n => a + k \in T}
<1>1. 0 \in U
  BY SMT
<1>2. ASSUME NEW k \in U PROVE k + 1 \in U
  <2> SUFFICES ASSUME a + (k + 1) <= n PROVE a + (k + 1) \in T
    BY SMT
  <2>1. a + (k + 1) \in (a + 1)..n /\ (a + (k + 1)) - 1 = a + k /\ a + k <= n
    BY SMT
  <2>2. a + k \in T
    BY <2>1
  <2> QED BY <2>1, <2>2
<1>3. U = Nat
  <2>1. U \in SUBSET Nat
    BY Zenon
  <2> HIDE DEF U
  <2> QED BY <1>1, <1>2, <2>1, NumberInduction
<1>4. ASSUME NEW i \in a..n PROVE i \in T
  <2>1. i - a \in Nat /\ a + (i - a) = i /\ i <= n
    BY SMT
  <2>2. i - a \in U
    BY <1>3, <2>1, Zenon
  <2>3. a + (i - a) <= n => a + (i - a) \in T
    BY <2>2, Zenon
  <2> QED BY <2>1, <2>3
<1> QED BY <1>4

\* The function over a..n that starts with c and goes on with g.
IsFold(f, V, a, n, c, g) ==
    /\ f \in [a..n -> V] /\ f[a] = c
    /\ \A i \in (a + 1)..n : f[i] = g[<<f[i - 1], i>>]

LEMMA FoldExists ==
    ASSUME NEW V, NEW a \in Nat, NEW n \in Nat, a <= n, NEW c \in V,
           NEW g \in [V \X ((a + 1)..n) -> V]
    PROVE  \E f : IsFold(f, V, a, n, c, g)
<1> DEFINE T == {m \in a..n : \E f : IsFold(f, V, a, m, c, g)}
<1>1. a \in T
  <2>1. IsFold([i \in a..a |-> c], V, a, a, c, g)
    BY SMT DEF IsFold
  <2>2. a \in a..n
    BY SMT
  <2> QED BY <2>1, <2>2, Zenon
<1>2. ASSUME NEW i \in (a + 1)..n, i - 1 \in T PROVE i \in T
  <2>0. PICK f : IsFold(f, V, a, i - 1, c, g)
    BY <1>2, Zenon
  <2>1. /\ f \in [a..(i - 1) -> V] /\ f[a] = c
        /\ \A j \in (a + 1)..(i - 1) : f[j] = g[<<f[j - 1], j>>]
    BY <2>0, Zenon DEF IsFold
  <2> DEFINE h == [j \in a..i |-> IF j = i THEN g[<<f[i - 1], i>>] ELSE f[j]]
  <2>2. i \in Nat /\ i - 1 \in a..(i - 1) /\ i \in a..i /\ a # i /\ a \in a..i /\ i \in a..n
    BY SMT
  <2>3. g[<<f[i - 1], i>>] \in V
    BY <2>1, <2>2
  <2>4. h \in [a..i -> V]
    <3>1. ASSUME NEW j \in a..i, j # i PROVE f[j] \in V
      BY <2>1, <2>2, <3>1
    <3> QED BY <2>3, <3>1
  <2>5. h[a] = c
    BY <2>1, <2>2
  <2>6. ASSUME NEW j \in (a + 1)..i PROVE h[j] = g[<<h[j - 1], j>>]
    <3>1. CASE j = i
      <4>1. h[i] = g[<<f[i - 1], i>>] /\ h[i - 1] = f[i - 1]
        BY <2>2
      <4> HIDE DEF h
      <4> QED BY <3>1, <4>1
    <3>2. CASE j # i
      <4>1. j \in (a + 1)..(i - 1) /\ j - 1 # i /\ j - 1 \in a..i /\ j \in a..i
        BY <2>2, <3>2
      <4>2. h[j] = f[j] /\ h[j - 1] = f[j - 1]
        BY <3>2, <4>1
      <4>3. f[j] = g[<<f[j - 1], j>>]
        BY <2>1, <4>1, Zenon
      <4> HIDE DEF h
      <4> QED BY <4>2, <4>3
    <3> QED BY <3>1, <3>2
  <2> HIDE DEF h
  <2>7. IsFold(h, V, a, i, c, g)
    BY <2>4, <2>5, <2>6, Zenon DEF IsFold
  <2> QED BY <2>2, <2>7, Zenon
<1>3. n \in T
  <2> HIDE DEF T
  <2>1. n \in a..n /\ a..n \subseteq T
    BY <1>1, <1>2, BoundedInduction
  <2> QED BY <2>1
<1> QED BY <1>3, Zenon

\* A finite set of numbers has a greatest one.
LEMMA MaxOfFinite ==
    ASSUME NEW S \in SUBSET Nat, IsFiniteSet(S), S # {}
    PROVE  Max(S) \in S /\ \A y \in S : y <= Max(S)
<1> DEFINE HasMax(R) == \E x \in R : \A y \in R : x >= y
           T == {n \in Nat : \A R \in SUBSET Nat :
                                IsFiniteSet(R) /\ Cardinality(R) = n /\ R # {} => HasMax(R)}
<1>1. 0 \in T
  BY FS_EmptySet
<1>2. ASSUME NEW n \in T PROVE n + 1 \in T
  <2> SUFFICES ASSUME NEW R \in SUBSET Nat, IsFiniteSet(R), Cardinality(R) = n + 1, R # {}
               PROVE  HasMax(R)
    BY SMT
  <2>1. PICK x \in R : TRUE
    BY Zenon
  <2>2. IsFiniteSet(R \ {x}) /\ Cardinality(R \ {x}) = n
    <3>1. n \in Nat
      BY <1>2, Zenon
    <3>2. IsFiniteSet(R \ {x}) /\ Cardinality(R \ {x}) = Cardinality(R) - 1
      BY FS_RemoveElement, Zenon
    <3> HIDE DEF T
    <3> QED BY <3>1, <3>2
  <2>3. CASE R \ {x} = {}
    BY <2>1, <2>3
  <2>4. CASE R \ {x} # {}
    <3>1. PICK z \in R \ {x} : \A y \in R \ {x} : z >= y
      <4>1. R \ {x} \in SUBSET Nat
        OBVIOUS
      <4> QED BY <2>2, <2>4, <4>1
    <3>2. x \in Nat /\ z \in Nat
      OBVIOUS
    <3>3. CASE z >= x
      BY <3>1, <3>3
    <3>4. CASE x > z
      BY <3>1, <3>2, <3>4
    <3> QED BY <3>2, <3>3, <3>4
  <2> QED BY <2>3, <2>4
<1>3. HasMax(S)
  <2>1. T = Nat
    <3>1. T \in SUBSET Nat
      BY Zenon
    <3> HIDE DEF T
    <3> QED BY <1>1, <1>2, <3>1, NumberInduction
  <2>2. Cardinality(S) \in T
    BY <2>1, FS_CardinalityType
  <2> HIDE DEF HasMax
  <2> QED BY <2>2
<1>4. Max(S) \in S /\ \A y \in S : Max(S) >= y
  BY <1>3, Zenon DEF Max
<1> QED BY <1>4

\* The elements of a finite set, one after the other.
LEMMA ListingType ==
    ASSUME NEW S, IsFiniteSet(S)
    PROVE  Listing(S) \in Seq(S)
<1>1. Cardinality(S) \in Nat /\ ExistsBijection(1..Cardinality(S), S)
  BY FS_CardinalityType
<1>2. PICK f \in [1..Cardinality(S) -> S] : \A x \in S : \E i \in 1..Cardinality(S) : f[i] = x
  BY <1>1, Zenon DEF ExistsBijection, Bijection, Surjection
<1>3. Range(f) = S
  BY <1>2, Zenon DEF Range
<1>4. Listing(S) \in [1..Cardinality(S) -> S]
  BY <1>3, Zenon DEF Listing
<1> QED BY <1>1, <1>4

\* Sequences by peer make one.
LEMMA InOrderType ==
    ASSUME NEW S, NEW parts, \A q \in DOMAIN parts : parts[q] \in Seq(S)
    PROVE  InOrder(parts) \in Seq(S)
<1> DEFINE n == Len(Order)
           V == Seq(S)
           next(v, i) == IF Order[i] \in DOMAIN parts THEN v \o parts[Order[i]] ELSE v
           g == [x \in V \X (1..n) |-> next(x[1], x[2])]
           Unfolds(f) == f = [i \in 0..n |-> IF i = 0 THEN << >> ELSE next(f[i - 1], i)]
           upto[i \in 0..n] == IF i = 0 THEN << >> ELSE next(upto[i - 1], i)
<1>1. InOrder(parts) = upto[n]
  BY Zenon DEF InOrder
<1>2. n \in Nat
  BY NamesAssumption
<1>3. ASSUME NEW v \in V, NEW i \in 1..n PROVE next(v, i) \in V
  <2>1. CASE Order[i] \in DOMAIN parts
    <3>1. parts[Order[i]] \in Seq(S)
      BY <2>1, Zenon
    <3>2. v \o parts[Order[i]] \in Seq(S)
      BY <3>1
    <3> QED BY <2>1, <3>2, Zenon
  <2>2. CASE Order[i] \notin DOMAIN parts
    BY <2>2, Zenon
  <2> QED BY <2>1, <2>2, Zenon
<1>4. << >> \in V
  OBVIOUS
<1> HIDE DEF n, V, next
<1>5. g \in [V \X ((0 + 1)..n) -> V]
  <2>1. (0 + 1)..n = 1..n
    BY <1>2
  <2>2. \A x \in V \X (1..n) : x[1] \in V /\ x[2] \in 1..n
    OBVIOUS
  <2> QED BY <1>3, <2>1, <2>2
<1>6. PICK f : IsFold(f, V, 0, n, << >>, g)
  <2> HIDE DEF g
  <2>1. 0 \in Nat /\ 0 <= n
    BY <1>2
  <2> QED BY <1>2, <1>4, <1>5, <2>1, FoldExists, Zenon
<1>7. Unfolds(f)
  <2>1. /\ f \in [0..n -> V] /\ f[0] = << >>
        /\ \A i \in (0 + 1)..n : f[i] = g[<<f[i - 1], i>>]
    BY <1>6, Zenon DEF IsFold
  <2>2. ASSUME NEW i \in 0..n, i # 0 PROVE f[i] = next(f[i - 1], i)
    <3>1. i \in (0 + 1)..n /\ i \in 1..n /\ i - 1 \in 0..n
      BY <1>2, <2>2
    <3>2. f[i] = g[<<f[i - 1], i>>] /\ f[i - 1] \in V
      BY <2>1, <3>1, Zenon
    <3> QED BY <3>1, <3>2, Zenon
  <2> QED BY <2>1, <2>2, Zenon
<1>8. Unfolds(upto)
  <2>1. \E h : Unfolds(h)
    BY <1>7, Zenon
  <2> QED BY <2>1, Zenon
<1> HIDE DEF upto
<1>9. upto[n] \in V
  <2> DEFINE T == {i \in 0..n : upto[i] \in V}
  <2>1. 0 \in T
    BY <1>2, <1>4, <1>8
  <2>2. ASSUME NEW i \in (0 + 1)..n, i - 1 \in T PROVE i \in T
    <3>1. i \in 1..n /\ i \in 0..n /\ i # 0
      BY <1>2, <2>2, SMT
    <3>2. upto[i - 1] \in V
      BY <2>2, Zenon
    <3>3. upto[i] = next(upto[i - 1], i)
      BY <1>8, <3>1, Zenon
    <3> QED BY <1>3, <3>1, <3>2, <3>3, Zenon
  <2> HIDE DEF T
  <2>3. 0 \in Nat /\ n \in 0..n
    BY <1>2
  <2>4. 0..n \subseteq T
    BY <1>2, <2>1, <2>2, <2>3, BoundedInduction, Zenon
  <2> QED BY <2>3, <2>4, Zenon DEF T
<1> QED BY <1>1, <1>9 DEF V

\* Vec::swap_remove keeps what is before the place.
LEMMA SwapRemoved ==
    ASSUME NEW U, NEW s \in Seq(U), NEW i \in 1..Len(s)
    PROVE  /\ SwapRemove(s, i) \in Seq(U) /\ Len(SwapRemove(s, i)) = Len(s) - 1
           /\ \A j \in 1..(i - 1) : SwapRemove(s, i)[j] = s[j]
<1>1. Len(s) - 1 \in Nat /\ Len(s) \in Nat /\ s[Len(s)] \in U
  BY SMT
<1>2. SwapRemove(s, i) \in [1..(Len(s) - 1) -> U]
  BY <1>1 DEF SwapRemove
<1>3. SwapRemove(s, i) \in Seq(U) /\ Len(SwapRemove(s, i)) = Len(s) - 1
  BY <1>1, <1>2
<1>4. \A j \in 1..(i - 1) : SwapRemove(s, i)[j] = s[j]
  BY <1>1 DEF SwapRemove
<1> QED BY <1>3, <1>4

\* The loop of the pull: it takes out all of the identity tips, and nothing is lost
\* to a place outside of the vector.
LEMMA DrainIdsType ==
    ASSUME NEW U, NEW pending \in Seq(U)
    PROVE  /\ DrainIds(pending).ids \in Seq(U) /\ DrainIds(pending).rest \in Seq(U)
           /\ \A j \in 1..Len(DrainIds(pending).rest) : DrainIds(pending).rest[j].name[2] # "id"
<1> DEFINE len == Len(pending)
           start == [i |-> 1, rest |-> pending, ids |-> << >>]
           next(w) ==
               IF w.rest[w.i].name[2] = "id"
               THEN [w EXCEPT !.rest = SwapRemove(@, w.i), !.ids = Append(@, w.rest[w.i])]
               ELSE [w EXCEPT !.i = @ + 1]
           V == {w \in [i: Nat \ {0}, rest: Seq(U), ids: Seq(U)] :
                    /\ w.i - 1 <= Len(w.rest)
                    /\ \A j \in 1..(w.i - 1) : w.rest[j].name[2] # "id"}
           Good(w, k) == w \in V /\ (Len(w.rest) - w.i) + 1 = len - k
           step(w) == IF w.i <= Len(w.rest) THEN next(w) ELSE w
           g == [x \in V \X (1..len) |-> step(x[1])]
           Unfolds(f) == f = [k \in 0..len |-> IF k = 0 THEN start ELSE next(f[k - 1])]
           drain[k \in 0..len] == IF k = 0 THEN start ELSE next(drain[k - 1])
<1>1. DrainIds(pending) = drain[len]
  BY DEF DrainIds
<1>2. len \in Nat /\ len \in 0..len
  BY SMT
<1>3. start \in V /\ Good(start, 0)
  BY <1>2
<1>4. ASSUME NEW w \in V, w.i <= Len(w.rest)
      PROVE  /\ next(w) \in V
             /\ (Len(next(w).rest) - next(w).i) + 1 = Len(w.rest) - w.i
  <2> DEFINE i == w.i
             rest == w.rest
             ids == w.ids
  <2>1. /\ w = [i |-> i, rest |-> rest, ids |-> ids]
        /\ i \in Nat \ {0} /\ rest \in Seq(U) /\ ids \in Seq(U)
        /\ \A j \in 1..(i - 1) : rest[j].name[2] # "id"
    OBVIOUS
  <2>2. i \in 1..Len(rest) /\ Len(rest) \in Nat
    BY <1>4, <2>1
  <2>3. CASE rest[i].name[2] = "id"
    <3> DEFINE r == SwapRemove(rest, i)
               a == Append(ids, rest[i])
    <3>1. next(w) = [i |-> i, rest |-> r, ids |-> a]
      <4>1. next(w) = [w EXCEPT !.rest = r, !.ids = a]
        BY <2>3, Zenon
      <4> HIDE DEF r, a, i, rest, ids
      <4> QED BY <2>1, <4>1, Zenon
    <3>2. /\ r \in Seq(U) /\ Len(r) = Len(rest) - 1
          /\ \A j \in 1..(i - 1) : r[j] = rest[j]
      <4> HIDE DEF i, rest
      <4> QED BY <2>1, <2>2, SwapRemoved, Zenon
    <3>3. a \in Seq(U)
      <4> HIDE DEF i, rest, ids
      <4> QED BY <2>1, <2>2
    <3>4. \A j \in 1..(i - 1) : r[j].name[2] # "id"
      BY <2>1, <3>2, Zenon
    <3> HIDE DEF r, a, i, rest, ids
    <3>5. i - 1 <= Len(r) /\ (Len(r) - i) + 1 = Len(rest) - i
      BY <2>2, <3>2
    <3>6. [i |-> i, rest |-> r, ids |-> a] \in V
      BY <2>1, <3>2, <3>3, <3>4, <3>5
    <3>7. next(w).rest = r /\ next(w).i = i
      <4> HIDE DEF next
      <4> QED BY <3>1
    <3>8. next(w) \in V
      BY <3>1, <3>6, Zenon
    <3> HIDE DEF next, V
    <3>9. Len(w.rest) - w.i = Len(rest) - i
      BY DEF rest, i
    <3> QED BY <3>5, <3>7, <3>8, <3>9, Zenon
  <2>4. CASE rest[i].name[2] # "id"
    <3>1. next(w) = [i |-> i + 1, rest |-> rest, ids |-> ids]
      <4>1. next(w) = [w EXCEPT !.i = i + 1]
        BY <2>4, Zenon
      <4> HIDE DEF i, rest, ids
      <4> QED BY <2>1, <4>1
    <3> HIDE DEF i, rest, ids
    <3>2. /\ i + 1 \in Nat \ {0} /\ (i + 1) - 1 <= Len(rest)
          /\ (Len(rest) - (i + 1)) + 1 = Len(rest) - i
      BY <2>1, <2>2
    <3>3. \A j \in 1..((i + 1) - 1) : rest[j].name[2] # "id"
      <4>1. ASSUME NEW j \in 1..((i + 1) - 1) PROVE j = i \/ j \in 1..(i - 1)
        BY <2>1, <2>2, SMT
      <4> QED BY <2>1, <2>4, <4>1, Zenon
    <3>4. [i |-> i + 1, rest |-> rest, ids |-> ids] \in V
      BY <2>1, <3>2, <3>3
    <3>5. next(w).rest = rest /\ next(w).i = i + 1
      <4> HIDE DEF next
      <4> QED BY <3>1
    <3>6. next(w) \in V
      BY <3>1, <3>4, Zenon
    <3> HIDE DEF next, V
    <3>7. Len(w.rest) - w.i = Len(rest) - i
      BY DEF rest, i
    <3> QED BY <3>2, <3>5, <3>6, <3>7, Zenon
  <2> QED BY <2>3, <2>4, Zenon
<1>5. \A w \in V : w.i \in Nat /\ Len(w.rest) \in Nat
  OBVIOUS
<1> HIDE DEF next, V, start, len
<1>6. ASSUME NEW h, h[0] = start, \A k \in 1..len : Good(h[k - 1], k - 1) => h[k] = next(h[k - 1])
      PROVE  \A k \in 0..len : Good(h[k], k)
  <2> DEFINE T == {k \in 0..len : Good(h[k], k)}
  <2>1. 0 \in T
    <3>1. 0 \in 0..len
      BY <1>2
    <3> QED BY <1>3, <1>6, <3>1, Zenon
  <2>2. ASSUME NEW k \in (0 + 1)..len, k - 1 \in T PROVE k \in T
    <3>1. k \in 1..len /\ k \in 0..len
      BY <1>2, SMT
    <3>2. Good(h[k - 1], k - 1)
      BY <2>2, Zenon
    <3> DEFINE w == h[k - 1]
    <3>3. h[k] = next(w)
      BY <1>6, <3>1, <3>2, Zenon
    <3> HIDE DEF w
    <3>4. w \in V /\ (Len(w.rest) - w.i) + 1 = len - (k - 1) /\ w.i \in Nat /\ Len(w.rest) \in Nat
      BY <1>5, <3>2, Zenon DEF w
    <3>5. w.i <= Len(w.rest) /\ Len(w.rest) - w.i = len - k
      BY <1>2, <3>1, <3>4
    <3>6. Good(next(w), k)
      BY <1>4, <3>4, <3>5
    <3> QED BY <3>1, <3>3, <3>6, Zenon
  <2> HIDE DEF T
  <2>3. 0 \in Nat
    OBVIOUS
  <2>4. 0..len \subseteq T
    BY <1>2, <2>1, <2>2, <2>3, BoundedInduction, Zenon
  <2> QED BY <2>4, Zenon DEF T
<1>7. ASSUME NEW w, NEW k \in 1..len, Good(w, k - 1)
      PROVE  w \in V /\ w.i <= Len(w.rest)
  <2>1. w \in V /\ (Len(w.rest) - w.i) + 1 = len - (k - 1) /\ w.i \in Nat /\ Len(w.rest) \in Nat
    BY <1>5, <1>7, Zenon
  <2> QED BY <1>2, <2>1
<1>8. g \in [V \X ((0 + 1)..len) -> V]
  <2>1. (0 + 1)..len = 1..len
    BY <1>2
  <2>2. \A x \in V \X (1..len) : step(x[1]) \in V
    BY <1>4
  <2> HIDE DEF step
  <2> QED BY <2>1, <2>2
<1>9. PICK f : IsFold(f, V, 0, len, start, g)
  <2> HIDE DEF g
  <2>1. 0 \in Nat /\ 0 <= len
    BY <1>2
  <2> QED BY <1>2, <1>3, <1>8, <2>1, FoldExists, Zenon
<1>10. Unfolds(f)
  <2>1. /\ f \in [0..len -> V] /\ f[0] = start
        /\ \A k \in (0 + 1)..len : f[k] = g[<<f[k - 1], k>>]
    BY <1>9, Zenon DEF IsFold
  <2>2. ASSUME NEW k \in 1..len, Good(f[k - 1], k - 1) PROVE f[k] = next(f[k - 1])
    <3>1. k \in (0 + 1)..len
      BY <1>2
    <3>2. f[k] = g[<<f[k - 1], k>>] /\ f[k - 1] \in V /\ f[k - 1].i <= Len(f[k - 1].rest)
      BY <1>7, <2>1, <2>2, <3>1, Zenon
    <3>3. g[<<f[k - 1], k>>] = step(f[k - 1])
      BY <3>2, Zenon
    <3> QED BY <3>2, <3>3, Zenon
  <2>3. \A k \in 0..len : Good(f[k], k)
    <3> HIDE DEF Good
    <3> QED BY <1>6, <2>1, <2>2, Zenon
  <2>4. ASSUME NEW k \in 0..len, k # 0 PROVE f[k] = next(f[k - 1])
    <3>1. k \in 1..len /\ k - 1 \in 0..len
      BY <1>2, <2>4
    <3> HIDE DEF Good
    <3> QED BY <2>2, <2>3, <3>1, Zenon
  <2> QED BY <2>1, <2>4, Zenon
<1>11. Unfolds(drain)
  <2>1. \E h : Unfolds(h)
    BY <1>10, Zenon
  <2> QED BY <2>1, Zenon
<1> HIDE DEF drain
<1>12. Good(drain[len], len)
  <2>1. drain[0] = start
    <3>1. 0 \in 0..len
      BY <1>2
    <3> QED BY <1>11, <3>1, Zenon
  <2>2. ASSUME NEW k \in 1..len PROVE drain[k] = next(drain[k - 1])
    <3>1. k \in 0..len /\ k # 0
      BY <1>2
    <3> QED BY <1>11, <3>1, Zenon
  <2> HIDE DEF Good
  <2> QED BY <1>2, <1>6, <2>1, <2>2, Zenon
<1> DEFINE w == drain[len]
<1>13. w \in V /\ (Len(w.rest) - w.i) + 1 = len - len /\ w.i \in Nat /\ Len(w.rest) \in Nat
  BY <1>5, <1>12, Zenon
<1> HIDE DEF w
<1>14. w.i - 1 = Len(w.rest)
  BY <1>2, <1>13
<1>15. w.ids \in Seq(U) /\ w.rest \in Seq(U) /\ \A j \in 1..(w.i - 1) : w.rest[j].name[2] # "id"
  BY <1>13 DEF V
<1>16. \A j \in 1..Len(w.rest) : w.rest[j].name[2] # "id"
  BY <1>14, <1>15, Zenon
<1>17. DrainIds(pending) = w
  BY <1>1 DEF w
<1> HIDE DEF drain, w
<1> QED BY <1>15, <1>16, <1>17, Zenon

-----------------------------------------------------------------------------
(***************************************************************************)
(* What the operators of the pull yield                                    *)
(***************************************************************************)

\* The updates of other peers' refs.
Foreign == {u \in Updates : u.name # Own}

\* The tips a pull sees are tips of the peers' histories.
TipsOK(q, tips) == tips.id \in Nat /\ tips.sigrefs \in 0..Len(Signed[q])

SeenOK(seen) == DOMAIN seen \subseteq Others /\ \A q \in DOMAIN seen : TipsOK(q, seen[q])

LEMMA ImageFinite ==
    ASSUME NEW S, IsFiniteSet(S), NEW f
    PROVE  IsFiniteSet({f[x] : x \in S})
<1> DEFINE T == {f[x] : x \in S}
           g == [x \in S |-> f[x]]
<1>1. g \in Surjection(S, T)
  BY Zenon DEF Surjection
<1> HIDE DEF T, g
<1>2. IsFiniteSet(T)
  BY <1>1, FS_Surjection
<1> QED BY <1>2, Zenon DEF T

\* The peers are finitely many.
LEMMA PeersFinite == IsFiniteSet(Range(Order))
<1>1. Len(Order) \in Nat /\ DOMAIN Order = 1..Len(Order)
  BY NamesAssumption
<1>2. IsFiniteSet(1..Len(Order))
  BY <1>1, FS_Interval
<1> QED BY <1>1, <1>2, ImageFinite, Zenon DEF Range

\* A name is the own rad/id or some other peer's.
LEMMA NamesAre ==
    /\ Own \in Names /\ Own[2] = "id" /\ TipsAt(Own) = Nat
    /\ \A q \in Others, k \in Kinds : /\ <<q, k>> \in Names /\ <<q, k>> # Own
                                      /\ <<q, k>>[1] = q /\ <<q, k>>[2] = k
    /\ \A q \in Others : Len(Signed[q]) \in Nat /\ q # Local /\ q \in Range(Order)
    /\ \A n \in Names : TipsAt(n) \subseteq Nat /\ (n # Own => n[1] \in Others)
<1>1. \A q \in Others : Len(Signed[q]) \in Nat /\ q # Local /\ q \in Range(Order)
  BY SignedAssumption DEF Others
<1>2. Own \in Names /\ Own[2] = "id" /\ TipsAt(Own) = Nat
  BY DEF Own, Names, TipsAt
<1>3. ASSUME NEW q \in Others, NEW k \in Kinds
      PROVE  <<q, k>> \in Names /\ <<q, k>> # Own /\ <<q, k>>[1] = q /\ <<q, k>>[2] = k
  <2>1. q # Local
    BY <1>1, Zenon
  <2> QED BY <2>1 DEF Own, Names
<1>4. ASSUME NEW n \in Names PROVE TipsAt(n) \subseteq Nat /\ (n # Own => n[1] \in Others)
  <2>1. CASE n = Own
    BY <1>2, <2>1
  <2>2. CASE n # Own
    <3>1. PICK q \in Others, k \in Kinds : n = <<q, k>>
      BY <2>2 DEF Names
    <3>2. n[1] = q /\ Len(Signed[q]) \in Nat
      BY <1>1, <3>1
    <3> QED BY <3>2 DEF TipsAt
  <2> QED BY <2>1, <2>2
<1> QED BY <1>1, <1>2, <1>3, <1>4, Zenon

\* An update of another peer's ref with a policy for what is no fast-forward.
LEMMA DirectForeign ==
    ASSUME NEW q \in Others, NEW k \in Kinds, NEW t \in TipsAt(<<q, k>>), t # 0,
           NEW no_ff \in {"abort", "reject", "allow"}, k = "sigrefs" => no_ff = "abort"
    PROVE  Direct(q, k, t, no_ff) \in Foreign
<1> DEFINE n == <<q, k>>
<1>1. n \in Names /\ n # Own /\ n[2] = k /\ t \in Nat
  BY NamesAre, Zenon
<1> HIDE DEF n
<1>2. Direct(q, k, t, no_ff) = [name |-> n, target |-> t, no_ff |-> no_ff, prev |-> 0]
  BY DEF Direct, n
<1>3. t \in TipsAt(n)
  BY DEF n
<1>4. Guarded(n) => no_ff \in {"abort", "reject"}
  BY <1>1 DEF Guarded
<1> QED BY <1>1, <1>2, <1>3, <1>4 DEF Foreign, Updates

LEMMA AsUpdatesForeign ==
    ASSUME NEW q \in Others, NEW tips, TipsOK(q, tips)
    PROVE  AsUpdates(q, tips) \in Seq(Foreign)
<1> DEFINE a == IF tips.id = 0 THEN << >> ELSE << Direct(q, "id", tips.id, "abort") >>
           b == IF tips.sigrefs = 0 THEN << >>
                ELSE << Direct(q, "sigrefs", tips.sigrefs, "abort") >>
<1>1. "id" \in Kinds /\ "sigrefs" \in Kinds
  BY DEF Kinds
<1>2. tips.id \in TipsAt(<<q, "id">>) /\ tips.sigrefs \in TipsAt(<<q, "sigrefs">>)
  BY DEF TipsOK, TipsAt
<1>3. a \in Seq(Foreign)
  <2>1. tips.id # 0 => Direct(q, "id", tips.id, "abort") \in Foreign
    BY <1>1, <1>2, DirectForeign
  <2> QED BY <2>1
<1>4. b \in Seq(Foreign)
  <2>1. tips.sigrefs # 0 => Direct(q, "sigrefs", tips.sigrefs, "abort") \in Foreign
    BY <1>1, <1>2, DirectForeign
  <2> QED BY <2>1
<1>5. AsUpdates(q, tips) = a \o b
  BY DEF AsUpdates
<1> HIDE DEF a, b
<1> QED BY <1>3, <1>4, <1>5

LEMMA VerificationForeign ==
    ASSUME NEW seen, SeenOK(seen)
    PROVE  VerificationRefs(seen) \in Seq(Foreign)
<1> DEFINE parts == [q \in DOMAIN seen |->
                        IF seen[q].id # 0 /\ ~Verifies(q) THEN << >> ELSE AsUpdates(q, seen[q])]
<1>1. VerificationRefs(seen) = InOrder(parts)
  BY Zenon DEF VerificationRefs
<1>2. ASSUME NEW q \in DOMAIN parts PROVE parts[q] \in Seq(Foreign)
  <2>1. AsUpdates(q, seen[q]) \in Seq(Foreign)
    BY AsUpdatesForeign, Zenon DEF SeenOK
  <2>2. << >> \in Seq(Foreign)
    OBVIOUS
  <2> QED BY <2>1, <2>2, Zenon
<1> HIDE DEF parts
<1> QED BY <1>1, <1>2, InOrderType, Zenon

LEMMA AdvertisedOK ==
    ASSUME StoreOK, NEW r \in Others, NEW q \in Others
    PROVE  TipsOK(q, Advertised(r, q)) /\ TipsOK(q, Nothing)
<1>1. Len(Signed[q]) \in Nat
  BY NamesAre, Zenon
<1>2. TipsOK(q, Nothing)
  BY <1>1 DEF TipsOK, Nothing
<1>3. CASE view[r][q] = 0
  BY <1>2, <1>3 DEF Advertised
<1>4. CASE view[r][q] # 0
  <2> DEFINE v == view[r][q]
  <2>1. Published[q] \in Seq(Range(Published[q]))
    BY PublishedAssumption, Zenon
  <2>2. v \in 0..Len(Published[q]) /\ v # 0
    BY <1>4 DEF StoreOK
  <2> HIDE DEF v
  <2>3. Published[q][v] \in Range(Published[q])
    BY <2>1, <2>2
  <2>4. Advertised(r, q) = Published[q][v]
    BY <1>4 DEF Advertised, v
  <2> QED BY <1>2, <2>3, <2>4, PublishedAssumption, Zenon DEF TipsOK
<1> QED BY <1>3, <1>4

LEMMA SeenTips ==
    ASSUME NEW seen, SeenOK(seen), NEW old
    PROVE  /\ ListsOK(old) => ListsOK(TipsOf("sigrefs", seen, old))
           /\ DOMAIN old \subseteq Others => DOMAIN TipsOf("id", seen, old) \subseteq Others
<1>1. ASSUME NEW kind
      PROVE  /\ DOMAIN TipsOf(kind, seen, old) = {q \in DOMAIN seen : seen[q][kind] # 0} \cup DOMAIN old
             /\ \A q \in DOMAIN TipsOf(kind, seen, old) :
                   TipsOf(kind, seen, old)[q] = IF q \in DOMAIN seen /\ seen[q][kind] # 0
                                                THEN seen[q][kind] ELSE old[q]
  BY Zenon DEF TipsOf
<1>2. ASSUME ListsOK(old) PROVE ListsOK(TipsOf("sigrefs", seen, old))
  <2> DEFINE new == TipsOf("sigrefs", seen, old)
  <2>1. DOMAIN new \subseteq Others
    BY <1>1, <1>2, Zenon DEF SeenOK, ListsOK
  <2>2. ASSUME NEW q \in DOMAIN new PROVE new[q] \in 1..Len(Signed[q])
    <3>1. CASE q \in DOMAIN seen /\ seen[q]["sigrefs"] # 0
      <4>1. new[q] = seen[q].sigrefs
        BY <1>1, <2>2, <3>1, Zenon
      <4>2. seen[q].sigrefs \in 0..Len(Signed[q]) /\ seen[q].sigrefs # 0
        BY <3>1, Zenon DEF SeenOK, TipsOK
      <4>3. Len(Signed[q]) \in Nat
        BY <2>1, NamesAre, Zenon
      <4> HIDE DEF new
      <4> QED BY <4>1, <4>2, <4>3
    <3>2. CASE ~(q \in DOMAIN seen /\ seen[q]["sigrefs"] # 0)
      <4>1. new[q] = old[q] /\ q \in DOMAIN old
        BY <1>1, <2>2, <3>2, Zenon
      <4> QED BY <1>2, <4>1, Zenon DEF ListsOK
    <3> QED BY <3>1, <3>2, Zenon
  <2> QED BY <2>1, <2>2, Zenon DEF ListsOK
<1>3. ASSUME DOMAIN old \subseteq Others PROVE DOMAIN TipsOf("id", seen, old) \subseteq Others
  BY <1>1, <1>3, Zenon DEF SeenOK
<1> QED BY <1>2, <1>3, Zenon

LEMMA RefsTips ==
    ASSUME StoreOK
    PROVE  /\ \A q \in Others : refs[<<q, "sigrefs">>] \in 0..Len(Signed[q])
           /\ \A q \in Others, k \in Kinds : refs[<<q, k>>] \in Nat
           /\ refs[Own] \in Nat
<1>1. "sigrefs" \in Kinds
  BY DEF Kinds
<1>2. \A n \in Names : refs[n] \in TipsAt(n) /\ refs[n] \in Nat
  BY Zenon DEF StoreOK
<1>3. ASSUME NEW q \in Others PROVE refs[<<q, "sigrefs">>] \in 0..Len(Signed[q])
  <2>1. refs[<<q, "sigrefs">>] \in TipsAt(<<q, "sigrefs">>)
    BY <1>1, <1>2, NamesAre, Zenon
  <2> QED BY <2>1 DEF TipsAt
<1> QED BY <1>2, <1>3, NamesAre, Zenon

LEMMA CombinedLists ==
    ASSUME StoreOK, NEW sigs, ListsOK(sigs)
    PROVE  ListsOK(Combined(sigs))
<1> DEFINE c == Combined(sigs)
<1>1. /\ DOMAIN c = {x \in PeekPeers : LoadSigrefs(sigs, x) # 0}
      /\ \A q \in DOMAIN c : c[q] = LoadSigrefs(sigs, q)
  BY Zenon DEF Combined
<1>2. DOMAIN c \subseteq Others
  BY <1>1, Zenon DEF PeekPeers
<1>3. ASSUME NEW q \in DOMAIN c PROVE c[q] \in 1..Len(Signed[q])
  <2> DEFINE v == LoadSigrefs(sigs, q)
  <2>1. c[q] = v /\ v # 0 /\ q \in Others
    BY <1>1, <1>2, <1>3, Zenon
  <2>2. Len(Signed[q]) \in Nat /\ refs[<<q, "sigrefs">>] \in 0..Len(Signed[q])
    BY <2>1, NamesAre, RefsTips, Zenon
  <2>3. q \in DOMAIN sigs => sigs[q] \in 1..Len(Signed[q])
    BY Zenon DEF ListsOK
  <2>4. v \in 0..Len(Signed[q])
    BY <2>2, <2>3 DEF LoadSigrefs
  <2> HIDE DEF v, c
  <2> QED BY <2>1, <2>2, <2>4
<1> QED BY <1>2, <1>3, Zenon DEF ListsOK

\* What a peer signed.
LEMMA SignedLists ==
    ASSUME NEW q \in Others, NEW at \in 1..Len(Signed[q])
    PROVE  LET list == Signed[q][at]
           IN  /\ list.refs \in [DOMAIN list.refs -> Nat \ {0}]
               /\ DOMAIN list.refs \subseteq {"id"} \cup Heads
               /\ list.remotes \subseteq Range(Order)
<1>1. Signed[q] \in Seq(Range(Signed[q]))
  BY SignedAssumption, Zenon
<1>2. Signed[q][at] \in Range(Signed[q])
  BY <1>1
<1> QED BY <1>2, SignedAssumption, Zenon

LEMMA TransitiveOthers ==
    ASSUME NEW loaded, ListsOK(loaded)
    PROVE  DOMAIN TransitivePolicies(loaded) \subseteq Others
<1>1. Remotes(loaded) \subseteq Range(Order)
  <2>1. ASSUME NEW q \in DOMAIN loaded PROVE Signed[q][loaded[q]].remotes \subseteq Range(Order)
    <3>1. q \in Others /\ loaded[q] \in 1..Len(Signed[q])
      BY Zenon DEF ListsOK
    <3> QED BY <3>1, SignedLists, Zenon
  <2> QED BY <2>1, Zenon DEF Remotes
<1>2. DOMAIN TransitivePolicies(loaded) = Remotes(loaded) \ ({Local} \cup sc.delegates \cup PeekPeers)
  BY Zenon DEF TransitivePolicies
<1> QED BY <1>1, <1>2, Zenon DEF Others

\* The last of the places where a sequence has something.
LEMMA LastPlace ==
    ASSUME NEW n \in Nat, NEW at \in SUBSET (1..n), at # {}
    PROVE  Max(at) \in at
<1>1. at \in SUBSET Nat /\ IsFiniteSet(at)
  <2>1. IsFiniteSet(1..n)
    BY FS_Interval
  <2>2. IsFiniteSet(at)
    BY <2>1, FS_Subset, Zenon
  <2>3. at \in SUBSET Nat
    BY SMT
  <2> QED BY <2>2, <2>3
<1> QED BY <1>1, MaxOfFinite, Zenon

\* The newest revision of some peers is one of theirs.
LEMMA NewestType ==
    ASSUME StoreOK, NEW tips \in Seq(Updates), NEW of \in SUBSET Others, of # {}
    PROVE  Newest(tips, of) \in Nat
<1>1. ASSUME NEW q \in of PROVE LookupId(tips, q) \in Nat
  <2> DEFINE at == {i \in 1..Len(tips) : tips[i].name = <<q, "id">>}
  <2>1. Len(tips) \in Nat /\ \A i \in 1..Len(tips) : tips[i] \in Updates
    OBVIOUS
  <2>2. \A u \in Updates : u.target \in Nat
    BY DEF Updates
  <2>3. at # {} => Max(at) \in at
    <3>1. at \in SUBSET (1..Len(tips))
      BY Zenon
    <3> HIDE DEF at
    <3> QED BY <2>1, <3>1, LastPlace, Zenon
  <2>4. refs[<<q, "id">>] \in Nat
    <3>1. "id" \in Kinds /\ q \in Others
      BY DEF Kinds
    <3> QED BY <3>1, RefsTips, Zenon
  <2>5. at # {} => tips[Max(at)].target \in Nat
    BY <2>1, <2>2, <2>3, Zenon
  <2> QED BY <2>4, <2>5, Zenon DEF LookupId
<1> DEFINE f == [q \in of |-> LookupId(tips, q)]
           S == {LookupId(tips, q) : q \in of}
<1>2. S = {f[q] : q \in of}
  BY Zenon
<1>3. IsFiniteSet(of)
  BY PeersFinite, FS_Subset, Zenon DEF Others
<1>4. IsFiniteSet(S)
  <2> HIDE DEF f, S
  <2> QED BY <1>2, <1>3, ImageFinite, Zenon
<1>5. S \in SUBSET Nat /\ S # {}
  BY <1>1, Zenon
<1>6. Newest(tips, of) = Max(S)
  BY Zenon DEF Newest
<1> HIDE DEF S
<1>7. Max(S) \in S
  BY <1>4, <1>5, MaxOfFinite, Zenon
<1> QED BY <1>5, <1>6, <1>7, Zenon

\* What may be pending where.
LEMMA PendingIncludes ==
    ASSUME NEW clone, NEW anchor, NEW where, NEW delegate
    PROVE  LET P == Pending(clone, anchor, where, delegate)
           IN  /\ Foreign \subseteq P /\ P \subseteq Updates
               /\ \A w : (w \in Late => where \in Late) => P \subseteq Pending(clone, anchor, w, delegate)
BY Zenon DEF Pending, Foreign

\* A peer's signed list never updates rad/signed_refs, nor anything of ours.
LEMMA SignedForeign ==
    ASSUME StoreOK, NEW q \in Others, NEW at \in 1..Len(Signed[q])
    PROVE  SignedUpdates(q, at) \in Seq(Foreign)
<1> DEFINE listed == Signed[q][at].refs
           unlisted == {h \in Heads \ DOMAIN listed : refs[<<q, h>>] # 0}
           A == {Direct(q, k, listed[k], "allow") : k \in DOMAIN listed}
           B == {Prune(<<q, h>>, refs[<<q, h>>]) : h \in unlisted}
<1>1. /\ \A k \in DOMAIN listed : listed[k] \in Nat \ {0} /\ k # "sigrefs" /\ k \in Kinds
      /\ DOMAIN listed \subseteq {"id"} \cup Heads
      /\ \A h \in Heads : h # "sigrefs" /\ h \in Kinds
  <2>1. listed \in [DOMAIN listed -> Nat \ {0}] /\ DOMAIN listed \subseteq {"id"} \cup Heads
    BY SignedLists, Zenon
  <2>2. "id" # "sigrefs" /\ "id" \in Kinds /\ \A h \in Heads : h # "sigrefs" /\ h \in Kinds
    BY NamesAssumption DEF Kinds
  <2> HIDE DEF listed
  <2> QED BY <2>1, <2>2, Zenon
<1> HIDE DEF listed
<1>2. A \subseteq Foreign
  <2>1. ASSUME NEW k \in DOMAIN listed PROVE Direct(q, k, listed[k], "allow") \in Foreign
    <3>1. k \in Kinds /\ k # "sigrefs" /\ listed[k] \in Nat /\ listed[k] # 0
      BY <1>1
    <3>2. listed[k] \in TipsAt(<<q, k>>)
      BY <3>1 DEF TipsAt
    <3> QED BY <3>1, <3>2, DirectForeign
  <2> QED BY <2>1, Zenon
<1>3. B \subseteq Foreign
  <2>1. ASSUME NEW h \in Heads PROVE Prune(<<q, h>>, refs[<<q, h>>]) \in Foreign
    <3> DEFINE n == <<q, h>>
    <3>1. h \in Kinds /\ h # "sigrefs" /\ refs[n] \in Nat
      BY <1>1, RefsTips, Zenon
    <3>2. n \in Names /\ n # Own /\ n[2] = h
      BY <3>1, NamesAre, Zenon
    <3> HIDE DEF n
    <3>3. ~Guarded(n) /\ 0 \in TipsAt(n)
      BY <3>1, <3>2 DEF Guarded, TipsAt
    <3>4. Prune(n, refs[n]) \in Foreign
      BY <3>1, <3>2, <3>3 DEF Foreign, Updates, Prune
    <3> QED BY <3>4 DEF n
  <2> QED BY <2>1, Zenon
<1>4. IsFiniteSet(A \cup B)
  <2> DEFINE f == [k \in DOMAIN listed |-> Direct(q, k, listed[k], "allow")]
             g == [h \in unlisted |-> Prune(<<q, h>>, refs[<<q, h>>])]
  <2>1. A = {f[k] : k \in DOMAIN listed} /\ B = {g[h] : h \in unlisted}
    BY Zenon
  <2>2. IsFiniteSet({"id"} \cup Heads) /\ IsFiniteSet(Heads)
    BY NamesAssumption, FS_Singleton, FS_Union, Zenon
  <2>3. IsFiniteSet(DOMAIN listed)
    BY <1>1, <2>2, FS_Subset, Zenon
  <2>4. IsFiniteSet(unlisted)
    BY <2>2, FS_Subset, Zenon
  <2> HIDE DEF f, g, unlisted, A, B
  <2>5. IsFiniteSet(A) /\ IsFiniteSet(B)
    BY <2>1, <2>3, <2>4, ImageFinite, Zenon
  <2> QED BY <2>5, FS_Union, Zenon
<1>5. SignedUpdates(q, at) = Listing(A \cup B)
  BY Zenon DEF SignedUpdates, listed
<1> HIDE DEF A, B
<1>6. Listing(A \cup B) \in Seq(A \cup B)
  BY <1>4, ListingType, Zenon
<1> QED BY <1>2, <1>3, <1>5, <1>6

\* The edits of pending updates: where a guarded ref is in the way the update is no
\* edit, and what a delegate's pull started from is no news.
LEMMA EditsOfOK ==
    ASSUME StoreOK, NEW clone, NEW anchor \in Nat, NEW where, NEW delegate, NEW next,
           next = "commit_tips" => where \in Late,
           delegate /\ ~clone => anchor <= refs[Own],
           NEW updates \in Seq(Pending(clone, anchor, where, delegate))
    PROVE  EditsOK(EditsOf(updates), clone, next, delegate)
<1> DEFINE at(n) == {i \in 1..Len(updates) : updates[i].name = n /\ Verdict(updates[i]) = "edit"}
           e == EditsOf(updates)
<1>1. /\ DOMAIN e = {n \in Names : at(n) # {}}
      /\ \A n \in DOMAIN e : /\ e[n].new = updates[Max(at(n))].target
                             /\ e[n].expected = IF updates[Max(at(n))].no_ff = "prune"
                                                THEN updates[Max(at(n))].prev
                                                ELSE refs[updates[Max(at(n))].name]
  BY Zenon DEF EditsOf
<1>2. Len(updates) \in Nat
      /\ \A i \in 1..Len(updates) : updates[i] \in Pending(clone, anchor, where, delegate)
  OBVIOUS
<1> HIDE DEF e
<1>3. ASSUME NEW n \in DOMAIN e
      PROVE  /\ e[n].new \in TipsAt(n)
             /\ Guarded(n) => e[n].expected \in Nat /\ e[n].new >= e[n].expected
             /\ n = Own => /\ next # "commit_tips"
                           /\ delegate /\ ~clone => e[n].new = e[n].expected
  <2> DEFINE u == updates[Max(at(n))]
  <2>1. Max(at(n)) \in at(n) /\ n \in Names
    <3>1. at(n) \in SUBSET (1..Len(updates)) /\ at(n) # {} /\ n \in Names
      BY <1>1, <1>3, Zenon
    <3> HIDE DEF at
    <3> QED BY <1>2, <3>1, LastPlace, Zenon
  <2>2. u \in Pending(clone, anchor, where, delegate) /\ u.name = n /\ Verdict(u) = "edit"
    BY <1>2, <2>1, Zenon
  <2>3. e[n].new = u.target /\ e[n].expected = IF u.no_ff = "prune" THEN u.prev ELSE refs[u.name]
    BY <1>1, <1>3, Zenon
  <2> HIDE DEF u, at
  <2>4. /\ u.target \in TipsAt(n) /\ u.target \in Nat
        /\ Guarded(n) => u.no_ff \in {"abort", "reject"}
        /\ n = Own => where \notin Late /\ (delegate /\ ~clone => u.target = anchor)
    BY <2>2 DEF Pending, Updates
  <2>5. refs[n] \in Nat
    BY <2>1 DEF StoreOK
  <2>6. ASSUME Guarded(n) PROVE e[n].expected = refs[n] /\ u.target >= refs[n]
    BY <2>2, <2>3, <2>4, <2>6 DEF Verdict
  <2>7. ASSUME n = Own, delegate, ~clone PROVE u.target = refs[n]
    <3>1. u.target = anchor /\ anchor <= refs[n] /\ u.target >= refs[n]
      BY <2>4, <2>6, <2>7 DEF Guarded
    <3> QED BY <2>5, <3>1
  <2>8. n = Own => Guarded(n)
    BY DEF Guarded
  <2> QED BY <2>3, <2>4, <2>5, <2>6, <2>7, <2>8, Zenon
<1>4. DOMAIN e \subseteq Names
  BY <1>1, Zenon
<1>5. EditsOK(e, clone, next, delegate)
  BY <1>3, <1>4, Zenon DEF EditsOK
<1> QED BY <1>5 DEF e

-----------------------------------------------------------------------------
(***************************************************************************)
(* The steps                                                               *)
(***************************************************************************)

Ended(undisturbed, ahead, why) ==
    [Fresh EXCEPT !.undisturbed = undisturbed, !.ahead = ahead, !.why = why]

\* What a pull is left with when it ends.
LEMMA FreshOK ==
    ASSUME NEW where \in {"idle", "failed"}, NEW delegate, NEW undisturbed, NEW ahead,
           NEW why \in Reasons
    PROVE  /\ RecOK(Ended(undisturbed, ahead, why), where, delegate)
           /\ Ended(undisturbed, ahead, why).anchor = 0
           /\ RecOK(Fresh, where, delegate) /\ Fresh.anchor = 0
<1> DEFINE s == Ended(undisturbed, ahead, why)
<1>1. /\ DOMAIN s = Fields /\ s.clone = FALSE /\ s.anchor = 0 /\ s.tips = << >> /\ s.sigs = Empty
      /\ s.loaded = Empty /\ s.ids = Empty /\ s.transitive = Empty /\ s.edits = << >> /\ s.why = why
  BY DEF Ended, Fresh, Fields
<1>2. /\ DOMAIN Fresh = Fields /\ Fresh.clone = FALSE /\ Fresh.anchor = 0 /\ Fresh.tips = << >>
      /\ Fresh.sigs = Empty /\ Fresh.loaded = Empty /\ Fresh.ids = Empty
      /\ Fresh.transitive = Empty /\ Fresh.edits = << >> /\ Fresh.why \in Reasons
  BY DEF Fresh, Fields, Reasons
<1>3. DOMAIN Empty = {} /\ DOMAIN << >> = {}
  BY DEF Empty
<1>4. ListsOK(Empty) /\ EditsOK(<< >>, FALSE, where, delegate) /\ DOMAIN Empty \subseteq Others
  BY <1>3, Zenon DEF ListsOK, EditsOK
<1>5. << >> \in Seq(Pending(FALSE, 0, where, delegate)) /\ 0 \in Nat /\ where # "clone"
  OBVIOUS
<1> HIDE DEF s
<1>6. RecOK(s, where, delegate)
  BY <1>1, <1>4, <1>5, Zenon DEF RecOK
<1>7. RecOK(Fresh, where, delegate)
  BY <1>2, <1>4, <1>5, Zenon DEF RecOK
<1> QED BY <1>1, <1>2, <1>6, <1>7, Zenon DEF s

Disturbed(s) == [s EXCEPT !.undisturbed = FALSE]

\* A pull does not care whether it is disturbed.
LEMMA DisturbedOK ==
    ASSUME NEW s, NEW where, NEW delegate, RecOK(s, where, delegate)
    PROVE  /\ RecOK(Disturbed(s), where, delegate)
           /\ Disturbed(s).clone = s.clone /\ Disturbed(s).anchor = s.anchor
<1> DEFINE t == Disturbed(s)
<1>1. DOMAIN s = Fields
  BY Zenon DEF RecOK
<1>2. /\ DOMAIN t = Fields /\ t.remote = s.remote /\ t.clone = s.clone /\ t.anchor = s.anchor
      /\ t.tips = s.tips /\ t.sigs = s.sigs /\ t.loaded = s.loaded /\ t.ids = s.ids
      /\ t.transitive = s.transitive /\ t.edits = s.edits /\ t.why = s.why
  BY <1>1 DEF Fields, Disturbed
<1> HIDE DEF t
<1>3. RecOK(t, where, delegate)
  BY <1>2, Zenon DEF RecOK
<1> QED BY <1>2, <1>3, Zenon DEF t

\* A step of one pull, whether or not it disturbs the others, provided that the own
\* rad/id does not go back.
LEMMA StepOK ==
    ASSUME IInv, NEW p \in Procs, NEW rec, NEW next, Step(p, rec, next) \/ Disturb(p, rec, next),
           sc' = sc, refs[Own] <= refs'[Own], refs[Own] \in Nat, refs'[Own] \in Nat,
           RecOK(rec, next, IsDelegate(Local)),
           IsDelegate(Local) /\ ~rec.clone => rec.anchor <= refs'[Own]
    PROVE  PullsOK'
<1> DEFINE d == IsDelegate(Local)
<1>1. d' = d
  BY DEF IsDelegate
<1>2. /\ DOMAIN st = Procs /\ DOMAIN pc = Procs
      /\ \A q \in Procs : RecOK(st[q], pc[q], d)
      /\ \A q \in Procs : d /\ ~st[q].clone => st[q].anchor <= refs[Own]
  BY Zenon DEF IInv, PullsOK
<1>3. /\ DOMAIN st' = Procs /\ DOMAIN pc' = Procs /\ st'[p] = rec /\ pc'[p] = next
      /\ \A q \in Procs \ {p} : /\ pc'[q] = pc[q]
                                /\ st'[q] = st[q] \/ st'[q] = Disturbed(st[q])
  BY <1>2, Zenon DEF Step, Disturb, Disturbed
<1> HIDE DEF d
<1>4. ASSUME NEW q \in Procs, q # p
      PROVE  /\ RecOK(st'[q], pc'[q], d)
             /\ d /\ ~st'[q].clone => st'[q].anchor <= refs'[Own]
  <2>1. RecOK(st'[q], pc'[q], d) /\ st'[q].clone = st[q].clone /\ st'[q].anchor = st[q].anchor
    <3>1. RecOK(st[q], pc[q], d) /\ pc'[q] = pc[q]
      BY <1>2, <1>3, <1>4, Zenon
    <3>2. CASE st'[q] = st[q]
      BY <3>1, <3>2, Zenon
    <3>3. CASE st'[q] = Disturbed(st[q])
      BY <3>1, <3>3, DisturbedOK, Zenon
    <3> QED BY <1>3, <1>4, <3>2, <3>3, Zenon
  <2>2. st[q].anchor \in Nat
    BY <1>2, Zenon DEF RecOK
  <2>3. d /\ ~st[q].clone => st[q].anchor <= refs[Own]
    BY <1>2, Zenon
  <2>4. d /\ ~st[q].clone => st[q].anchor <= refs'[Own]
    BY <2>2, <2>3
  <2> QED BY <2>1, <2>4, Zenon
<1>5. RecOK(st'[p], pc'[p], d) /\ (d /\ ~st'[p].clone => st'[p].anchor <= refs'[Own])
  BY <1>3, Zenon DEF d
<1>6. \A q \in Procs : /\ RecOK(st'[q], pc'[q], d)
                       /\ d /\ ~st'[q].clone => st'[q].anchor <= refs'[Own]
  BY <1>4, <1>5, Zenon
<1> QED BY <1>1, <1>3, <1>6, Zenon DEF PullsOK, d

\* A step that goes on with what the pull started from.
LEMMA MoveOK ==
    ASSUME IInv, NEW p \in Procs, NEW rec, NEW next, Step(p, rec, next) \/ Disturb(p, rec, next),
           sc' = sc, refs' = refs, RecOK(rec, next, IsDelegate(Local)),
           rec.clone = st[p].clone, rec.anchor = st[p].anchor
    PROVE  PullsOK'
<1>1. refs[Own] \in Nat
  BY RefsTips, Zenon DEF IInv
<1>2. refs'[Own] = refs[Own] /\ refs[Own] <= refs'[Own] /\ refs'[Own] \in Nat
  BY <1>1
<1>3. IsDelegate(Local) /\ ~rec.clone => rec.anchor <= refs'[Own]
  BY <1>2, Zenon DEF IInv, PullsOK
<1> QED BY <1>1, <1>2, <1>3, StepOK, Zenon

\* A pull that ends.
LEMMA EndOK ==
    ASSUME IInv, NEW p \in Procs, NEW rec, NEW next \in {"idle", "failed"},
           rec = Fresh \/ \E why \in Reasons : rec = Failed(p, why),
           Step(p, rec, next) \/ Disturb(p, rec, next),
           sc' = sc, refs'[Own] \in Nat, refs[Own] <= refs'[Own]
    PROVE  PullsOK'
<1>1. refs[Own] \in Nat
  BY RefsTips, Zenon DEF IInv
<1>2. RecOK(rec, next, IsDelegate(Local)) /\ rec.anchor = 0
  <2>1. CASE rec = Fresh
    <3>1. "none" \in Reasons
      BY DEF Reasons
    <3> QED BY <2>1, <3>1, FreshOK, Zenon
  <2>2. ASSUME NEW why \in Reasons, rec = Failed(p, why)
        PROVE  RecOK(rec, next, IsDelegate(Local)) /\ rec.anchor = 0
    <3>1. rec = Ended(st[p].undisturbed, st[p].ahead, why)
      BY <2>2, Zenon DEF Failed, Ended
    <3> QED BY <3>1, FreshOK, Zenon
  <2> QED BY <2>1, <2>2, Zenon
<1>3. rec.anchor <= refs'[Own]
  BY <1>2
<1> QED BY <1>1, <1>2, <1>3, StepOK, Zenon

\* The store is not touched.
LEMMA StoreSame ==
    ASSUME StoreOK, UNCHANGED <<sc, refs, tracked, view, accepts>>
    PROVE  StoreOK'
BY Zenon DEF StoreOK

LEMMA FailOK ==
    ASSUME IInv, NEW p \in Procs, NEW why \in Reasons, Fail(p, why),
           UNCHANGED <<sc, refs, tracked, view, accepts>>
    PROVE  IInv'
<1>1. refs[Own] \in Nat
  BY RefsTips, Zenon DEF IInv
<1>2. refs'[Own] \in Nat /\ refs[Own] <= refs'[Own]
  BY <1>1
<1>3. PullsOK'
  BY <1>2, EndOK, Zenon DEF Fail
<1> QED BY <1>3, StoreSame, Zenon DEF IInv

\* What is known of the pull p.
LEMMA OfPull ==
    ASSUME IInv, NEW p \in Procs
    PROVE  /\ RecOK(st[p], pc[p], IsDelegate(Local)) /\ StoreOK
           /\ IsDelegate(Local) /\ ~st[p].clone => st[p].anchor <= refs[Own]
           /\ sc.delegates \subseteq Range(Order) /\ sc.remotes \subseteq Others
           /\ DOMAIN st[p] = Fields
<1>1. sc \in Scenarios /\ StoreOK
  BY Zenon DEF IInv, StoreOK
<1>2. RecOK(st[p], pc[p], IsDelegate(Local))
      /\ (IsDelegate(Local) /\ ~st[p].clone => st[p].anchor <= refs[Own])
  BY Zenon DEF IInv, PullsOK
<1> QED BY <1>1, <1>2, ScenariosAssumption, Zenon DEF RecOK

LEMMA ReplicateOK ==
    ASSUME IInv, NEW p \in Procs, NEW r \in sc.remotes, Replicate(p, r)
    PROVE  IInv'
<1> DEFINE rec == [Fresh EXCEPT !.remote = r, !.clone = (refs[Own] = 0), !.anchor = refs[Own],
                                !.ahead = Ahead(r)]
           next == IF refs[Own] = 0 THEN "clone" ELSE "peek"
           d == IsDelegate(Local)
<1>1. Step(p, rec, next) /\ UNCHANGED <<sc, refs, tracked, view, accepts>>
  BY Zenon DEF Replicate, store
<1>2. r \in Others /\ refs[Own] \in Nat
  BY OfPull, RefsTips, Zenon DEF IInv
<1>3. /\ DOMAIN rec = Fields /\ rec.remote = r /\ rec.clone = (refs[Own] = 0)
      /\ rec.anchor = refs[Own] /\ rec.tips = << >> /\ rec.sigs = Empty /\ rec.loaded = Empty
      /\ rec.ids = Empty /\ rec.transitive = Empty /\ rec.edits = << >> /\ rec.why \in Reasons
  BY DEF Fresh, Fields, Reasons
<1>4. DOMAIN Empty = {} /\ DOMAIN << >> = {}
  BY DEF Empty
<1> HIDE DEF rec
<1>5. /\ ListsOK(Empty) /\ DOMAIN Empty \subseteq Others
      /\ EditsOK(<< >>, rec.clone, next, d)
  BY <1>4, Zenon DEF ListsOK, EditsOK
<1>6. << >> \in Seq(Pending(rec.clone, refs[Own], next, d)) /\ (next = "clone" => refs[Own] = 0)
  OBVIOUS
<1> HIDE DEF next, d
<1>7. RecOK(rec, next, d)
  BY <1>2, <1>3, <1>5, <1>6, Zenon DEF RecOK
<1>8. /\ refs'[Own] \in Nat /\ refs[Own] <= refs'[Own] /\ rec.anchor <= refs'[Own]
  BY <1>1, <1>2, <1>3
<1>9. PullsOK'
  BY <1>1, <1>2, <1>7, <1>8, StepOK, Zenon DEF d
<1> QED BY <1>1, <1>9, StoreSame, Zenon DEF IInv

LEMMA EditsElsewhere ==
    ASSUME NEW e, NEW clone, NEW where, NEW delegate, EditsOK(e, clone, where, delegate),
           NEW next, next # "commit_tips"
    PROVE  EditsOK(e, clone, next, delegate)
BY Zenon DEF EditsOK

\* More updates of others' refs may be pending.
LEMMA PendingMore ==
    ASSUME NEW clone, NEW anchor, NEW where, NEW delegate, NEW next, next \in Late => where \in Late,
           NEW tips \in Seq(Pending(clone, anchor, where, delegate)), NEW more \in Seq(Foreign)
    PROVE  /\ tips \in Seq(Pending(clone, anchor, next, delegate))
           /\ tips \o more \in Seq(Pending(clone, anchor, next, delegate))
<1> DEFINE P == Pending(clone, anchor, where, delegate)
           N == Pending(clone, anchor, next, delegate)
<1>1. P \subseteq N /\ Foreign \subseteq N
  BY PendingIncludes, Zenon
<1>2. tips \in Seq(P)
  OBVIOUS
<1> HIDE DEF P, N
<1>3. tips \in Seq(N) /\ more \in Seq(N)
  BY <1>1, <1>2, SeqOfMore
<1>4. tips \o more \in Seq(N)
  BY <1>3
<1> QED BY <1>3, <1>4 DEF N

LEMMA PeekForCloneOK ==
    ASSUME IInv, NEW p \in Procs, PeekForClone(p)
    PROVE  IInv'
<1> DEFINE s == st[p]
           r == s.remote
           d == IsDelegate(Local)
           seen == [q \in {r} |-> Advertised(r, r)]
           rec == [s EXCEPT !.anchor = seen[r].id,
                            !.ids = TipsOf("id", seen, Empty),
                            !.sigs = TipsOf("sigrefs", seen, Empty),
                            !.tips = CloneTips(r, seen[r])]
<1>1. /\ pc[p] = "clone" /\ UNCHANGED <<sc, refs, tracked, view, accepts>>
      /\ Fail(p, "refused") \/ Fail(p, "panic") \/ Step(p, rec, "peek")
  BY Zenon DEF PeekForClone, store, env
<1>2. CASE Fail(p, "refused") \/ Fail(p, "panic")
  <2>1. "refused" \in Reasons /\ "panic" \in Reasons
    BY DEF Reasons
  <2> QED BY <1>1, <1>2, <2>1, FailOK, Zenon
<1>3. CASE Step(p, rec, "peek")
  <2>1. RecOK(s, "clone", d) /\ StoreOK /\ DOMAIN s = Fields
    BY <1>1, OfPull, Zenon
  <2>2. /\ r \in Others /\ s.clone /\ ListsOK(s.loaded) /\ DOMAIN s.transitive \subseteq Others
        /\ EditsOK(s.edits, s.clone, "clone", d) /\ s.why \in Reasons
    BY <2>1 DEF RecOK
  <2>3. TipsOK(r, seen[r]) /\ SeenOK(seen)
    <3>1. seen[r] = Advertised(r, r) /\ DOMAIN seen = {r}
      BY Zenon
    <3>2. TipsOK(r, Advertised(r, r))
      BY <2>1, <2>2, AdvertisedOK, Zenon
    <3> HIDE DEF seen
    <3> QED BY <2>2, <3>1, <3>2, Zenon DEF SeenOK
  <2> HIDE DEF seen, s, d, r
  <2>4. CloneTips(r, seen[r]) \in Seq(Foreign)
    <3>1. AsUpdates(r, seen[r]) \in Seq(Foreign) /\ << >> \in Seq(Foreign)
      BY <2>2, <2>3, AsUpdatesForeign
    <3> QED BY <3>1, Zenon DEF CloneTips
  <2>5. ListsOK(TipsOf("sigrefs", seen, Empty)) /\ DOMAIN TipsOf("id", seen, Empty) \subseteq Others
    <3>1. DOMAIN Empty = {}
      BY DEF Empty
    <3>2. ListsOK(Empty) /\ DOMAIN Empty \subseteq Others
      BY <3>1, Zenon DEF ListsOK
    <3> QED BY <2>3, <3>2, SeenTips, Zenon
  <2>6. /\ DOMAIN rec = Fields /\ rec.remote = s.remote /\ rec.clone = s.clone
        /\ rec.anchor = seen[r].id /\ rec.tips = CloneTips(r, seen[r])
        /\ rec.sigs = TipsOf("sigrefs", seen, Empty) /\ rec.ids = TipsOf("id", seen, Empty)
        /\ rec.loaded = s.loaded /\ rec.transitive = s.transitive /\ rec.edits = s.edits
        /\ rec.why = s.why
    BY <2>1 DEF Fields
  <2> HIDE DEF rec
  <2>7. rec.tips \in Seq(Pending(rec.clone, rec.anchor, "peek", d))
    <3>1. Foreign \subseteq Pending(rec.clone, rec.anchor, "peek", d)
      BY PendingIncludes, Zenon
    <3>2. rec.tips \in Seq(Foreign)
      BY <2>4, <2>6, Zenon
    <3> QED BY <3>1, <3>2, SeqOfMore, Zenon
  <2>8. EditsOK(rec.edits, rec.clone, "peek", d)
    <3>1. "peek" # "commit_tips"
      OBVIOUS
    <3> QED BY <2>2, <2>6, <3>1, EditsElsewhere, Zenon
  <2>9. seen[r].id \in Nat /\ "peek" # "clone" /\ rec.remote \in Others
    BY <2>2, <2>3, <2>6 DEF TipsOK, r
  <2>10. RecOK(rec, "peek", d)
    BY <2>2, <2>5, <2>6, <2>7, <2>8, <2>9, Zenon DEF RecOK
  <2>11. refs[Own] \in Nat
    BY <2>1, RefsTips, Zenon
  <2>12. refs'[Own] \in Nat /\ refs[Own] <= refs'[Own]
    BY <1>1, <2>11
  <2>13. PullsOK'
    BY <1>1, <1>3, <2>2, <2>6, <2>10, <2>11, <2>12, StepOK, Zenon DEF d
  <2> QED BY <1>1, <2>13, StoreSame, Zenon DEF IInv
<1> QED BY <1>1, <1>2, <1>3, Zenon

\* A local delegate's rad/id is only set up as what the pull started from.
LEMMA SetupRadOK ==
    ASSUME StoreOK, sc.delegates \subseteq Range(Order),
           NEW rec, RecOK(rec, "track", IsDelegate(Local))
    PROVE  /\ RecOK(SetupRad(rec), "track", IsDelegate(Local))
           /\ SetupRad(rec).clone = rec.clone /\ SetupRad(rec).anchor = rec.anchor
<1> DEFINE d == IsDelegate(Local)
           delegates == sc.delegates \ {Local}
           newer == Newer(rec.anchor, Newest(rec.tips, delegates))
           P == Pending(rec.clone, rec.anchor, "track", d)
           u == Direct(Local, "id", newer, "reject")
<1>1. CASE delegates = {} \/ newer = 0
  BY <1>1, Zenon DEF SetupRad
<1>2. CASE ~(delegates = {} \/ newer = 0)
  <2>1. rec.anchor \in Nat /\ rec.tips \in Seq(P) /\ DOMAIN rec = Fields
    BY Zenon DEF RecOK
  <2>2. Newest(rec.tips, delegates) \in Nat
    <3>1. P \subseteq Updates
      BY PendingIncludes, Zenon
    <3>2. rec.tips \in Seq(Updates)
      BY <2>1, <3>1, SeqOfMore, Zenon
    <3>3. delegates \in SUBSET Others /\ delegates # {}
      BY <1>2, Zenon DEF Others
    <3> HIDE DEF delegates
    <3> QED BY <3>2, <3>3, NewestType, Zenon
  <2>3. newer \in Nat /\ newer # 0 /\ (d => newer = rec.anchor)
    <3> DEFINE theirs == Newest(rec.tips, delegates)
    <3> HIDE DEF theirs
    <3>1. newer = IF d /\ rec.anchor # theirs
                  THEN IF theirs > rec.anchor THEN 0 ELSE rec.anchor
                  ELSE theirs
      BY Zenon DEF Newer, theirs
    <3>2. theirs \in Nat /\ newer # 0
      BY <1>2, <2>2, Zenon DEF theirs
    <3> HIDE DEF newer, d
    <3> QED BY <2>1, <3>1, <3>2
  <2> HIDE DEF newer, d, delegates
  <2>4. u \in P
    <3>1. u = [name |-> Own, target |-> newer, no_ff |-> "reject", prev |-> 0]
      BY DEF Direct, Own
    <3>2. Own \in Names /\ newer \in TipsAt(Own) /\ "track" \notin Late
      BY <2>3, NamesAre DEF Late
    <3>3. u \in Updates /\ u.name = Own /\ u.target = newer
      BY <2>3, <3>1, <3>2 DEF Updates
    <3> HIDE DEF u
    <3> QED BY <2>3, <3>2, <3>3, Zenon DEF Pending
  <2> HIDE DEF u, P
  <2>5. Append(rec.tips, u) \in Seq(P)
    BY <2>1, <2>4
  <2> DEFINE new == SetupRad(rec)
  <2>6. new = [rec EXCEPT !.tips = Append(rec.tips, u), !.track = InOrder([q \in sc.delegates |-> <<q>>])]
    BY <1>2, Zenon DEF SetupRad, Setup, newer, delegates, u
  <2> HIDE DEF new
  <2>7. /\ DOMAIN new = Fields /\ new.remote = rec.remote /\ new.clone = rec.clone
        /\ new.anchor = rec.anchor /\ new.tips = Append(rec.tips, u)
        /\ new.sigs = rec.sigs /\ new.ids = rec.ids
        /\ new.loaded = rec.loaded /\ new.transitive = rec.transitive /\ new.edits = rec.edits
        /\ new.why = rec.why
    BY <2>1, <2>6 DEF Fields
  <2>8. RecOK(new, "track", d)
    <3>1. new.tips \in Seq(Pending(new.clone, new.anchor, "track", d))
      BY <2>5, <2>7, Zenon DEF P
    <3> QED BY <2>7, <3>1, Zenon DEF RecOK, d
  <2> QED BY <2>7, <2>8, Zenon DEF new, d
<1> QED BY <1>1, <1>2

LEMMA PeekOK ==
    ASSUME IInv, NEW p \in Procs, Peek(p)
    PROVE  IInv'
<1> DEFINE s == st[p]
           r == s.remote
           d == IsDelegate(Local)
           seen == PeekSees(r)
           tips == s.tips \o VerificationRefs(seen)
           sigs == TipsOf("sigrefs", seen, s.sigs)
           loaded == Combined(sigs)
           rec == [s EXCEPT !.ids = TipsOf("id", seen, @), !.sigs = sigs, !.tips = tips,
                            !.loaded = loaded, !.transitive = TransitivePolicies(loaded)]
<1>1. /\ pc[p] = "peek" /\ UNCHANGED <<sc, refs, tracked, view, accepts>>
      /\ Fail(p, "refused") \/ Step(p, SetupRad(rec), "track")
  BY Zenon DEF Peek, store, env
<1>2. CASE Fail(p, "refused")
  <2>1. "refused" \in Reasons
    BY DEF Reasons
  <2> QED BY <1>1, <1>2, <2>1, FailOK, Zenon
<1>3. CASE Step(p, SetupRad(rec), "track")
  <2>1. RecOK(s, "peek", d) /\ StoreOK /\ DOMAIN s = Fields /\ sc.delegates \subseteq Range(Order)
    BY <1>1, OfPull, Zenon
  <2>2. /\ r \in Others /\ s.anchor \in Nat /\ ListsOK(s.sigs) /\ DOMAIN s.ids \subseteq Others
        /\ s.tips \in Seq(Pending(s.clone, s.anchor, "peek", d))
        /\ EditsOK(s.edits, s.clone, "peek", d) /\ s.why \in Reasons
    BY <2>1 DEF RecOK
  <2> HIDE DEF s, d, r
  <2>3. SeenOK(seen)
    <3>1. /\ DOMAIN seen = PeekPeers
          /\ \A q \in PeekPeers : /\ seen[q].id = Advertised(r, q).id
                                  /\ seen[q].sigrefs = Advertised(r, q).sigrefs \/ seen[q].sigrefs = 0
      BY Zenon DEF PeekSees
    <3>2. PeekPeers \subseteq Others
      BY Zenon DEF PeekPeers
    <3>3. \A q \in Others : TipsOK(q, Advertised(r, q)) /\ 0 \in 0..Len(Signed[q])
      <4>1. \A q \in Others : 0 \in 0..Len(Signed[q])
        BY NamesAre
      <4> QED BY <2>1, <2>2, <4>1, AdvertisedOK, Zenon
    <3> HIDE DEF seen
    <3> QED BY <3>1, <3>2, <3>3, Zenon DEF SeenOK, TipsOK
  <2> HIDE DEF seen
  <2>4. ListsOK(sigs) /\ DOMAIN TipsOf("id", seen, s.ids) \subseteq Others
    BY <2>2, <2>3, SeenTips, Zenon
  <2> HIDE DEF sigs
  <2>5. ListsOK(loaded)
    BY <2>1, <2>4, CombinedLists, Zenon
  <2> HIDE DEF loaded
  <2>6. DOMAIN TransitivePolicies(loaded) \subseteq Others
    BY <2>5, TransitiveOthers, Zenon
  <2>7. tips \in Seq(Pending(s.clone, s.anchor, "track", d))
    <3>1. VerificationRefs(seen) \in Seq(Foreign) /\ "track" \notin Late
      BY <2>3, VerificationForeign DEF Late
    <3> QED BY <2>2, <3>1, PendingMore, Zenon
  <2> HIDE DEF tips
  <2>8. /\ DOMAIN rec = Fields /\ rec.remote = s.remote /\ rec.clone = s.clone
        /\ rec.anchor = s.anchor /\ rec.tips = tips
        /\ rec.sigs = sigs /\ rec.ids = TipsOf("id", seen, s.ids)
        /\ rec.loaded = loaded /\ rec.transitive = TransitivePolicies(loaded)
        /\ rec.edits = s.edits /\ rec.why = s.why
    BY <2>1 DEF Fields
  <2> HIDE DEF rec
  <2>9. EditsOK(s.edits, s.clone, "track", d) /\ "track" # "clone"
    <3>1. "track" # "commit_tips" /\ "track" # "clone"
      OBVIOUS
    <3> QED BY <2>2, <3>1, EditsElsewhere, Zenon
  <2>10. rec.remote \in Others
    BY <2>2, <2>8, Zenon DEF r
  <2>11. RecOK(rec, "track", d)
    BY <2>2, <2>4, <2>5, <2>6, <2>7, <2>8, <2>9, <2>10, Zenon DEF RecOK
  <2>12. /\ RecOK(SetupRad(rec), "track", d)
         /\ SetupRad(rec).clone = st[p].clone /\ SetupRad(rec).anchor = st[p].anchor
    BY <2>1, <2>8, <2>11, SetupRadOK, Zenon DEF s, d
  <2>13. PullsOK'
    BY <1>1, <1>3, <2>12, MoveOK, Zenon DEF d
  <2> QED BY <1>1, <2>13, StoreSame, Zenon DEF IInv
<1> QED BY <1>1, <1>2, <1>3, Zenon

\* A pull that goes on with the same updates, lists and edits.
LEMMA CarriedOK ==
    ASSUME NEW s, NEW where, NEW d, RecOK(s, where, d), where \notin {"idle", "failed"},
           NEW next, next \notin {"clone", "commit_tips"}, next \in Late => where \in Late,
           NEW rec, DOMAIN rec = Fields, rec.remote = s.remote, rec.clone = s.clone,
           rec.anchor = s.anchor, rec.tips = s.tips, rec.sigs = s.sigs, rec.loaded = s.loaded,
           rec.ids = s.ids, rec.transitive = s.transitive, rec.edits = s.edits, rec.why = s.why
    PROVE  RecOK(rec, next, d)
<1>1. /\ s.remote \in Others /\ s.anchor \in Nat
      /\ s.tips \in Seq(Pending(s.clone, s.anchor, where, d))
      /\ ListsOK(s.sigs) /\ ListsOK(s.loaded)
      /\ DOMAIN s.ids \subseteq Others /\ DOMAIN s.transitive \subseteq Others
      /\ EditsOK(s.edits, s.clone, where, d) /\ s.why \in Reasons
  BY Zenon DEF RecOK
<1>2. rec.tips \in Seq(Pending(rec.clone, rec.anchor, next, d))
  <2>1. Pending(s.clone, s.anchor, where, d) \subseteq Pending(s.clone, s.anchor, next, d)
    BY PendingIncludes, Zenon
  <2>2. s.tips \in Seq(Pending(s.clone, s.anchor, next, d))
    BY <1>1, <2>1, SeqOfMore, Zenon
  <2> QED BY <2>2, Zenon
<1>3. EditsOK(rec.edits, rec.clone, next, d) /\ next # "clone"
  <2>1. next # "commit_tips" /\ next # "clone"
    OBVIOUS
  <2> QED BY <1>1, <2>1, EditsElsewhere, Zenon
<1> QED BY <1>1, <1>2, <1>3, Zenon DEF RecOK

LEMMA TrackOK ==
    ASSUME IInv, NEW p \in Procs, Track(p)
    PROVE  IInv'
<1> DEFINE s == st[p]
           rec == [s EXCEPT !.track = << >>]
           d == IsDelegate(Local)
<1>1. /\ pc[p] = "track" /\ UNCHANGED <<sc, refs, view, accepts>>
      /\ Step(p, rec, "ids") \/ Disturb(p, rec, "ids")
      /\ tracked' = tracked \/ \E q : tracked' = [tracked EXCEPT ![q] = "allow"]
  BY Zenon DEF Track, env
<1>2. RecOK(s, "track", d) /\ StoreOK /\ DOMAIN s = Fields
  BY <1>1, OfPull, Zenon
<1> HIDE DEF s, d
<1>3. /\ DOMAIN rec = Fields /\ rec.remote = s.remote /\ rec.clone = s.clone
      /\ rec.anchor = s.anchor /\ rec.tips = s.tips /\ rec.sigs = s.sigs /\ rec.loaded = s.loaded
      /\ rec.ids = s.ids /\ rec.transitive = s.transitive /\ rec.edits = s.edits
      /\ rec.why = s.why
  BY <1>2 DEF Fields
<1> HIDE DEF rec
<1>4. RecOK(rec, "ids", d)
  <2>1. /\ "track" \notin {"idle", "failed"} /\ "ids" \notin {"clone", "commit_tips"}
        /\ "ids" \notin Late
    BY DEF Late
  <2> QED BY <1>2, <1>3, <2>1, CarriedOK, Zenon
<1>5. PullsOK'
  BY <1>1, <1>3, <1>4, MoveOK, Zenon DEF s, d
<1>6. tracked' \in [Range(Order) -> Policies]
  BY <1>1, <1>2 DEF StoreOK, Policies
<1>7. StoreOK'
  BY <1>1, <1>2, <1>6, Zenon DEF StoreOK
<1> QED BY <1>5, <1>7, Zenon DEF IInv

\* Both transactions are prepared from what is pending; the first one takes all of
\* the identity tips, so that the own rad/id is no longer pending.
LEMMA EditOK ==
    ASSUME IInv, NEW p \in Procs, NEW updates, NEW rest, NEW next \in {"commit_ids", "commit_tips"},
           Edit(p, updates, rest, next), pc[p] \notin {"idle", "failed"},
           next = "commit_tips" => pc[p] \in Late,
           updates \in Seq(Pending(st[p].clone, st[p].anchor, pc[p], IsDelegate(Local))),
           rest \in Seq(Pending(st[p].clone, st[p].anchor, next, IsDelegate(Local)))
    PROVE  IInv'
<1> DEFINE s == st[p]
           d == IsDelegate(Local)
           rec == [s EXCEPT !.edits = EditsOf(updates), !.tips = rest]
<1>1. UNCHANGED <<sc, refs, tracked, view, accepts>> /\ (Fail(p, "nonff") \/ Step(p, rec, next))
  BY Zenon DEF Edit, store, env
<1>2. CASE Fail(p, "nonff")
  <2>1. "nonff" \in Reasons
    BY DEF Reasons
  <2> QED BY <1>1, <1>2, <2>1, FailOK, Zenon
<1>3. CASE Step(p, rec, next)
  <2>1. RecOK(s, pc[p], d) /\ StoreOK /\ DOMAIN s = Fields /\ (d /\ ~s.clone => s.anchor <= refs[Own])
    BY OfPull, Zenon
  <2>2. /\ s.remote \in Others /\ s.anchor \in Nat /\ ListsOK(s.sigs) /\ ListsOK(s.loaded)
        /\ DOMAIN s.ids \subseteq Others /\ DOMAIN s.transitive \subseteq Others /\ s.why \in Reasons
    BY <2>1, Zenon DEF RecOK
  <2>3. EditsOK(EditsOf(updates), s.clone, next, d)
    <3> HIDE DEF s, d
    <3>1. updates \in Seq(Pending(s.clone, s.anchor, pc[p], d))
      BY DEF s, d
    <3> QED BY <2>1, <2>2, <3>1, EditsOfOK, Zenon
  <2>4. rest \in Seq(Pending(s.clone, s.anchor, next, d)) /\ next # "clone"
    OBVIOUS
  <2> HIDE DEF s, d
  <2>5. /\ DOMAIN rec = Fields /\ rec.remote = s.remote /\ rec.clone = s.clone
        /\ rec.anchor = s.anchor /\ rec.tips = rest /\ rec.sigs = s.sigs /\ rec.loaded = s.loaded
        /\ rec.ids = s.ids /\ rec.transitive = s.transitive /\ rec.edits = EditsOf(updates)
        /\ rec.why = s.why
    BY <2>1 DEF Fields
  <2> HIDE DEF rec
  <2>6. RecOK(rec, next, d)
    BY <2>2, <2>3, <2>4, <2>5, Zenon DEF RecOK
  <2>7. PullsOK'
    BY <1>1, <1>3, <2>5, <2>6, MoveOK, Zenon DEF s, d
  <2> QED BY <1>1, <2>7, StoreSame, Zenon DEF IInv
<1> QED BY <1>1, <1>2, <1>3, Zenon

LEMMA EditIdsOK ==
    ASSUME IInv, NEW p \in Procs, EditIds(p)
    PROVE  IInv'
<1> DEFINE s == st[p]
           d == IsDelegate(Local)
           P == Pending(s.clone, s.anchor, "ids", d)
           N == Pending(s.clone, s.anchor, "commit_ids", d)
           ids == DrainIds(s.tips).ids
           rest == DrainIds(s.tips).rest
<1>1. pc[p] = "ids" /\ Edit(p, ids, rest, "commit_ids")
  BY Zenon DEF EditIds
<1>2. s.tips \in Seq(P)
  BY <1>1, OfPull, Zenon DEF RecOK
<1>3. ids \in Seq(P) /\ rest \in Seq(P) /\ \A j \in 1..Len(rest) : rest[j].name[2] # "id"
  BY <1>2, DrainIdsType, Zenon
<1> HIDE DEF rest, ids
<1>4. \A u \in P : u.name[2] # "id" => u \in N
  <2>1. \A u \in P : u \in Updates
    BY PendingIncludes, Zenon
  <2>2. Own[2] = "id"
    BY NamesAre, Zenon
  <2> QED BY <2>1, <2>2, Zenon DEF Pending
<1> HIDE DEF P
<1>5. rest \in Seq(N)
  <2> HIDE DEF N
  <2>1. Len(rest) \in Nat /\ rest \in [1..Len(rest) -> P]
    BY <1>3, SeqIsFunction, Zenon
  <2>2. \A j \in 1..Len(rest) : rest[j] \in N
    BY <1>3, <1>4, <2>1
  <2>3. rest \in [1..Len(rest) -> N]
    BY <2>1, <2>2
  <2> QED BY <2>1, <2>3
<1>6. "commit_ids" \in {"commit_ids", "commit_tips"} /\ "ids" \notin {"idle", "failed"}
      /\ "commit_ids" # "commit_tips"
  OBVIOUS
<1> QED BY <1>1, <1>3, <1>5, <1>6, EditOK, Zenon DEF P, N, s, d

LEMMA EditTipsOK ==
    ASSUME IInv, NEW p \in Procs, EditTips(p)
    PROVE  IInv'
<1> DEFINE d == IsDelegate(Local)
<1>1. pc[p] = "tips" /\ Edit(p, st[p].tips, << >>, "commit_tips")
  BY Zenon DEF EditTips
<1>2. st[p].tips \in Seq(Pending(st[p].clone, st[p].anchor, "tips", d))
  BY <1>1, OfPull, Zenon DEF RecOK
<1>3. << >> \in Seq(Pending(st[p].clone, st[p].anchor, "commit_tips", d))
  OBVIOUS
<1>4. "commit_tips" \in {"commit_ids", "commit_tips"} /\ "tips" \notin {"idle", "failed"}
      /\ "tips" \in Late
  BY DEF Late
<1> QED BY <1>1, <1>2, <1>3, <1>4, EditOK, Zenon

\* A step moves no guarded ref back.
Advances == \A n \in Names : n = Own \/ n[2] = "sigrefs" => refs'[n] >= refs[n]

\* A step moves a delegate's own rad/id only as the user's, or that of a clone.
Confirmed ==
    IsDelegate(Local) /\ refs[Own] # 0 /\ refs'[Own] # refs[Own] =>
        \/ accepts' # accepts
        \/ \E p \in Procs : st[p].clone /\ pc[p] = "commit_ids" /\ pc'[p] # pc[p]

LEMMA RefsSame ==
    ASSUME IInv, refs' = refs
    PROVE  Advances /\ Confirmed
<1>1. \A n \in Names : refs[n] \in Nat
  BY Zenon DEF IInv, StoreOK
<1>2. Advances
  BY <1>1 DEF Advances
<1>3. Confirmed
  BY Zenon DEF Confirmed
<1> QED BY <1>2, <1>3

\* What a transaction may do, as a whole or in part, if all is as it was read.
LEMMA ApplyOK ==
    ASSUME StoreOK, NEW e, NEW clone, NEW where, NEW d, EditsOK(e, clone, where, d), Matches(e),
           NEW some \in SUBSET DOMAIN e, refs' = Apply(e, some)
    PROVE  /\ refs' \in [Names -> Nat] /\ \A n \in Names : refs'[n] \in TipsAt(n)
           /\ Advances
           /\ (d /\ ~clone) \/ where = "commit_tips" => refs'[Own] = refs[Own]
           /\ refs[Own] \in Nat /\ refs'[Own] \in Nat /\ refs[Own] <= refs'[Own]
<1>1. ASSUME NEW n \in Names
      PROVE  /\ refs'[n] \in TipsAt(n) /\ refs'[n] \in Nat /\ refs[n] \in Nat
             /\ Guarded(n) => refs'[n] >= refs[n]
             /\ n = Own /\ ((d /\ ~clone) \/ where = "commit_tips") => refs'[n] = refs[n]
  <2>1. refs[n] \in TipsAt(n) /\ refs[n] \in Nat /\ TipsAt(n) \subseteq Nat
    BY NamesAre, Zenon DEF StoreOK
  <2>2. refs'[n] = IF n \in some THEN e[n].new ELSE refs[n]
    BY Zenon DEF Apply
  <2>3. CASE n \notin some
    BY <2>1, <2>2, <2>3
  <2>4. CASE n \in some
    <3>1. /\ e[n].new \in TipsAt(n) /\ refs[n] = e[n].expected
          /\ Guarded(n) => e[n].new >= e[n].expected
          /\ n = Own => where # "commit_tips" /\ (d /\ ~clone => e[n].new = e[n].expected)
      BY <2>4, Zenon DEF EditsOK, Matches
    <3>2. refs'[n] = e[n].new
      BY <2>2, <2>4, Zenon
    <3> QED BY <2>1, <3>1, <3>2, Zenon
  <2> QED BY <2>3, <2>4, Zenon
<1>2. refs' \in [Names -> Nat]
  <2>1. refs' = [n \in Names |-> refs'[n]]
    BY Zenon DEF Apply
  <2> QED BY <1>1, <2>1, Zenon
<1>3. Advances
  BY <1>1, Zenon DEF Advances, Guarded
<1>4. Own \in Names
  BY NamesAre, Zenon
<1>5. Guarded(Own)
  BY DEF Guarded
<1>6. refs[Own] \in Nat /\ refs'[Own] \in Nat /\ refs'[Own] >= refs[Own]
  BY <1>1, <1>4, <1>5, Zenon
<1>7. refs[Own] <= refs'[Own]
  BY <1>6
<1> QED BY <1>1, <1>2, <1>3, <1>4, <1>6, <1>7, Zenon

LEMMA CommitOK ==
    ASSUME IInv, NEW p \in Procs, Commit(p)
    PROVE  IInv' /\ Advances /\ Confirmed
<1> DEFINE s == st[p]
           d == IsDelegate(Local)
           rec == [s EXCEPT !.edits = << >>, !.ids = Empty, !.sigs = Empty]
           next == IF pc[p] = "commit_ids" THEN "fetch" ELSE "sign"
<1>1. /\ pc[p] \in {"commit_ids", "commit_tips"} /\ UNCHANGED <<sc, tracked, view, accepts>>
      /\ \/ Fail(p, "modified") /\ refs' = refs
         \/ /\ Matches(s.edits) /\ refs' = Apply(s.edits, DOMAIN s.edits)
            /\ Step(p, rec, next) \/ Disturb(p, rec, next)
  BY Zenon DEF Commit, env
<1>2. CASE Fail(p, "modified") /\ refs' = refs
  <2>1. "modified" \in Reasons
    BY DEF Reasons
  <2> QED BY <1>1, <1>2, <2>1, FailOK, RefsSame, Zenon
<1>3. CASE /\ Matches(s.edits) /\ refs' = Apply(s.edits, DOMAIN s.edits)
           /\ Step(p, rec, next) \/ Disturb(p, rec, next)
  <2>1. RecOK(s, pc[p], d) /\ StoreOK /\ DOMAIN s = Fields /\ (d /\ ~s.clone => s.anchor <= refs[Own])
    BY OfPull, Zenon
  <2>2. /\ s.remote \in Others /\ s.anchor \in Nat /\ ListsOK(s.loaded)
        /\ s.tips \in Seq(Pending(s.clone, s.anchor, pc[p], d))
        /\ DOMAIN s.transitive \subseteq Others /\ EditsOK(s.edits, s.clone, pc[p], d)
        /\ s.why \in Reasons
    <3>1. pc[p] \notin {"idle", "failed"}
      BY <1>1
    <3> QED BY <2>1, <3>1, Zenon DEF RecOK
  <2>3. /\ refs' \in [Names -> Nat] /\ \A n \in Names : refs'[n] \in TipsAt(n)
        /\ Advances
        /\ (d /\ ~s.clone) \/ pc[p] = "commit_tips" => refs'[Own] = refs[Own]
        /\ refs[Own] \in Nat /\ refs'[Own] \in Nat /\ refs[Own] <= refs'[Own]
    <3>1. DOMAIN s.edits \in SUBSET DOMAIN s.edits
      BY Zenon
    <3> HIDE DEF s, d
    <3> QED BY <1>3, <2>1, <2>2, <3>1, ApplyOK, Zenon
  <2>4. /\ next \notin {"clone", "commit_tips", "idle", "failed"} /\ pc[p] # next
        /\ next \in Late => pc[p] \in Late
    BY <1>1 DEF Late
  <2>5. pc'[p] = next
    BY <1>3, Zenon DEF Step, Disturb, IInv, PullsOK
  <2> HIDE DEF next
  <2>6. /\ DOMAIN rec = Fields /\ rec.remote = s.remote /\ rec.clone = s.clone
        /\ rec.anchor = s.anchor /\ rec.tips = s.tips /\ rec.sigs = Empty /\ rec.loaded = s.loaded
        /\ rec.ids = Empty /\ rec.transitive = s.transitive /\ rec.edits = << >>
        /\ rec.why = s.why
    <3> HIDE DEF s
    <3> QED BY <2>1 DEF Fields
  <2> HIDE DEF rec
  <2>7. /\ ListsOK(Empty) /\ DOMAIN Empty \subseteq Others /\ EditsOK(<< >>, s.clone, next, d)
    <3>1. DOMAIN Empty = {} /\ DOMAIN << >> = {}
      BY DEF Empty
    <3> QED BY <3>1, Zenon DEF ListsOK, EditsOK
  <2>8. s.tips \in Seq(Pending(s.clone, s.anchor, next, d)) /\ next # "clone"
    <3>1. Pending(s.clone, s.anchor, pc[p], d) \subseteq Pending(s.clone, s.anchor, next, d)
      BY <2>4, PendingIncludes, Zenon
    <3>2. next # "clone"
      BY <2>4
    <3> DEFINE before == Pending(s.clone, s.anchor, pc[p], d)
               after == Pending(s.clone, s.anchor, next, d)
               tips == s.tips
    <3>3. tips \in Seq(before) /\ before \subseteq after
      BY <2>2, <3>1, Zenon
    <3> HIDE DEF before, after, tips
    <3>4. tips \in Seq(after)
      BY <3>3, SeqOfMore, Zenon
    <3> QED BY <3>2, <3>4, Zenon DEF after, tips
  <2>9. RecOK(rec, next, d)
    BY <2>2, <2>6, <2>7, <2>8, Zenon DEF RecOK
  <2>10. d /\ ~rec.clone => rec.anchor <= refs'[Own]
    <3> HIDE DEF s, d
    <3> QED BY <2>1, <2>2, <2>3, <2>6
  <2>11. PullsOK'
    BY <1>1, <1>3, <2>3, <2>9, <2>10, StepOK, Zenon
  <2>12. StoreOK'
    BY <1>1, <2>1, <2>3, Zenon DEF StoreOK
  <2>13. Confirmed
    <3>1. CASE d /\ ~s.clone
      BY <2>3, <3>1, Zenon DEF Confirmed
    <3>2. CASE pc[p] = "commit_tips"
      BY <2>3, <3>2, Zenon DEF Confirmed
    <3>3. CASE s.clone /\ pc[p] = "commit_ids"
      BY <2>4, <2>5, <3>3, Zenon DEF Confirmed
    <3>4. CASE ~d
      BY <3>4, Zenon DEF Confirmed
    <3>5. pc[p] = "commit_ids" \/ pc[p] = "commit_tips"
      BY <1>1
    <3> QED BY <3>1, <3>2, <3>3, <3>4, <3>5, Zenon
  <2> QED BY <2>3, <2>11, <2>12, <2>13, Zenon DEF IInv
<1> QED BY <1>1, <1>2, <1>3, Zenon

LEMMA CommitPartiallyOK ==
    ASSUME IInv, NEW p \in Procs, CommitPartially(p)
    PROVE  IInv' /\ Advances /\ Confirmed
<1> DEFINE s == st[p]
           d == IsDelegate(Local)
<1>1. /\ pc[p] \in {"commit_ids", "commit_tips"} /\ UNCHANGED <<sc, tracked, view, accepts>>
      /\ Matches(s.edits) /\ Disturb(p, Failed(p, "io"), "failed")
  BY Zenon DEF CommitPartially
<1>2. PICK some \in SUBSET DOMAIN s.edits : refs' = Apply(s.edits, some)
  BY Zenon DEF CommitPartially
<1>3. RecOK(s, pc[p], d) /\ StoreOK
  BY OfPull, Zenon
<1>4. EditsOK(s.edits, s.clone, pc[p], d)
  BY <1>3, Zenon DEF RecOK
<1>5. /\ refs' \in [Names -> Nat] /\ \A n \in Names : refs'[n] \in TipsAt(n)
      /\ Advances
      /\ (d /\ ~s.clone) \/ pc[p] = "commit_tips" => refs'[Own] = refs[Own]
      /\ refs[Own] \in Nat /\ refs'[Own] \in Nat /\ refs[Own] <= refs'[Own]
  <2> HIDE DEF s, d
  <2> QED BY <1>1, <1>2, <1>3, <1>4, ApplyOK, Zenon
<1>6. PullsOK'
  <2>1. "io" \in Reasons /\ "failed" \in {"idle", "failed"}
    BY DEF Reasons
  <2> QED BY <1>1, <1>5, <2>1, EndOK, Zenon
<1>7. StoreOK'
  BY <1>1, <1>3, <1>5, Zenon DEF StoreOK
<1>8. Confirmed
  <2>1. CASE (d /\ ~s.clone) \/ pc[p] = "commit_tips"
    BY <1>5, <2>1, Zenon DEF Confirmed
  <2>2. CASE s.clone /\ pc[p] = "commit_ids"
    <3>1. pc'[p] = "failed"
      BY <1>1, Zenon DEF Disturb, IInv, PullsOK
    <3>2. pc'[p] # pc[p]
      BY <2>2, <3>1
    <3> QED BY <2>2, <3>2, Zenon DEF Confirmed
  <2>3. CASE ~d
    BY <2>3, Zenon DEF Confirmed
  <2>4. pc[p] = "commit_ids" \/ pc[p] = "commit_tips"
    BY <1>1
  <2> QED BY <2>1, <2>2, <2>3, <2>4, Zenon
<1> QED BY <1>5, <1>6, <1>7, <1>8, Zenon DEF IInv

LEMMA FetchOK ==
    ASSUME IInv, NEW p \in Procs, Fetch(p)
    PROVE  IInv'
<1> DEFINE s == st[p]
           r == s.remote
           d == IsDelegate(Local)
           seen == FetchSees(r, s.loaded)
           parts == [q \in DOMAIN s.loaded |-> SignedUpdates(q, s.loaded[q])]
           ids == TipsOf("id", seen, Empty)
           sigs == TipsOf("sigrefs", seen, Empty)
           rec == [s EXCEPT !.tips = @ \o InOrder(parts), !.trees = s.loaded, !.ids = ids, !.sigs = sigs]
           next == IF DOMAIN ids = {} THEN "tips" ELSE "transitive"
<1>1. pc[p] = "fetch" /\ UNCHANGED <<sc, refs, tracked, view, accepts>> /\ Step(p, rec, next)
  BY Zenon DEF Fetch, store, env
<1>2. RecOK(s, "fetch", d) /\ StoreOK /\ DOMAIN s = Fields
  BY <1>1, OfPull, Zenon
<1>3. /\ r \in Others /\ s.anchor \in Nat /\ ListsOK(s.loaded)
      /\ s.tips \in Seq(Pending(s.clone, s.anchor, "fetch", d))
      /\ DOMAIN s.transitive \subseteq Others /\ EditsOK(s.edits, s.clone, "fetch", d)
      /\ s.why \in Reasons
  BY <1>2 DEF RecOK
<1> HIDE DEF s, d, r
<1>4. SeenOK(seen)
  <2>1. /\ DOMAIN seen \subseteq Others
        /\ \A q \in DOMAIN seen : seen[q] = Advertised(r, q)
    BY Zenon DEF FetchSees
  <2> HIDE DEF seen
  <2> QED BY <1>2, <1>3, <2>1, AdvertisedOK, Zenon DEF SeenOK
<1> HIDE DEF seen
<1>5. ListsOK(sigs) /\ DOMAIN ids \subseteq Others
  <2>1. DOMAIN Empty = {}
    BY DEF Empty
  <2>2. ListsOK(Empty) /\ DOMAIN Empty \subseteq Others
    BY <2>1, Zenon DEF ListsOK
  <2> QED BY <1>4, <2>2, SeenTips, Zenon
<1> HIDE DEF sigs, ids
<1>6. InOrder(parts) \in Seq(Foreign)
  <2>1. ASSUME NEW q \in DOMAIN parts PROVE parts[q] \in Seq(Foreign)
    <3>1. q \in Others /\ s.loaded[q] \in 1..Len(Signed[q]) /\ parts[q] = SignedUpdates(q, s.loaded[q])
      BY <1>3, Zenon DEF ListsOK
    <3> HIDE DEF parts
    <3> QED BY <1>2, <3>1, SignedForeign, Zenon
  <2> HIDE DEF parts
  <2> QED BY <2>1, InOrderType, Zenon
<1> HIDE DEF parts
<1>7. next \notin {"clone", "commit_tips"} /\ (next \in Late => "fetch" \in Late)
  BY DEF Late
<1> HIDE DEF next
<1>8. s.tips \o InOrder(parts) \in Seq(Pending(s.clone, s.anchor, next, d))
  BY <1>3, <1>6, <1>7, PendingMore, Zenon
<1>9. /\ DOMAIN rec = Fields /\ rec.remote = s.remote /\ rec.clone = s.clone
      /\ rec.anchor = s.anchor /\ rec.tips = s.tips \o InOrder(parts) /\ rec.sigs = sigs
      /\ rec.loaded = s.loaded /\ rec.ids = ids /\ rec.transitive = s.transitive
      /\ rec.edits = s.edits /\ rec.why = s.why
  BY <1>2 DEF Fields
<1> HIDE DEF rec
<1>10. EditsOK(s.edits, s.clone, next, d) /\ next # "clone"
  <2>1. next # "commit_tips" /\ next # "clone"
    BY <1>7
  <2> QED BY <1>3, <2>1, EditsElsewhere, Zenon
<1>11. rec.remote \in Others
  BY <1>3, <1>9, Zenon DEF r
<1>12. RecOK(rec, next, d)
  BY <1>3, <1>5, <1>8, <1>9, <1>10, <1>11, Zenon DEF RecOK
<1>13. PullsOK'
  BY <1>1, <1>9, <1>12, MoveOK, Zenon DEF s, d
<1> QED BY <1>1, <1>13, StoreSame, Zenon DEF IInv

LEMMA TransitiveOK ==
    ASSUME IInv, NEW p \in Procs, Transitive(p)
    PROVE  IInv'
<1> DEFINE s == st[p]
           r == s.remote
           d == IsDelegate(Local)
           policy == s.transitive
           allowed == {q \in DOMAIN policy : policy[q] = "allow" /\ q \in DOMAIN s.sigs}
           denied == {q \in DOMAIN policy : policy[q] = "deny"}
           seen == TransitiveSees(r, s.ids, s.sigs, allowed, denied)
           refused == MissingRequired(TransitiveRequired(allowed, denied), seen)
           more == VerificationRefs(seen)
           trees == s.trees @@ [q \in allowed |-> s.sigs[q]]
           rec == [s EXCEPT !.tips = @ \o more, !.trees = trees]
<1>1. /\ pc[p] = "transitive" /\ UNCHANGED <<sc, refs, tracked, view, accepts>>
      /\ IF refused THEN Fail(p, "refused") ELSE Step(p, rec, "tips")
  BY Zenon DEF Transitive, store, env
<1>2. RecOK(s, "transitive", d) /\ StoreOK /\ DOMAIN s = Fields
  BY <1>1, OfPull, Zenon
<1>3. /\ r \in Others /\ s.anchor \in Nat /\ ListsOK(s.loaded) /\ ListsOK(s.sigs)
      /\ s.tips \in Seq(Pending(s.clone, s.anchor, "transitive", d))
      /\ DOMAIN s.transitive \subseteq Others /\ EditsOK(s.edits, s.clone, "transitive", d)
      /\ s.why \in Reasons /\ DOMAIN s.ids \subseteq Others
  BY <1>2 DEF RecOK
<1>4. CASE refused
  <2>1. Fail(p, "refused")
    BY <1>1, <1>4, Zenon
  <2>2. "refused" \in Reasons
    BY DEF Reasons
  <2> QED BY <1>1, <2>1, <2>2, FailOK, Zenon
<1>5. CASE ~refused
  <2>1. Step(p, rec, "tips")
    BY <1>1, <1>5, Zenon
  <2> HIDE DEF refused, d
  <2>2. SeenOK(seen)
    <3>1. /\ DOMAIN seen = (allowed \cup denied \cup DOMAIN s.ids) \ {r}
          /\ \A q \in DOMAIN seen :
                seen[q] = [id |-> Advertised(r, q).id,
                           sigrefs |-> IF q \in allowed /\ Advertised(r, q).sigrefs # 0
                                       THEN s.sigs[q] ELSE 0]
      BY Zenon DEF TransitiveSees
    <3>2. DOMAIN seen \subseteq Others
      BY <1>3, <3>1, Zenon
    <3>3. \A q \in allowed : s.sigs[q] \in 1..Len(Signed[q])
      BY <1>3, Zenon DEF ListsOK
    <3> HIDE DEF seen, allowed, denied, s, r, policy
    <3>4. ASSUME NEW q \in DOMAIN seen PROVE TipsOK(q, seen[q])
      <4>1. q \in Others
        BY <3>2, <3>4, Zenon
      <4>2. Len(Signed[q]) \in Nat /\ Advertised(r, q).id \in Nat
        BY <1>2, <1>3, <4>1, NamesAre, AdvertisedOK, Zenon DEF TipsOK
      <4>3. seen[q].id = Advertised(r, q).id
            /\ (seen[q].sigrefs = 0 \/ (q \in allowed /\ seen[q].sigrefs = s.sigs[q]))
        <5> DEFINE id == Advertised(r, q).id
                   listed == q \in allowed /\ Advertised(r, q).sigrefs # 0
                   list == s.sigs[q]
        <5>1. seen[q] = [id |-> id, sigrefs |-> IF listed THEN list ELSE 0] /\ (listed => q \in allowed)
          BY <3>1, <3>4, Zenon
        <5> HIDE DEF id, listed, list
        <5>2. seen[q].id = id /\ (seen[q].sigrefs = 0 \/ (listed /\ seen[q].sigrefs = list))
          BY <5>1
        <5> QED BY <5>1, <5>2, Zenon DEF id, list
      <4>4. seen[q].sigrefs \in 0..Len(Signed[q])
        BY <3>3, <4>2, <4>3
      <4> QED BY <4>2, <4>3, <4>4, Zenon DEF TipsOK
    <3> QED BY <3>2, <3>4, Zenon DEF SeenOK
  <2> HIDE DEF seen, s, r, trees
  <2>3. more \in Seq(Foreign)
    BY <2>2, VerificationForeign, Zenon
  <2> HIDE DEF more
  <2>4. "tips" \in Late /\ "transitive" \in Late /\ "tips" # "clone" /\ "tips" # "commit_tips"
    BY DEF Late
  <2>5. s.tips \o more \in Seq(Pending(s.clone, s.anchor, "tips", d))
    BY <1>3, <2>3, <2>4, PendingMore, Zenon
  <2>6. /\ DOMAIN rec = Fields /\ rec.remote = s.remote /\ rec.clone = s.clone
        /\ rec.anchor = s.anchor /\ rec.tips = s.tips \o more /\ rec.sigs = s.sigs
        /\ rec.loaded = s.loaded /\ rec.ids = s.ids /\ rec.transitive = s.transitive
        /\ rec.edits = s.edits /\ rec.why = s.why
    BY <1>2 DEF Fields
  <2> HIDE DEF rec
  <2>7. EditsOK(s.edits, s.clone, "tips", d)
    BY <1>3, <2>4, EditsElsewhere, Zenon
  <2>8. rec.remote \in Others
    BY <1>3, <2>6, Zenon DEF r
  <2>9. RecOK(rec, "tips", d)
    BY <1>3, <2>4, <2>5, <2>6, <2>7, <2>8, Zenon DEF RecOK
  <2>10. PullsOK'
    BY <1>1, <2>1, <2>6, <2>9, MoveOK, Zenon DEF s, d
  <2> QED BY <1>1, <2>10, StoreSame, Zenon DEF IInv
<1> QED BY <1>4, <1>5, Zenon

\* A step on the way to the own signed refs.
LEMMA SigningOK ==
    ASSUME IInv, NEW p \in Procs, pc[p] \in {"sign", "parent", "commit_signed"},
           NEW rec, rec = st[p] \/ (\E x : rec = [st[p] EXCEPT !.own = x])
                                \/ (\E x : rec = [st[p] EXCEPT !.parent = x]),
           NEW next \in {"sign", "parent", "commit_signed", "validate"},
           Step(p, rec, next) \/ Disturb(p, rec, next),
           UNCHANGED <<sc, refs, tracked, view, accepts>>
    PROVE  IInv'
<1> DEFINE s == st[p]
           d == IsDelegate(Local)
<1>1. RecOK(s, pc[p], d) /\ DOMAIN s = Fields
  BY OfPull, Zenon
<1>2. /\ DOMAIN rec = Fields /\ rec.remote = s.remote /\ rec.clone = s.clone
      /\ rec.anchor = s.anchor /\ rec.tips = s.tips /\ rec.sigs = s.sigs
      /\ rec.loaded = s.loaded /\ rec.ids = s.ids /\ rec.transitive = s.transitive
      /\ rec.edits = s.edits /\ rec.why = s.why
  BY <1>1 DEF Fields
<1>3. pc[p] \notin {"idle", "failed"} /\ next \notin {"clone", "commit_tips"} /\ next \notin Late
  BY DEF Late
<1> HIDE DEF s, d
<1>4. RecOK(rec, next, d)
  BY <1>1, <1>2, <1>3, CarriedOK, Zenon
<1>5. PullsOK'
  BY <1>2, <1>4, MoveOK, Zenon DEF s, d
<1> QED BY <1>5, StoreSame, Zenon DEF IInv

LEMMA SignedRefsOK ==
    ASSUME IInv, NEW p \in Procs, Sign(p) \/ Parent(p) \/ CommitSigned(p)
    PROVE  IInv'
<1>1. CASE Sign(p)
  <2> DEFINE rec == [st[p] EXCEPT !.own = Computed]
  <2>1. /\ pc[p] = "sign" /\ Step(p, rec, "parent") /\ \E x : rec = [st[p] EXCEPT !.own = x]
        /\ UNCHANGED <<sc, refs, tracked, view, accepts>>
    BY <1>1, Zenon DEF Sign, store, env
  <2> HIDE DEF rec
  <2> QED BY <2>1, SigningOK
<1>2. CASE Parent(p)
  <2> DEFINE rec == [st[p] EXCEPT !.parent = signed.at]
             next == IF st[p].own = signed.list THEN "validate" ELSE "commit_signed"
  <2>1. /\ pc[p] = "parent" /\ Step(p, rec, next) /\ \E x : rec = [st[p] EXCEPT !.parent = x]
        /\ UNCHANGED <<sc, refs, tracked, view, accepts>>
    BY <1>2, Zenon DEF Parent, store, env
  <2>2. next \in {"sign", "parent", "commit_signed", "validate"}
    OBVIOUS
  <2> HIDE DEF rec, next
  <2> QED BY <2>1, <2>2, SigningOK
<1>3. CASE CommitSigned(p)
  <2>1. pc[p] = "commit_signed" /\ UNCHANGED <<sc, refs, tracked, view, accepts>>
    BY <1>3, Zenon DEF CommitSigned, env
  <2>2. CASE Disturb(p, st[p], "validate") \/ Step(p, st[p], "sign")
    BY <2>1, <2>2, SigningOK
  <2>3. CASE Fail(p, "contended")
    <3>1. "contended" \in Reasons
      BY DEF Reasons
    <3> QED BY <2>1, <2>3, <3>1, FailOK, Zenon
  <2> QED BY <1>3, <2>2, <2>3, Zenon DEF CommitSigned
<1> QED BY <1>1, <1>2, <1>3, Zenon

LEMMA ValidateOK ==
    ASSUME IInv, NEW p \in Procs, Validate(p)
    PROVE  IInv'
<1>1. Step(p, Fresh, "idle") /\ UNCHANGED <<sc, refs, tracked, view, accepts>>
  BY Zenon DEF Validate, store, env
<1>2. refs[Own] \in Nat
  BY RefsTips, Zenon DEF IInv
<1>3. refs'[Own] \in Nat /\ refs[Own] <= refs'[Own] /\ "idle" \in {"idle", "failed"}
  BY <1>1, <1>2
<1>4. PullsOK'
  BY <1>1, <1>3, EndOK, Zenon
<1> QED BY <1>1, <1>4, StoreSame, Zenon DEF IInv

\* What the user and the remotes do leaves the pulls where they are.
LEMMA AsideOK ==
    ASSUME PullsOK, DOMAIN st' = Procs,
           \A p \in Procs : st'[p] = st[p] \/ st'[p] = Disturbed(st[p]),
           pc' = pc, sc' = sc, refs[Own] \in Nat, refs'[Own] \in Nat, refs[Own] <= refs'[Own]
    PROVE  PullsOK'
<1> DEFINE d == IsDelegate(Local)
<1>1. d' = d
  BY DEF IsDelegate
<1>2. ASSUME NEW p \in Procs
      PROVE  /\ RecOK(st'[p], pc'[p], d)
             /\ d /\ ~st'[p].clone => st'[p].anchor <= refs'[Own]
  <2>1. RecOK(st[p], pc[p], d) /\ (d /\ ~st[p].clone => st[p].anchor <= refs[Own])
    BY Zenon DEF PullsOK
  <2> HIDE DEF d
  <2>2. RecOK(st'[p], pc'[p], d) /\ st'[p].clone = st[p].clone /\ st'[p].anchor = st[p].anchor
    <3>1. CASE st'[p] = st[p]
      BY <2>1, <3>1, Zenon
    <3>2. CASE st'[p] = Disturbed(st[p])
      BY <2>1, <3>2, DisturbedOK, Zenon
    <3> QED BY <3>1, <3>2, Zenon
  <2>3. st[p].anchor \in Nat
    BY <2>1, Zenon DEF RecOK
  <2>4. d /\ ~st[p].clone => st[p].anchor <= refs'[Own]
    BY <2>1, <2>3
  <2> QED BY <2>2, <2>4, Zenon
<1>3. DOMAIN pc' = Procs
  BY Zenon DEF PullsOK
<1> HIDE DEF d
<1> QED BY <1>1, <1>2, <1>3, Zenon DEF PullsOK, d

LEMMA AdvanceOK ==
    ASSUME IInv, NEW r \in Others, NEW q \in Others, Advance(r, q)
    PROVE  IInv'
<1>1. /\ UNCHANGED <<sc, refs, tracked, pc, accepts>>
      /\ view[r][q] < IF r = q THEN Len(Published[q]) ELSE view[q][q]
      /\ view' = [view EXCEPT ![r][q] = @ + 1]
      /\ DOMAIN st' = Procs /\ \A p \in Procs : st'[p] = st[p] \/ st'[p] = Disturbed(st[p])
  BY Zenon DEF Advance, store, Disturbed
<1>2. /\ view \in [Others -> [Others -> Nat]]
      /\ \A x, y \in Others : view[x][y] \in 0..Len(Published[y])
  BY Zenon DEF IInv, StoreOK
<1>3. \A y \in Others : Len(Published[y]) \in Nat
  BY PublishedAssumption
<1>4. view' \in [Others -> [Others -> Nat]]
  BY <1>1, <1>2
<1>5. ASSUME NEW x \in Others, NEW y \in Others PROVE view'[x][y] \in 0..Len(Published[y])
  <2>1. CASE x = r /\ y = q
    <3>1. view'[x][y] = view[r][q] + 1
      BY <1>1, <1>2, <2>1
    <3>2. view[r][q] \in Nat /\ view[q][q] \in 0..Len(Published[q]) /\ Len(Published[q]) \in Nat
      BY <1>2, <1>3, Zenon
    <3> QED BY <1>1, <2>1, <3>1, <3>2
  <2>2. CASE ~(x = r /\ y = q)
    <3>1. view'[x][y] = view[x][y]
      BY <1>1, <1>2, <2>2
    <3> QED BY <1>2, <3>1, Zenon
  <2> QED BY <2>1, <2>2, Zenon
<1>6. StoreOK'
  BY <1>1, <1>4, <1>5, Zenon DEF IInv, StoreOK
<1>7. refs[Own] \in Nat
  BY RefsTips, Zenon DEF IInv
<1>8. refs'[Own] \in Nat /\ refs[Own] <= refs'[Own]
  BY <1>1, <1>7
<1>9. PullsOK'
  BY <1>1, <1>7, <1>8, AsideOK, Zenon DEF IInv
<1> QED BY <1>6, <1>9, Zenon DEF IInv

LEMMA AcceptOK ==
    ASSUME IInv, Accept
    PROVE  IInv' /\ Advances /\ Confirmed
<1>1. /\ UNCHANGED <<sc, tracked, view, pc>> /\ accepts' = accepts + 1
      /\ refs' = [refs EXCEPT ![Own] = @ + 1]
      /\ DOMAIN st' = Procs /\ \A p \in Procs : st'[p] = Disturbed(st[p])
  BY Zenon DEF Accept, Disturbed
<1>2. /\ refs \in [Names -> Nat] /\ \A n \in Names : refs[n] \in TipsAt(n)
      /\ accepts \in Nat /\ StoreOK /\ PullsOK
  BY Zenon DEF IInv, StoreOK
<1>3. Own \in Names /\ TipsAt(Own) = Nat /\ refs[Own] \in Nat
  BY <1>2, NamesAre, Zenon
<1> HIDE DEF Own
<1>4. /\ refs' \in [Names -> Nat] /\ refs'[Own] = refs[Own] + 1
      /\ \A n \in Names \ {Own} : refs'[n] = refs[n]
  BY <1>1, <1>2, <1>3
<1>5. accepts' \in Nat /\ accepts' # accepts
  BY <1>1, <1>2
<1>6. refs'[Own] \in Nat /\ refs[Own] <= refs'[Own] /\ refs'[Own] >= refs[Own]
  BY <1>3, <1>4
<1>7. \A n \in Names : refs'[n] \in TipsAt(n)
  BY <1>2, <1>3, <1>4, <1>6, Zenon
<1>8. StoreOK'
  BY <1>1, <1>2, <1>4, <1>5, <1>7, Zenon DEF StoreOK
<1>9. PullsOK'
  BY <1>1, <1>2, <1>3, <1>6, AsideOK, Zenon
<1>10. Advances
  <2>1. \A n \in Names : refs[n] \in Nat
    BY <1>2, Zenon
  <2>2. \A n \in Names \ {Own} : refs'[n] >= refs[n]
    BY <1>4, <2>1
  <2> QED BY <1>6, <2>2, Zenon DEF Advances
<1>11. Confirmed
  BY <1>5, Zenon DEF Confirmed
<1> QED BY <1>8, <1>9, <1>10, <1>11, Zenon DEF IInv

-----------------------------------------------------------------------------
(***************************************************************************)
(* The specification                                                       *)
(***************************************************************************)

\* Before anything is pulled.
LEMMA InitOK == Init => IInv
<1> SUFFICES ASSUME Init PROVE IInv
  OBVIOUS
<1>1. /\ sc \in Scenarios /\ refs = [n \in Names |-> IF n \in DOMAIN sc.refs THEN sc.refs[n] ELSE 0]
      /\ tracked = sc.tracked /\ view = sc.view /\ accepts = 0
      /\ pc = [p \in Procs |-> "idle"] /\ st = [p \in Procs |-> Fresh]
  BY Zenon DEF Init
<1>2. /\ sc.tracked \in [Range(Order) -> Policies]
      /\ \A n \in Names \cap DOMAIN sc.refs : sc.refs[n] \in TipsAt(n)
      /\ sc.view \in [Others -> [Others -> Nat]]
      /\ \A r, q \in Others : sc.view[r][q] \in 0..Len(Published[q])
  BY <1>1, ScenariosAssumption, Zenon DEF TipsAt
<1>3. ASSUME NEW n \in Names PROVE refs[n] \in TipsAt(n) /\ refs[n] \in Nat
  <2>1. TipsAt(n) \subseteq Nat
    BY NamesAre, Zenon
  <2>2. 0 \in TipsAt(n)
    <3>1. CASE n = Own
      BY <3>1, NamesAre
    <3>2. CASE n # Own
      <4>1. Len(Signed[n[1]]) \in Nat
        BY <3>2, NamesAre, Zenon
      <4> QED BY <4>1 DEF TipsAt
    <3> QED BY <3>1, <3>2
  <2>3. refs[n] \in TipsAt(n)
    BY <1>1, <1>2, <1>3, <2>2, Zenon
  <2> QED BY <2>1, <2>3, Zenon
<1>4. refs \in [Names -> Nat]
  <2>1. refs = [n \in Names |-> refs[n]]
    BY <1>1, Zenon
  <2> QED BY <1>3, <2>1, Zenon
<1>5. accepts \in Nat
  BY <1>1
<1>6. StoreOK
  BY <1>1, <1>2, <1>3, <1>4, <1>5, Zenon DEF StoreOK
<1>7. PullsOK
  <2>1. refs[Own] \in Nat
    BY <1>3, NamesAre, Zenon
  <2>2. "none" \in Reasons /\ "idle" \in {"idle", "failed"}
    BY DEF Reasons
  <2>3. RecOK(Fresh, "idle", IsDelegate(Local)) /\ Fresh.anchor = 0
    BY <2>2, FreshOK, Zenon
  <2>4. Fresh.anchor <= refs[Own]
    BY <2>1, <2>3
  <2> HIDE DEF Fresh
  <2> QED BY <1>1, <2>3, <2>4, Zenon DEF PullsOK
<1> QED BY <1>6, <1>7, Zenon DEF IInv

\* Every step keeps the invariant, moves no guarded ref back, and leaves a
\* delegate's own rad/id to the user and to clones.
LEMMA NextOK ==
    ASSUME IInv, [Next]_vars
    PROVE  IInv' /\ Advances /\ Confirmed
<1>1. CASE UNCHANGED vars
  <2>1. UNCHANGED <<sc, refs, tracked, view, accepts, st, pc>>
    BY <1>1, Zenon DEF vars
  <2>2. PullsOK'
    BY <2>1, Zenon DEF IInv, PullsOK, IsDelegate
  <2> QED BY <2>1, <2>2, StoreSame, RefsSame, Zenon DEF IInv
<1>2. ASSUME NEW p \in Procs, NEW r \in sc.remotes, Replicate(p, r)
      PROVE  IInv' /\ Advances /\ Confirmed
  <2>1. refs' = refs
    BY <1>2, Zenon DEF Replicate, store
  <2> QED BY <1>2, <2>1, ReplicateOK, RefsSame, Zenon
<1>3. ASSUME NEW p \in Procs, Pull(p) \/ NetFails(p), ~Commit(p)
      PROVE  IInv' /\ Advances /\ Confirmed
  <2>1. refs' = refs
    BY <1>3, Zenon DEF Pull, PeekForClone, Peek, Track, EditIds, EditTips, Edit, Fetch, Transitive,
                       Sign, Parent, CommitSigned, Validate, NetFails, store
  <2>2. IInv'
    <3>1. CASE NetFails(p)
      <4>1. Fail(p, "io") /\ UNCHANGED <<sc, refs, tracked, view, accepts>>
        BY <3>1, Zenon DEF NetFails, store
      <4>2. "io" \in Reasons
        BY DEF Reasons
      <4> QED BY <4>1, <4>2, FailOK, Zenon
    <3>2. CASE PeekForClone(p) \/ Peek(p) \/ Track(p) \/ EditIds(p) \/ EditTips(p)
      BY <3>2, PeekForCloneOK, PeekOK, TrackOK, EditIdsOK, EditTipsOK, Zenon
    <3>3. CASE Fetch(p) \/ Transitive(p) \/ Validate(p)
      BY <3>3, FetchOK, TransitiveOK, ValidateOK, Zenon
    <3>4. CASE Sign(p) \/ Parent(p) \/ CommitSigned(p)
      BY <3>4, SignedRefsOK, Zenon
    <3> QED BY <1>3, <3>1, <3>2, <3>3, <3>4, Zenon DEF Pull
  <2> QED BY <2>1, <2>2, RefsSame, Zenon
<1>4. ASSUME NEW p \in Procs, Commit(p) PROVE IInv' /\ Advances /\ Confirmed
  BY <1>4, CommitOK, Zenon
<1>5. ASSUME NEW p \in Procs, CommitPartially(p) PROVE IInv' /\ Advances /\ Confirmed
  BY <1>5, CommitPartiallyOK, Zenon
<1>6. ASSUME NEW r \in sc.remotes, NEW q \in Others, Advance(r, q)
      PROVE  IInv' /\ Advances /\ Confirmed
  <2>1. refs' = refs
    BY <1>6, Zenon DEF Advance, store
  <2>2. r \in Others
    BY <1>6, ScenariosAssumption, Zenon DEF IInv, StoreOK
  <2> QED BY <1>6, <2>1, <2>2, AdvanceOK, RefsSame, Zenon
<1>7. CASE Accept
  BY <1>7, AcceptOK, Zenon
<1> QED BY <1>1, <1>2, <1>3, <1>4, <1>5, <1>6, <1>7, Zenon DEF Next

LEMMA TypesOfInvariant ==
    ASSUME IInv
    PROVE  TypeOK
<1>1. /\ refs \in [Names -> Nat] /\ tracked \in [Range(Order) -> Policies]
      /\ \A q \in Others : refs[<<q, "sigrefs">>] \in 0..Len(Signed[q])
  BY RefsTips, Zenon DEF IInv, StoreOK
<1>2. ASSUME NEW p \in Procs
      PROVE  /\ \A q \in DOMAIN st[p].loaded : st[p].loaded[q] \in DOMAIN Signed[q]
             /\ \A u \in Range(st[p].tips) : u.name \in Names /\ (u.target # 0 <=> u.no_ff # "prune")
             /\ st[p].why \in Reasons
  <2> DEFINE tips == st[p].tips
             P == Pending(st[p].clone, st[p].anchor, pc[p], IsDelegate(Local))
  <2>1. ListsOK(st[p].loaded) /\ tips \in Seq(P) /\ st[p].why \in Reasons
    BY OfPull, Zenon DEF RecOK
  <2>2. ASSUME NEW q \in DOMAIN st[p].loaded PROVE st[p].loaded[q] \in DOMAIN Signed[q]
    <3>1. q \in Others /\ st[p].loaded[q] \in 1..Len(Signed[q])
      BY <2>1, Zenon DEF ListsOK
    <3>2. DOMAIN Signed[q] = 1..Len(Signed[q])
      BY <3>1, SignedAssumption
    <3> QED BY <3>1, <3>2, Zenon
  <2>3. P \subseteq Updates
    BY PendingIncludes, Zenon
  <2> HIDE DEF tips, P
  <2>4. Range(tips) \subseteq P
    BY <2>1 DEF Range
  <2>5. \A u \in Updates : u.name \in Names /\ (u.target # 0 <=> u.no_ff # "prune")
    BY DEF Updates
  <2> QED BY <2>1, <2>2, <2>3, <2>4, <2>5, Zenon DEF tips
<1> QED BY <1>1, <1>2, Zenon DEF TypeOK

\* Whatever the remotes publish and advertise, and however pulls interleave and
\* fail, what the store holds of a peer's rad/signed_refs is one of its lists, and
\* the lists and updates a pull works with name refs of the namespace.
THEOREM Types == Spec => []TypeOK
<1>1. IInv /\ [Next]_vars => IInv'
  BY NextOK
<1>2. IInv => TypeOK
  BY TypesOfInvariant
<1> QED BY InitOK, <1>1, <1>2, PTL DEF Spec

\* Nobody's rad/signed_refs, and not the own rad/id, ever goes back: not in a
\* transaction that is cut off, nor when pulls from different remotes interleave.
THEOREM NeverBack == Spec => TipsOnlyAdvance
<1> DEFINE A == \A n \in Names : n = Own \/ n[2] = "sigrefs" => refs'[n] >= refs[n]
<1>1. IInv /\ [Next]_vars => IInv' /\ [A]_vars
  BY NextOK DEF Advances
<1> QED BY InitOK, <1>1, PTL DEF Spec, TipsOnlyAdvance

\* A delegate's own rad/id is moved by the user, who accepts a revision, or by a
\* clone that began before there was one; no other pull moves it.
THEOREM Confirmation == Spec => ConfirmationKept
<1> DEFINE C == IsDelegate(Local) /\ refs[Own] # 0 /\ refs'[Own] # refs[Own] =>
                    \/ accepts' # accepts
                    \/ \E p \in Procs : st[p].clone /\ pc[p] = "commit_ids" /\ pc'[p] # pc[p]
<1>1. IInv /\ [Next]_vars => IInv' /\ [C]_vars
  BY NextOK DEF Confirmed
<1> QED BY InitOK, <1>1, PTL DEF Spec, ConfirmationKept
=============================================================================
