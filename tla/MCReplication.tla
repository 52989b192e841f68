--------------------------- MODULE MCReplication ---------------------------
(***************************************************************************)
(* A delegate d, a peer t which is tracked or not, and a peer x which only *)
(* they track; the local peer is a delegate itself or not.                 *)
(***************************************************************************)
EXTENDS Replication

CONSTANTS l, d, t, x, h1, h2, p1, p2

Ascendingly == << d, l, t, x >>

Tips(i, s) == [id |-> i, sigrefs |-> s]

\* d publishes a new revision, and then the list that goes with it.
AllPublished ==
    d :> << Tips(1, 1), Tips(2, 1), Tips(2, 2) >> @@
    t :> << Tips(1, 0), Tips(1, 1), Tips(1, 2) >> @@
    x :> << Tips(1, 1) >>

AllSigned ==
    d :> << [refs |-> "id" :> 1 @@ h1 :> 1, remotes |-> {t, x}],
            [refs |-> "id" :> 2 @@ h2 :> 1, remotes |-> {t, x}] >> @@
    t :> << [refs |-> "id" :> 1 @@ h1 :> 1, remotes |-> {d, x}],
            [refs |-> "id" :> 1 @@ h1 :> 2, remotes |-> {d}] >> @@
    x :> << [refs |-> "id" :> 1 @@ h1 :> 1, remotes |-> {}] >>

View(ds, ts, xs) == d :> ds @@ t :> ts @@ x :> xs

Tracked(ts) == d :> "none" @@ l :> "none" @@ t :> ts @@ x :> "none"

Having(q) == <<q, "id">> :> 1 @@ <<q, "sigrefs">> :> 1 @@ <<q, h1>> :> 1

\* Two pulls side by side and one more, from remotes each of which has something
\* that the other lacks.
Cloning ==
    [delegates |-> {d}, unverifiable |-> {}, remotes |-> {d, t}, tracked |-> Tracked("allow"),
     refs |-> << >>,
     view |-> d :> View(3, 1, 1) @@ t :> View(1, 3, 0) @@ x :> View(0, 0, 1),
     pulls |-> 3, advances |-> 0, accepts |-> 0, failures |-> 1]

\* The remotes change meanwhile.
CloningChanging == [Cloning EXCEPT !.advances = 1, !.failures = 0]

\* One pull fails, the remotes change, and another pull finds what it left.
CloningAgain == [Cloning EXCEPT !.pulls = 2, !.advances = 1]

\* The local peer is a delegate as well, and its user moves the identity on.
Delegating ==
    [delegates |-> {d, l}, unverifiable |-> {}, remotes |-> {d, t}, tracked |-> Tracked("deny"),
     refs |-> Having(d) @@ <<l, "id">> :> 1,
     view |-> d :> View(2, 2, 1) @@ t :> View(1, 2, 0) @@ x :> View(0, 0, 1),
     pulls |-> 3, advances |-> 1, accepts |-> 1, failures |-> 0]

\* The rad/id of the tracked peer does not verify.
Tainted ==
    [delegates |-> {d}, unverifiable |-> {t}, remotes |-> {d, t}, tracked |-> Tracked("allow"),
     refs |-> << >>,
     view |-> d :> View(3, 2, 1) @@ t :> View(2, 2, 1) @@ x :> View(0, 0, 1),
     pulls |-> 2, advances |-> 0, accepts |-> 0, failures |-> 1]

\* Nobody but the local peer delegates, and the data of the tracked peer, which
\* was fetched before, is no longer wanted.
Alone ==
    [delegates |-> {l}, unverifiable |-> {}, remotes |-> {t}, tracked |-> Tracked("deny"),
     refs |-> Having(t) @@ <<l, "id">> :> 1,
     view |-> d :> View(1, 1, 0) @@ t :> View(1, 3, 0) @@ x :> View(0, 0, 1),
     pulls |-> 2, advances |-> 1, accepts |-> 1, failures |-> 1]

\* The remote does not have the URN, until it does.
Absent ==
    [delegates |-> {d}, unverifiable |-> {}, remotes |-> {d, t}, tracked |-> Tracked("none"),
     refs |-> << >>,
     view |-> d :> View(1, 0, 0) @@ t :> View(0, 0, 0) @@ x :> View(0, 0, 0),
     pulls |-> 2, advances |-> 2, accepts |-> 0, failures |-> 0]

\* The local peer is a delegate, and clones from two remotes at a time.
Recloning ==
    [delegates |-> {d, l}, unverifiable |-> {}, remotes |-> {d, t}, tracked |-> Tracked("allow"),
     refs |-> << >>,
     view |-> d :> View(3, 1, 1) @@ t :> View(1, 3, 0) @@ x :> View(0, 0, 1),
     pulls |-> 3, advances |-> 0, accepts |-> 1, failures |-> 0]

JustCloning == {Cloning}

AllScenarios ==
    {Cloning, CloningChanging, CloningAgain, Delegating, Tainted, Alone, Absent, Recloning}

Interchangeable == Permutations(Procs)
=============================================================================
